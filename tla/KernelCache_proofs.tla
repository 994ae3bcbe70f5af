--------------------------- MODULE KernelCache_proofs ---------------------------
(***************************************************************************)
(* Proofs about KernelCache for any number of threads, processes, kernels, *)
(* modules and crashes.                                                    *)
(***************************************************************************)
EXTENDS KernelCache, TLAPS

\* The module of a thread between compileModule and the unique lock is loaded,
\* and nobody else has it; what is cached is loaded and is what was returned.
ModulesInv ==
    /\ \A p \in Procs, k \in Keys : cache[p][k] # NoMod => loaded[p][cache[p][k]] # NoKey
    /\ \A t \in Threads : th[t].mod # NoMod =>
         /\ loaded[Proc[t]][th[t].mod] # NoKey
         /\ \A k \in Keys : cache[Proc[t]][k] # th[t].mod
         /\ \A u \in Threads : u # t /\ Proc[u] = Proc[t] => th[u].mod # th[t].mod
    /\ OneModulePerKey

LEMMA OneOfIsMember ==
    ASSUME NEW S, S # {}
    PROVE  OneOf(S) \in S
  BY DEF OneOf

LEMMA TypeInit == Init => TypeOK
  BY CacheAssumption DEF Init, TypeOK, Idle, Blank, PCs

\* What Load does to a thread and to the modules of its process
LEMMA LoadFacts ==
    ASSUME NEW t \in Threads, NEW code \in Keys, NEW pc \in PCs, TypeOK, Load(t, code, pc)
    PROVE  \E m \in Unused(Proc[t]) :
             /\ m \in Mods
             /\ loaded' = [loaded EXCEPT ![Proc[t]][m] = code]
             /\ Move(t, pc, m, NoIno)
  <1>1. OneOf(Unused(Proc[t])) \in Unused(Proc[t])
    BY OneOfIsMember DEF Load
  <1>2. Unused(Proc[t]) \subseteq Mods
    BY DEF Unused
  <1> QED BY <1>1, <1>2 DEF Load

\* What a call that returns x adds to the kernels handed out
LEMMA ReturnFacts ==
    ASSUME TypeOK, NEW p \in Procs, NEW x, handed' = [handed EXCEPT ![p] = @ \cup {x}],
           NEW q \in Procs, NEW r \in handed'[q]
    PROVE  r \in handed[q] \/ (q = p /\ r = x)
  <1>1. DOMAIN handed = Procs
    BY DEF TypeOK
  <1> QED BY <1>1

LEMMA TypeCall ==
    ASSUME TypeOK, NEW t \in Threads, Call(t)
    PROVE  TypeOK'
  <1>1. PICK k \in Keys : Hit(t, k) \/ Miss(t, k)
    BY DEF Call
  <1>2. CASE Hit(t, k)
    BY <1>2, CacheAssumption DEF Hit, Return, TypeOK
  <1>3. CASE Miss(t, k)
    BY <1>3, CacheAssumption DEF Miss, TypeOK, Idle, PCs
  <1> QED BY <1>1, <1>2, <1>3

LEMMA TypeStep ==
    ASSUME TypeOK, NEW t \in Threads, Step(t)
    PROVE  TypeOK'
  <1> USE CacheAssumption
  <1>1. CASE OpenCacheFile(t)
    <2>1. th[t].pc = "open" /\ Key(t) \in Keys /\ file[Key(t)] \in Inodes \cup {NoIno}
      BY <1>1 DEF OpenCacheFile, At, Key, TypeOK, Files
    <2>2. \/ file[Key(t)] \in Inodes /\ Open(t, "read", file[Key(t)])
          \/ Goto(t, "remove")
      BY <1>1, <2>1 DEF OpenCacheFile
    <2>3. CASE file[Key(t)] \in Inodes /\ Open(t, "read", file[Key(t)])
      BY <1>1, <2>1, <2>3 DEF OpenCacheFile, Open, Move, Key, TypeOK, PCs
    <2>4. CASE Goto(t, "remove")
      BY <1>1, <2>1, <2>4 DEF OpenCacheFile, Goto, Move, Key, TypeOK, PCs
    <2> QED BY <2>2, <2>3, <2>4
  <1>2. CASE ReadCacheFile(t)
    <2>1. CASE Goto(t, "remove") /\ UNCHANGED loaded
      BY <1>2, <2>1 DEF ReadCacheFile, At, Goto, Move, TypeOK, PCs
    <2>2. CASE Intact(data[th[t].ino]) /\ Load(t, data[th[t].ino].binary, "publish")
      <3>1. data[th[t].ino].binary \in Keys
        BY <1>2, <2>2 DEF ReadCacheFile, At, Intact, TypeOK
      <3>2. PICK m \in Mods :
              /\ loaded' = [loaded EXCEPT ![Proc[t]][m] = data[th[t].ino].binary]
              /\ Move(t, "publish", m, NoIno)
        BY <2>2, <3>1, LoadFacts DEF PCs
      <3> QED BY <1>2, <3>1, <3>2 DEF ReadCacheFile, At, Move, TypeOK, PCs
    <2> QED BY <1>2, <2>1, <2>2 DEF ReadCacheFile
  <1>3. CASE RemoveCacheFile(t)
    BY <1>3 DEF RemoveCacheFile, At, Goto, Move, Key, TypeOK, PCs, Files
  <1>4. CASE Compile(t)
    <2> DEFINE next == IF UseDisk THEN "save" ELSE "publish"
    <2>1. Key(t) \in Keys /\ next \in PCs
      BY <1>4 DEF Compile, At, Key, TypeOK, PCs
    <2>2. PICK m \in Mods :
            /\ loaded' = [loaded EXCEPT ![Proc[t]][m] = Key(t)]
            /\ Move(t, next, m, NoIno)
      BY <1>4, <2>1, LoadFacts DEF Compile
    <2> HIDE DEF next
    <2>3. next \in {"save", "publish"}
      BY DEF next
    <2> QED BY <1>4, <2>1, <2>2, <2>3 DEF Compile, At, Move, Key, TypeOK, PCs
  <1>5. CASE CompileError(t)
    BY <1>5 DEF CompileError, Idle, TypeOK, PCs
  <1>6. CASE OpenTemp(t)
    <2> DEFINE i == IF file[TempName[t]] = NoIno THEN OneOf(FreeInodes) ELSE file[TempName[t]]
    <2>1. i \in Inodes
      <3>1. OneOf(FreeInodes) \in Inodes
        BY <1>6, OneOfIsMember DEF OpenTemp, FreeInodes
      <3> QED BY <3>1 DEF TypeOK, Files, TempFiles
    <2>2. /\ file' = [file EXCEPT ![TempName[t]] = i]
          /\ data' = [data EXCEPT ![i] = Blank]
          /\ Open(t, "hash", i)
      BY <1>6 DEF OpenTemp
    <2> HIDE DEF i
    <2> QED BY <1>6, <2>1, <2>2 DEF OpenTemp, At, Open, Move, TypeOK, PCs, Blank, Files, TempFiles
  <1>7. CASE OpenTempFails(t)
    BY <1>7 DEF OpenTempFails, At, Goto, Move, TypeOK, PCs
  <1>8. CASE WriteHash(t)
    BY <1>8 DEF WriteHash, At, Open, Move, Key, TypeOK, PCs
  <1>9. CASE WriteBinary(t)
    BY <1>9 DEF WriteBinary, At, Goto, Move, Key, TypeOK, PCs
  <1>10. CASE WriteFails(t)
    BY <1>10 DEF WriteFails, At, Goto, Move, TypeOK, PCs
  <1>11. CASE Rename(t)
    <2>1. file' \in [Files -> Inodes \cup {NoIno}]
      <3>1. file \in [Files -> Inodes \cup {NoIno}]
        BY DEF TypeOK
      <3>2. TempName[t] \in Files
        BY DEF Files, TempFiles
      <3>3. file' = [file EXCEPT ![Key(t)] = file[TempName[t]], ![TempName[t]] = NoIno]
        BY <1>11 DEF Rename
      <3> QED BY <3>1, <3>2, <3>3
    <2> QED BY <1>11, <2>1 DEF Rename, At, Goto, Move, TypeOK, PCs
  <1>12. CASE RenameFails(t)
    BY <1>12 DEF RenameFails, At, Goto, Move, TypeOK, PCs
  <1>13. CASE RemoveTemp(t)
    BY <1>13 DEF RemoveTemp, At, Goto, Move, TypeOK, PCs, Files, TempFiles
  <1>14. CASE Publish(t)
    <2>1. /\ th[t].mod \in Mods /\ Key(t) \in Keys /\ Cached(t) \in Mods \cup {NoMod}
          /\ Proc[t] \in Procs
      BY <1>14 DEF Publish, At, Cached, Key, TypeOK
    <2>2. th' \in [Threads -> [pc : PCs, key : Keys \cup {NoKey}, mod : Mods \cup {NoMod},
                               ino : Inodes \cup {NoIno}]]
      BY <1>14 DEF Publish, Idle, TypeOK, PCs
    <2>3. CASE Cached(t) = NoMod
      <3>1. /\ cache' = [cache EXCEPT ![Proc[t]][Key(t)] = th[t].mod]
            /\ handed' = [handed EXCEPT ![Proc[t]] = @ \cup {<<Key(t), th[t].mod>>}]
            /\ loaded' = loaded
        BY <1>14, <2>3 DEF Publish, Return
      <3>2. cache' \in [Procs -> [Keys -> Mods \cup {NoMod}]]
        BY <2>1, <3>1 DEF TypeOK
      <3>3. handed' \in [Procs -> SUBSET (Keys \X Mods)]
        BY <2>1, <3>1 DEF TypeOK
      <3> QED BY <1>14, <2>2, <3>1, <3>2, <3>3 DEF Publish, Idle, TypeOK, PCs
    <2>4. CASE Cached(t) # NoMod
      <3>1. /\ loaded' = [loaded EXCEPT ![Proc[t]][th[t].mod] = NoKey]
            /\ handed' = [handed EXCEPT ![Proc[t]] = @ \cup {<<Key(t), Cached(t)>>}]
            /\ cache' = cache
        BY <1>14, <2>4 DEF Publish, Return
      <3>2. loaded' \in [Procs -> [Mods -> Keys \cup {NoKey}]]
        BY <2>1, <3>1 DEF TypeOK
      <3>3. handed' \in [Procs -> SUBSET (Keys \X Mods)]
        BY <2>1, <2>4, <3>1 DEF TypeOK
      <3> QED BY <1>14, <2>2, <3>1, <3>2, <3>3 DEF Publish, Idle, TypeOK, PCs
    <2> QED BY <2>3, <2>4
  <1> QED BY <1>1, <1>2, <1>3, <1>4, <1>5, <1>6, <1>7, <1>8, <1>9, <1>10, <1>11,
             <1>12, <1>13, <1>14 DEF Step

LEMMA TypeCrash ==
    ASSUME TypeOK, NEW p \in Procs, Crash(p)
    PROVE  TypeOK'
  BY CacheAssumption DEF Crash, TypeOK, Idle, PCs

LEMMA TypeNext == TypeOK /\ [Next]_vars => TypeOK'
  <1> SUFFICES ASSUME TypeOK, [Next]_vars PROVE TypeOK'
    OBVIOUS
  <1>1. CASE UNCHANGED vars
    BY <1>1 DEF vars, TypeOK
  <1>2. CASE Next
    BY <1>2, TypeCall, TypeStep, TypeCrash DEF Next
  <1> QED BY <1>1, <1>2

\* The state of getKernel and of the directory is always well typed.
THEOREM TypeCorrect == Spec => []TypeOK
  BY TypeInit, TypeNext, PTL DEF Spec

-----------------------------------------------------------------------------
(***************************************************************************)
(* The modules of a process                                                *)
(***************************************************************************)
LEMMA ModulesInit == Init => ModulesInv
  BY CacheAssumption DEF Init, ModulesInv, OneModulePerKey, Idle

\* Steps that touch neither the map nor the modules
LEMMA ModulesQuiet ==
    ASSUME TypeOK, ModulesInv, UNCHANGED <<cache, loaded, handed>>,
           \A u \in Threads : th'[u].mod = th[u].mod \/ th'[u].mod = NoMod
    PROVE  ModulesInv'
  BY DEF ModulesInv, OneModulePerKey

\* A thread that moves on without a new module
LEMMA MoveKeepsModule ==
    ASSUME TypeOK, NEW t \in Threads, NEW pc, NEW i, Move(t, pc, th[t].mod, i)
    PROVE  \A u \in Threads : th'[u].mod = th[u].mod
  BY DEF Move, TypeOK

\* compileModule and loadModuleFromDisk give the thread a module of its own
LEMMA ModulesLoad ==
    ASSUME TypeOK, ModulesInv, NEW t \in Threads, NEW code \in Keys, NEW pc \in PCs,
           Load(t, code, pc), UNCHANGED <<cache, handed>>
    PROVE  ModulesInv'
  <1> USE CacheAssumption
  <1> DEFINE p == Proc[t]
  <1>1. PICK m \in Unused(p) :
          /\ m \in Mods
          /\ loaded' = [loaded EXCEPT ![p][m] = code]
          /\ Move(t, pc, m, NoIno)
    BY LoadFacts
  <1>2. p \in Procs /\ code # NoKey /\ m # NoMod
    BY <1>1
  <1>3. loaded[p][m] = NoKey /\ \A k \in Keys : cache[p][k] # m
    BY DEF Unused
  <1>4. \A q \in Procs, n \in Mods :
          loaded'[q][n] = IF q = p /\ n = m THEN code ELSE loaded[q][n]
    BY <1>1, <1>2 DEF TypeOK
  <1>5. \A u \in Threads : th'[u].mod = IF u = t THEN m ELSE th[u].mod
    BY <1>1 DEF Move, TypeOK
  <1>6. \A u \in Threads : Proc[u] = p => th[u].mod # m
    BY <1>1, <1>2, <1>3 DEF ModulesInv
  <1> HIDE DEF p
  <1>7. \A q \in Procs, k \in Keys : cache'[q][k] # NoMod => loaded'[q][cache'[q][k]] # NoKey
    <2> SUFFICES ASSUME NEW q \in Procs, NEW k \in Keys, cache[q][k] # NoMod
                 PROVE  loaded'[q][cache[q][k]] # NoKey
      OBVIOUS
    <2>1. cache[q][k] \in Mods
      BY DEF TypeOK
    <2> QED BY <1>2, <1>4, <2>1 DEF ModulesInv
  <1>8. ASSUME NEW u \in Threads, th'[u].mod # NoMod
        PROVE  /\ loaded'[Proc[u]][th'[u].mod] # NoKey
               /\ \A k \in Keys : cache'[Proc[u]][k] # th'[u].mod
               /\ \A v \in Threads : v # u /\ Proc[v] = Proc[u] => th'[v].mod # th'[u].mod
    <2>1. CASE u = t
      BY <1>1, <1>2, <1>3, <1>4, <1>5, <1>6, <2>1 DEF p
    <2>2. CASE u # t
      <3>1. th'[u].mod = th[u].mod /\ th[u].mod \in Mods /\ Proc[u] \in Procs
        BY <1>5, <1>8, <2>2 DEF TypeOK
      <3> QED BY <1>2, <1>4, <1>5, <1>6, <1>8, <2>2, <3>1 DEF ModulesInv, p
    <2> QED BY <2>1, <2>2
  <1> QED BY <1>7, <1>8 DEF ModulesInv, OneModulePerKey

\* The unique lock: the module goes into the map, or it is unloaded
LEMMA ModulesPublish ==
    ASSUME TypeOK, ModulesInv, NEW t \in Threads, Publish(t)
    PROVE  ModulesInv'
  <1> USE CacheAssumption
  <1> DEFINE p == Proc[t]
             k == Key(t)
             m == th[t].mod
  <1>1. p \in Procs /\ k \in Keys /\ m \in Mods /\ m # NoMod
    <2>1. th[t].pc = "publish"
      BY DEF Publish, At
    <2>2. th[t].key \in Keys /\ th[t].mod \in Mods
      BY <2>1 DEF TypeOK
    <2> QED BY <2>2 DEF Key
  <1>2. /\ loaded[p][m] # NoKey
        /\ \A l \in Keys : cache[p][l] # m
        /\ \A u \in Threads : u # t /\ Proc[u] = p => th[u].mod # m
    BY <1>1 DEF ModulesInv
  <1>3. th'[t].mod = NoMod /\ \A u \in Threads : u # t => th'[u].mod = th[u].mod
    BY DEF Publish, Idle, TypeOK
  <1>4. CASE Cached(t) = NoMod
    <2>1. /\ cache' = [cache EXCEPT ![p][k] = m]
          /\ handed' = [handed EXCEPT ![p] = @ \cup {<<k, m>>}]
          /\ loaded' = loaded
      BY <1>4 DEF Publish, Return
    <2>2. cache[p][k] = NoMod
      BY <1>4 DEF Cached
    <2> HIDE DEF p, k, m
    <2>3. \A q \in Procs, l \in Keys :
            cache'[q][l] = IF q = p /\ l = k THEN m ELSE cache[q][l]
      BY <1>1, <2>1 DEF TypeOK
    <2>4. \A q \in Procs, l \in Keys : cache'[q][l] # NoMod => loaded'[q][cache'[q][l]] # NoKey
      BY <1>1, <1>2, <2>1, <2>3 DEF ModulesInv
    <2>5. ASSUME NEW u \in Threads, th'[u].mod # NoMod
          PROVE  /\ loaded'[Proc[u]][th'[u].mod] # NoKey
                 /\ \A l \in Keys : cache'[Proc[u]][l] # th'[u].mod
                 /\ \A v \in Threads : v # u /\ Proc[v] = Proc[u] => th'[v].mod # th'[u].mod
      <3>1. u # t /\ th'[u].mod = th[u].mod /\ Proc[u] \in Procs
        BY <1>3, <2>5
      <3> QED BY <1>2, <1>3, <2>1, <2>3, <2>5, <3>1 DEF ModulesInv
    <2>6. \A q \in Procs : \A r \in handed'[q] : cache'[q][r[1]] = r[2]
      <3>1. ASSUME NEW q \in Procs, NEW r \in handed'[q]
            PROVE  cache'[q][r[1]] = r[2]
        <4>1. CASE r \in handed[q]
          <5>1. r[1] \in Keys /\ r[2] \in Mods /\ cache[q][r[1]] = r[2]
            BY <4>1 DEF TypeOK, ModulesInv, OneModulePerKey
          <5>2. ~ (q = p /\ r[1] = k)
            BY <2>2, <5>1
          <5> QED BY <2>3, <5>1, <5>2
        <4>2. CASE r \notin handed[q]
          <5>1. q = p /\ r = <<k, m>>
            BY <1>1, <2>1, <4>2, ReturnFacts
          <5> QED BY <1>1, <2>3, <5>1
        <4> QED BY <4>1, <4>2
      <3> QED BY <3>1
    <2> QED BY <2>4, <2>5, <2>6 DEF ModulesInv, OneModulePerKey
  <1>5. CASE Cached(t) # NoMod
    <2>1. /\ loaded' = [loaded EXCEPT ![p][m] = NoKey]
          /\ handed' = [handed EXCEPT ![p] = @ \cup {<<k, cache[p][k]>>}]
          /\ cache' = cache
      BY <1>5 DEF Publish, Return, Cached
    <2>2. cache[p][k] \in Mods
      BY <1>1, <1>5 DEF Cached, TypeOK
    <2> HIDE DEF p, k, m
    <2>3. \A q \in Procs, n \in Mods :
            loaded'[q][n] = IF q = p /\ n = m THEN NoKey ELSE loaded[q][n]
      BY <1>1, <2>1 DEF TypeOK
    <2>4. \A q \in Procs, l \in Keys : cache'[q][l] # NoMod => loaded'[q][cache'[q][l]] # NoKey
      BY <1>1, <1>2, <2>1, <2>3 DEF ModulesInv, TypeOK
    <2>5. ASSUME NEW u \in Threads, th'[u].mod # NoMod
          PROVE  /\ loaded'[Proc[u]][th'[u].mod] # NoKey
                 /\ \A l \in Keys : cache'[Proc[u]][l] # th'[u].mod
                 /\ \A v \in Threads : v # u /\ Proc[v] = Proc[u] => th'[v].mod # th'[u].mod
      <3>1. u # t /\ th'[u].mod = th[u].mod /\ Proc[u] \in Procs /\ th[u].mod \in Mods
        BY <1>3, <2>5 DEF TypeOK
      <3> QED BY <1>2, <1>3, <2>1, <2>3, <2>5, <3>1 DEF ModulesInv
    <2>6. \A q \in Procs : \A r \in handed'[q] : cache'[q][r[1]] = r[2]
      <3>1. ASSUME NEW q \in Procs, NEW r \in handed'[q]
            PROVE  cache'[q][r[1]] = r[2]
        <4> DEFINE x == <<k, cache[p][k]>>
        <4>1. handed' = [handed EXCEPT ![p] = @ \cup {x}]
          BY <2>1
        <4> HIDE DEF x
        <4>2. r \in handed[q] \/ (q = p /\ r = x)
          BY <1>1, <4>1, ReturnFacts
        <4> QED BY <2>1, <4>2 DEF x, ModulesInv, OneModulePerKey
      <3> QED BY <3>1
    <2> QED BY <2>4, <2>5, <2>6 DEF ModulesInv, OneModulePerKey
  <1> QED BY <1>4, <1>5

LEMMA ModulesCall ==
    ASSUME TypeOK, ModulesInv, NEW t \in Threads, Call(t)
    PROVE  ModulesInv'
  <1>1. PICK k \in Keys : Hit(t, k) \/ Miss(t, k)
    BY DEF Call
  <1>2. CASE Hit(t, k)
    <2> DEFINE p == Proc[t]
    <2>1. /\ handed' = [handed EXCEPT ![p] = @ \cup {<<k, cache[p][k]>>}]
          /\ UNCHANGED <<th, cache, loaded>> /\ p \in Procs
      BY <1>2, CacheAssumption DEF Hit, Return
    <2> HIDE DEF p
    <2>2. ASSUME NEW q \in Procs, NEW r \in handed'[q]
          PROVE  cache[q][r[1]] = r[2]
      <3> DEFINE x == <<k, cache[p][k]>>
      <3>1. handed' = [handed EXCEPT ![p] = @ \cup {x}]
        BY <2>1
      <3> HIDE DEF x
      <3>2. r \in handed[q] \/ (q = p /\ r = x)
        BY <2>1, <3>1, ReturnFacts
      <3> QED BY <3>2 DEF x, ModulesInv, OneModulePerKey
    <2> QED BY <2>1, <2>2 DEF ModulesInv, OneModulePerKey
  <1>3. CASE Miss(t, k)
    <2>1. \A u \in Threads : th'[u].mod = th[u].mod \/ th'[u].mod = NoMod
      BY <1>3 DEF Miss, TypeOK
    <2> QED BY <1>3, <2>1, ModulesQuiet DEF Miss
  <1> QED BY <1>1, <1>2, <1>3

LEMMA ModulesStep ==
    ASSUME TypeOK, ModulesInv, NEW t \in Threads, Step(t)
    PROVE  ModulesInv'
  <1>1. CASE ReadCacheFile(t)
    <2>1. CASE Intact(data[th[t].ino]) /\ Load(t, data[th[t].ino].binary, "publish")
      <3>1. data[th[t].ino].binary \in Keys
        BY <1>1, <2>1 DEF ReadCacheFile, At, Intact, TypeOK
      <3> QED BY <1>1, <2>1, <3>1, ModulesLoad DEF ReadCacheFile, PCs
    <2>2. CASE Goto(t, "remove") /\ UNCHANGED loaded
      BY <1>1, <2>2, MoveKeepsModule, ModulesQuiet DEF ReadCacheFile, Goto
    <2> QED BY <1>1, <2>1, <2>2 DEF ReadCacheFile
  <1>2. CASE Compile(t)
    <2>1. Key(t) \in Keys
      BY <1>2 DEF Compile, At, Key, TypeOK
    <2> QED BY <1>2, <2>1, ModulesLoad DEF Compile, PCs
  <1>3. CASE Publish(t)
    BY <1>3, ModulesPublish
  <1>4. CASE CompileError(t)
    <2>1. \A u \in Threads : th'[u].mod = th[u].mod \/ th'[u].mod = NoMod
      BY <1>4 DEF CompileError, Idle, TypeOK
    <2> QED BY <1>4, <2>1, ModulesQuiet DEF CompileError
  <1>5. CASE \/ OpenCacheFile(t) \/ RemoveCacheFile(t) \/ OpenTemp(t) \/ OpenTempFails(t)
             \/ WriteHash(t) \/ WriteBinary(t) \/ WriteFails(t)
             \/ Rename(t) \/ RenameFails(t) \/ RemoveTemp(t)
    <2>1. \E pc, i : Move(t, pc, th[t].mod, i)
      BY <1>5 DEF OpenCacheFile, RemoveCacheFile, OpenTemp, OpenTempFails, WriteHash,
                  WriteBinary, WriteFails, Rename, RenameFails, RemoveTemp, Goto, Open
    <2>2. UNCHANGED <<cache, loaded, handed>>
      BY <1>5 DEF OpenCacheFile, RemoveCacheFile, OpenTemp, OpenTempFails, WriteHash,
                  WriteBinary, WriteFails, Rename, RenameFails, RemoveTemp
    <2> QED BY <2>1, <2>2, MoveKeepsModule, ModulesQuiet
  <1> QED BY <1>1, <1>2, <1>3, <1>4, <1>5 DEF Step

LEMMA ModulesCrash ==
    ASSUME TypeOK, ModulesInv, NEW p \in Procs, Crash(p)
    PROVE  ModulesInv'
  <1> USE CacheAssumption
  <1>1. \A q \in Procs : /\ q = p => (\A k \in Keys : cache'[q][k] = NoMod) /\ handed'[q] = {}
                         /\ q # p => /\ cache'[q] = cache[q] /\ loaded'[q] = loaded[q]
                                    /\ handed'[q] = handed[q]
    BY DEF Crash, TypeOK
  <1>2. \A u \in Threads : /\ Proc[u] = p => th'[u].mod = NoMod
                           /\ Proc[u] # p => th'[u].mod = th[u].mod
    BY DEF Crash, Idle, TypeOK
  <1> QED BY <1>1, <1>2 DEF ModulesInv, OneModulePerKey

LEMMA ModulesNext == TypeOK /\ ModulesInv /\ [Next]_vars => ModulesInv'
  <1> SUFFICES ASSUME TypeOK, ModulesInv, [Next]_vars PROVE ModulesInv'
    OBVIOUS
  <1>1. CASE UNCHANGED vars
    BY <1>1 DEF vars, ModulesInv, OneModulePerKey
  <1>2. CASE Next
    BY <1>2, ModulesCall, ModulesStep, ModulesCrash DEF Next
  <1> QED BY <1>1, <1>2

LEMMA ModulesInvariant == Spec => [](TypeOK /\ ModulesInv)
  BY TypeInit, TypeNext, ModulesInit, ModulesNext, PTL DEF Spec

\* All callers of a kernel in a process get the module that is in the map,
\* however their misses, compilations and insertions interleave.
THEOREM OneModulePerKeyHolds == Spec => []OneModulePerKey
  <1>1. TypeOK /\ ModulesInv => OneModulePerKey
    BY DEF ModulesInv
  <1> QED BY <1>1, ModulesInvariant, PTL

\* A kernel that getKernel has returned belongs to a module that stays loaded.
THEOREM KernelsStayLoadedHolds == Spec => []KernelsStayLoaded
  <1>1. TypeOK /\ ModulesInv => KernelsStayLoaded
    <2> SUFFICES ASSUME TypeOK, ModulesInv, NEW p \in Procs, NEW r \in handed[p]
                 PROVE  loaded[p][r[2]] # NoKey
      BY DEF KernelsStayLoaded
    <2>1. r[1] \in Keys /\ r[2] \in Mods /\ cache[p][r[1]] = r[2]
      BY DEF TypeOK, ModulesInv, OneModulePerKey
    <2> QED BY <2>1, CacheAssumption DEF ModulesInv
  <1> QED BY <1>1, ModulesInvariant, PTL

-----------------------------------------------------------------------------
(***************************************************************************)
(* The files on disk                                                       *)
(***************************************************************************)

\* No two threads have the same temporary file: threads of one process, or of
\* processes whose thread ids differ.
OwnTempNames == \A t, u \in Threads : TempName[t] = TempName[u] => t = u

\* A temporary file that a crash has left can be opened again.
NoStaleTemp == OpenFails => MaxCrashes = 0

Holds(i, k) == data[i].binary \in {k, NoKey}

OneName == \A f, g \in Files : file[f] = file[g] /\ file[f] # NoIno => f = g

KeyFiles == \A k \in Keys : file[k] # NoIno => Holds(file[k], k)

Readers == \A t \in Threads : th[t].pc = "read" =>
             /\ Holds(th[t].ino, th[t].key)
             /\ \A u \in Threads : file[TempName[u]] # th[t].ino

Writers == \A t \in Threads : th[t].pc \in {"hash", "binary"} =>
             /\ file[TempName[t]] = th[t].ino
             /\ data[th[t].ino].binary = NoKey

Renamers == \A t \in Threads : th[t].pc = "rename" /\ file[TempName[t]] # NoIno =>
             Holds(file[TempName[t]], th[t].key)

NoLeftovers == OpenFails =>
             \A t \in Threads : th[t].pc \notin {"hash", "binary", "rename", "unlink"} =>
               file[TempName[t]] = NoIno

\* A file is named by one key or by one temporary name, and holds no other
\* binary than the one of that key, or of the thread that writes it.
DiskInv == OneName /\ KeyFiles /\ Readers /\ Writers /\ Renamers /\ NoLeftovers

\* The modules in the map and in the hands of a thread are of their key.
CodeInv ==
    /\ \A p \in Procs, k \in Keys : cache[p][k] # NoMod => loaded[p][cache[p][k]] = k
    /\ \A t \in Threads : th[t].mod # NoMod => loaded[Proc[t]][th[t].mod] = th[t].key

LEMMA FileFacts ==
    /\ Keys \subseteq Files
    /\ \A t \in Threads : TempName[t] \in Files /\ TempName[t] \notin Keys
  BY CacheAssumption DEF Files, TempFiles

LEMMA DiskInit == Init => DiskInv /\ CodeInv
  BY FileFacts, CacheAssumption DEF Init, DiskInv, CodeInv, OneName, KeyFiles, Readers, Writers,
                                    Renamers, NoLeftovers, Idle

Outside == {"idle", "open", "remove", "compile", "save", "publish"}

\* Steps that leave the directory alone and open nothing
LEMMA DiskQuiet ==
    ASSUME DiskInv, UNCHANGED <<file, data>>,
           \A u \in Threads : \/ th'[u] = th[u]
                              \/ th'[u].pc \in Outside /\ th[u].pc \in Outside \cup {"read"}
    PROVE  DiskInv'
  <1>1. OneName' /\ KeyFiles'
    BY DEF DiskInv, OneName, KeyFiles, Holds
  <1>2. Readers' /\ Writers' /\ Renamers' /\ NoLeftovers'
    BY DEF DiskInv, Readers, Writers, Renamers, NoLeftovers, Holds, Outside
  <1> QED BY <1>1, <1>2 DEF DiskInv

LEMMA MoveFacts ==
    ASSUME TypeOK, NEW t \in Threads, NEW pc, NEW m, NEW i, Move(t, pc, m, i)
    PROVE  /\ th'[t].pc = pc /\ th'[t].key = th[t].key /\ th'[t].mod = m /\ th'[t].ino = i
           /\ \A u \in Threads : u # t => th'[u] = th[u]
  BY DEF Move, TypeOK

LEMMA DiskOpenCacheFile ==
    ASSUME TypeOK, DiskInv, NEW t \in Threads, OpenCacheFile(t)
    PROVE  DiskInv'
  <1>1. th[t].pc = "open" /\ Key(t) \in Keys /\ Key(t) = th[t].key /\ UNCHANGED <<file, data>>
    BY DEF OpenCacheFile, At, Key, TypeOK
  <1>2. CASE file[Key(t)] # NoIno /\ Open(t, "read", file[Key(t)])
    <2>1. /\ th'[t].pc = "read" /\ th'[t].key = Key(t) /\ th'[t].ino = file[Key(t)]
          /\ \A u \in Threads : u # t => th'[u] = th[u]
      BY <1>1, <1>2, MoveFacts DEF Open
    <2>2. \A u \in Threads : file[TempName[u]] # file[Key(t)]
      BY <1>1, <1>2, FileFacts DEF DiskInv, OneName
    <2>3. Holds(file[Key(t)], Key(t))
      BY <1>1, <1>2 DEF DiskInv, KeyFiles
    <2>4. Readers'
      BY <1>1, <2>1, <2>2, <2>3 DEF DiskInv, Readers, Holds
    <2>5. Writers' /\ Renamers' /\ NoLeftovers'
      BY <1>1, <2>1 DEF DiskInv, Writers, Renamers, NoLeftovers, Holds
    <2>6. OneName' /\ KeyFiles'
      BY <1>1 DEF DiskInv, OneName, KeyFiles, Holds
    <2> QED BY <2>4, <2>5, <2>6 DEF DiskInv
  <1>3. CASE Goto(t, "remove")
    <2>1. th'[t].pc = "remove" /\ \A u \in Threads : u # t => th'[u] = th[u]
      BY <1>3, MoveFacts DEF Goto
    <2> QED BY <1>1, <2>1, DiskQuiet DEF Outside
  <1> QED BY <1>2, <1>3 DEF OpenCacheFile

\* A name goes away
LEMMA DiskUnlink ==
    ASSUME TypeOK, DiskInv, NEW t \in Threads, NEW f \in Files, NEW pc \in Outside,
           OwnTempNames,
           (f \in Keys /\ th[t].pc \in Outside) \/ f = TempName[t],
           file' = [file EXCEPT ![f] = NoIno], data' = data, Goto(t, pc)
    PROVE  DiskInv'
  <1>1. th'[t].pc = pc /\ \A u \in Threads : u # t => th'[u] = th[u]
    BY MoveFacts DEF Goto
  <1>2. \A g \in Files : file'[g] = IF g = f THEN NoIno ELSE file[g]
    BY DEF TypeOK
  <1>3. OneName' /\ KeyFiles'
    BY <1>2, FileFacts DEF DiskInv, OneName, KeyFiles, Holds
  <1>4. Readers'
    <2> SUFFICES ASSUME NEW u \in Threads, th'[u].pc = "read"
                 PROVE  /\ data'[th'[u].ino].binary \in {th'[u].key, NoKey}
                        /\ \A v \in Threads : file'[TempName[v]] # th'[u].ino
      BY DEF Readers, Holds
    <2>1. u # t /\ th'[u] = th[u]
      BY <1>1 DEF Outside
    <2>2. th[u].ino \in Inodes
      BY <2>1 DEF TypeOK
    <2> QED BY <1>2, <2>1, <2>2, FileFacts, CacheAssumption DEF DiskInv, Readers, Holds
  <1>5. Writers' /\ Renamers' /\ NoLeftovers'
    BY <1>1, <1>2, FileFacts DEF DiskInv, Writers, Renamers, NoLeftovers, Holds, Outside, OwnTempNames
  <1> QED BY <1>3, <1>4, <1>5 DEF DiskInv

LEMMA DiskOpenTemp ==
    ASSUME OwnTempNames, TypeOK, DiskInv, NEW t \in Threads, OpenTemp(t)
    PROVE  DiskInv'
  <1> USE CacheAssumption
  <1> DEFINE f == TempName[t]
             i == IF file[f] = NoIno THEN OneOf(FreeInodes) ELSE file[f]
  <1>1. /\ th[t].pc = "save"
        /\ file' = [file EXCEPT ![f] = i] /\ data' = [data EXCEPT ![i] = Blank]
        /\ Open(t, "hash", i)
    BY DEF OpenTemp, At
  <1>2. OneOf(FreeInodes) \in FreeInodes
    BY OneOfIsMember DEF OpenTemp
  <1>3. i \in Inodes /\ i # NoIno /\ f \in Files
    BY <1>2, FileFacts DEF FreeInodes, TypeOK
  <1>4. \A g \in Files : g # f => file[g] # i
    BY <1>2, FileFacts DEF FreeInodes, DiskInv, OneName
  <1>5. \A u \in Threads : u # t => TempName[u] # f
    BY DEF OwnTempNames
  <1>6. \A u \in Threads : u # t /\ th[u].pc \in {"read", "hash", "binary"} => th[u].ino # i
    <2>1. CASE file[f] = NoIno
      BY <1>2, <2>1 DEF FreeInodes
    <2>2. CASE file[f] # NoIno
      BY <1>4, <1>5, <2>2, FileFacts DEF DiskInv, Readers, Writers
    <2> QED BY <2>1, <2>2
  <1>7. /\ th'[t].pc = "hash" /\ th'[t].ino = i
        /\ \A u \in Threads : u # t => th'[u] = th[u]
    BY <1>1, MoveFacts DEF Open
  <1> HIDE DEF f, i
  <1>8. \A g \in Files : file'[g] = IF g = f THEN i ELSE file[g]
    BY <1>1, <1>3 DEF TypeOK
  <1>9. /\ data'[i].binary = NoKey
        /\ \A j \in Inodes : j # i => data'[j] = data[j]
    BY <1>1, <1>3 DEF TypeOK, Blank
  <1>10. OneName'
    BY <1>4, <1>8 DEF DiskInv, OneName
  <1>11. KeyFiles'
    <2> SUFFICES ASSUME NEW k \in Keys, file'[k] # NoIno
                 PROVE  data'[file'[k]].binary \in {k, NoKey}
      BY DEF KeyFiles, Holds
    <2>1. k \in Files /\ k # f
      BY FileFacts DEF f
    <2>2. file'[k] = file[k] /\ file[k] # i /\ file[k] \in Inodes
      BY <1>4, <1>8, <2>1 DEF TypeOK
    <2> QED BY <1>9, <2>2 DEF DiskInv, KeyFiles, Holds
  <1>12. Readers'
    <2> SUFFICES ASSUME NEW u \in Threads, th'[u].pc = "read"
                 PROVE  /\ data'[th'[u].ino].binary \in {th'[u].key, NoKey}
                        /\ \A v \in Threads : file'[TempName[v]] # th'[u].ino
      BY DEF Readers, Holds
    <2>1. u # t /\ th'[u] = th[u]
      BY <1>7
    <2>2. th[u].ino \in Inodes /\ th[u].ino # i
      BY <1>6, <2>1 DEF TypeOK
    <2> QED BY <1>8, <1>9, <2>1, <2>2, FileFacts DEF DiskInv, Readers, Holds
  <1>13. Writers'
    <2> SUFFICES ASSUME NEW u \in Threads, th'[u].pc \in {"hash", "binary"}
                 PROVE  file'[TempName[u]] = th'[u].ino /\ data'[th'[u].ino].binary = NoKey
      BY DEF Writers
    <2>1. CASE u = t
      BY <1>3, <1>7, <1>8, <1>9, <2>1 DEF f
    <2>2. CASE u # t
      <3>1. th'[u] = th[u] /\ th[u].ino \in Inodes /\ th[u].ino # i
        BY <1>6, <1>7, <2>2 DEF TypeOK
      <3> QED BY <1>5, <1>8, <1>9, <2>2, <3>1, FileFacts DEF DiskInv, Writers
    <2> QED BY <2>1, <2>2
  <1>14. Renamers'
    <2> SUFFICES ASSUME NEW u \in Threads, th'[u].pc = "rename", file'[TempName[u]] # NoIno
                 PROVE  data'[file'[TempName[u]]].binary \in {th'[u].key, NoKey}
      BY DEF Renamers, Holds
    <2>1. u # t /\ th'[u] = th[u] /\ TempName[u] # f /\ TempName[u] \in Files
      BY <1>5, <1>7, FileFacts
    <2>2. /\ file'[TempName[u]] = file[TempName[u]] /\ file[TempName[u]] # i
          /\ file[TempName[u]] \in Inodes
      BY <1>4, <1>8, <2>1 DEF TypeOK
    <2> QED BY <1>9, <2>1, <2>2 DEF DiskInv, Renamers, Holds
  <1>15. NoLeftovers'
    BY <1>5, <1>7, <1>8, FileFacts DEF DiskInv, NoLeftovers
  <1> QED BY <1>10, <1>11, <1>12, <1>13, <1>14, <1>15 DEF DiskInv

\* A thread writes into its own temporary file, or stops writing it.
LEMMA DiskWrite ==
    ASSUME OwnTempNames, TypeOK, DiskInv, NEW t \in Threads,
           WriteHash(t) \/ WriteBinary(t) \/ WriteFails(t)
    PROVE  DiskInv'
  <1> USE CacheAssumption
  <1> DEFINE i == th[t].ino
  <1>1. /\ th[t].pc \in {"hash", "binary"} /\ i \in Inodes /\ i # NoIno /\ th[t].key \in Keys
        /\ UNCHANGED file
    BY DEF WriteHash, WriteBinary, WriteFails, At, TypeOK
  <1>2. file[TempName[t]] = i /\ data[i].binary = NoKey
    BY <1>1 DEF DiskInv, Writers
  <1>3. \A g \in Files : g # TempName[t] => file[g] # i
    BY <1>1, <1>2, FileFacts DEF DiskInv, OneName
  <1>4. \A u \in Threads : u # t => TempName[u] # TempName[t]
    BY DEF OwnTempNames
  <1>5. \A u \in Threads : u # t /\ th[u].pc \in {"read", "hash", "binary"} => th[u].ino # i
    BY <1>1, <1>2, <1>3, <1>4, FileFacts DEF DiskInv, Readers, Writers
  <1>6. /\ \A j \in Inodes : j # i => data'[j] = data[j]
        /\ data'[i].binary \in {th[t].key, NoKey}
        /\ ~ WriteBinary(t) => data'[i].binary = NoKey
    <2>1. CASE WriteHash(t)
      BY <1>1, <1>2, <2>1 DEF WriteHash, TypeOK
    <2>2. CASE WriteBinary(t)
      BY <1>1, <2>2 DEF WriteBinary, Key, TypeOK
    <2>3. CASE WriteFails(t)
      BY <1>2, <2>3 DEF WriteFails
    <2> QED BY <1>2, <2>1, <2>2, <2>3
  <1>7. /\ \/ th'[t].pc = "binary" /\ th'[t].ino = i /\ data'[i].binary = NoKey
           \/ th'[t].pc = "rename"
        /\ th'[t].key = th[t].key
        /\ \A u \in Threads : u # t => th'[u] = th[u]
    <2>1. CASE WriteHash(t)
      <3>1. data'[i].binary = NoKey
        BY <1>1, <1>2, <2>1 DEF WriteHash, TypeOK
      <3> QED BY <2>1, <3>1, MoveFacts DEF WriteHash, Open
    <2>2. CASE WriteBinary(t)
      BY <2>2, MoveFacts DEF WriteBinary, Goto
    <2>3. CASE WriteFails(t)
      BY <2>3, MoveFacts DEF WriteFails, Goto
    <2> QED BY <2>1, <2>2, <2>3
  <1> HIDE DEF i
  <1>8. OneName'
    BY <1>1 DEF DiskInv, OneName
  <1>9. KeyFiles'
    <2> SUFFICES ASSUME NEW k \in Keys, file[k] # NoIno
                 PROVE  data'[file[k]].binary \in {k, NoKey}
      BY <1>1 DEF KeyFiles, Holds
    <2>1. file[k] # i /\ file[k] \in Inodes
      BY <1>3, FileFacts DEF TypeOK
    <2> QED BY <1>6, <2>1 DEF DiskInv, KeyFiles, Holds
  <1>10. Readers'
    <2> SUFFICES ASSUME NEW u \in Threads, th'[u].pc = "read"
                 PROVE  /\ data'[th'[u].ino].binary \in {th'[u].key, NoKey}
                        /\ \A v \in Threads : file'[TempName[v]] # th'[u].ino
      BY DEF Readers, Holds
    <2>1. u # t /\ th'[u] = th[u]
      BY <1>7
    <2>2. th[u].ino \in Inodes /\ th[u].ino # i
      BY <1>5, <2>1 DEF TypeOK
    <2> QED BY <1>1, <1>6, <2>1, <2>2 DEF DiskInv, Readers, Holds
  <1>11. Writers'
    <2> SUFFICES ASSUME NEW u \in Threads, th'[u].pc \in {"hash", "binary"}
                 PROVE  file[TempName[u]] = th'[u].ino /\ data'[th'[u].ino].binary = NoKey
      BY <1>1 DEF Writers
    <2>1. CASE u = t
      BY <1>2, <1>7, <2>1
    <2>2. CASE u # t
      <3>1. th'[u] = th[u] /\ th[u].ino \in Inodes /\ th[u].ino # i
        BY <1>5, <1>7, <2>2 DEF TypeOK
      <3> QED BY <1>6, <3>1 DEF DiskInv, Writers
    <2> QED BY <2>1, <2>2
  <1>12. Renamers'
    <2> SUFFICES ASSUME NEW u \in Threads, th'[u].pc = "rename", file[TempName[u]] # NoIno
                 PROVE  data'[file[TempName[u]]].binary \in {th'[u].key, NoKey}
      BY <1>1 DEF Renamers, Holds
    <2>1. CASE u = t
      BY <1>2, <1>6, <1>7, <2>1
    <2>2. CASE u # t
      <3>1. th'[u] = th[u] /\ file[TempName[u]] # i /\ file[TempName[u]] \in Inodes
        BY <1>3, <1>4, <1>7, <2>2, FileFacts DEF TypeOK
      <3> QED BY <1>6, <3>1 DEF DiskInv, Renamers, Holds
    <2> QED BY <2>1, <2>2
  <1>13. NoLeftovers'
    BY <1>1, <1>7 DEF DiskInv, NoLeftovers
  <1> QED BY <1>8, <1>9, <1>10, <1>11, <1>12, <1>13 DEF DiskInv

\* The temporary file becomes the cache file of the thread's key.
LEMMA DiskRename ==
    ASSUME OwnTempNames, TypeOK, DiskInv, NEW t \in Threads, Rename(t)
    PROVE  DiskInv'
  <1> USE CacheAssumption
  <1> DEFINE f == TempName[t]
             k == th[t].key
             i == file[f]
  <1>1. /\ th[t].pc = "rename" /\ k \in Keys /\ i # NoIno /\ i \in Inodes /\ f \in Files
        /\ file' = [file EXCEPT ![k] = i, ![f] = NoIno] /\ UNCHANGED data
    BY FileFacts DEF Rename, At, Key, TypeOK
  <1>2. th'[t].pc = "publish" /\ \A u \in Threads : u # t => th'[u] = th[u]
    BY MoveFacts DEF Rename, Goto
  <1>3. data[i].binary \in {k, NoKey}
    BY <1>1 DEF DiskInv, Renamers, Holds
  <1>4. \A g \in Files : g # f => file[g] # i
    BY <1>1 DEF DiskInv, OneName
  <1>5. \A u \in Threads : u # t => TempName[u] # f
    BY DEF OwnTempNames
  <1>6. k \in Files /\ k # f /\ \A u \in Threads : TempName[u] # k /\ TempName[u] \in Files
    BY <1>1, FileFacts
  <1> HIDE DEF f, k, i
  <1>7. \A g \in Files : file'[g] = IF g = f THEN NoIno ELSE IF g = k THEN i ELSE file[g]
    BY <1>1, <1>6 DEF TypeOK
  <1>8. OneName'
    BY <1>4, <1>7 DEF DiskInv, OneName
  <1>9. KeyFiles'
    BY <1>1, <1>3, <1>7, FileFacts, ZenonT(30) DEF DiskInv, KeyFiles, Holds
  <1>10. Readers'
    <2> SUFFICES ASSUME NEW u \in Threads, th'[u].pc = "read"
                 PROVE  /\ data'[th'[u].ino].binary \in {th'[u].key, NoKey}
                        /\ \A v \in Threads : file'[TempName[v]] # th'[u].ino
      BY DEF Readers, Holds
    <2>1. u # t /\ th'[u] = th[u]
      BY <1>2
    <2>2. th[u].ino \in Inodes
      BY <2>1 DEF TypeOK
    <2>3. \A v \in Threads : file'[TempName[v]] \in {file[TempName[v]], NoIno}
      BY <1>6, <1>7
    <2> QED BY <1>1, <2>1, <2>2, <2>3, ZenonT(30) DEF DiskInv, Readers, Holds
  <1>11. /\ file'[TempName[t]] = NoIno
         /\ \A u \in Threads : u # t => file'[TempName[u]] = file[TempName[u]]
    BY <1>1, <1>5, <1>6, <1>7 DEF f
  <1>12. Writers'
    BY <1>1, <1>2, <1>11, ZenonT(30) DEF DiskInv, Writers
  <1>13. Renamers'
    BY <1>1, <1>2, <1>11, ZenonT(30) DEF DiskInv, Renamers, Holds
  <1>14. NoLeftovers'
    BY <1>2, <1>11 DEF DiskInv, NoLeftovers
  <1> QED BY <1>8, <1>9, <1>10, <1>12, <1>13, <1>14 DEF DiskInv

LEMMA DiskStep ==
    ASSUME OwnTempNames, TypeOK, DiskInv, NEW t \in Threads, Step(t)
    PROVE  DiskInv'
  <1>1. CASE OpenCacheFile(t)
    BY <1>1, DiskOpenCacheFile
  <1>2. CASE ReadCacheFile(t)
    <2>1. th[t].pc = "read" /\ UNCHANGED <<file, data>>
      BY <1>2 DEF ReadCacheFile, At
    <2>2. \E pc \in {"remove", "publish"} : \E m, i : Move(t, pc, m, i)
      BY <1>2 DEF ReadCacheFile, Load, Goto
    <2>3. th'[t].pc \in Outside /\ \A u \in Threads : u # t => th'[u] = th[u]
      BY <2>2, MoveFacts DEF Outside
    <2> QED BY <2>1, <2>3, DiskQuiet
  <1>3. CASE RemoveCacheFile(t)
    <2>1. th[t].pc = "remove" /\ Key(t) \in Keys
      BY <1>3 DEF RemoveCacheFile, At, Key, TypeOK
    <2> QED BY <1>3, <2>1, DiskUnlink, FileFacts DEF RemoveCacheFile, Outside
  <1>4. CASE Compile(t)
    <2>1. th[t].pc = "compile" /\ UNCHANGED <<file, data>>
      BY <1>4 DEF Compile, At
    <2>2. \E pc \in {"save", "publish"} : \E m, i : Move(t, pc, m, i)
      BY <1>4 DEF Compile, Load
    <2>3. th'[t].pc \in Outside /\ \A u \in Threads : u # t => th'[u] = th[u]
      BY <2>2, MoveFacts DEF Outside
    <2> QED BY <2>1, <2>3, DiskQuiet DEF Outside
  <1>5. CASE CompileError(t) \/ Publish(t)
    <2>1. th[t].pc \in Outside /\ UNCHANGED <<file, data>>
      BY <1>5 DEF CompileError, Publish, At, Outside
    <2>2. th'[t].pc \in Outside /\ \A u \in Threads : u # t => th'[u] = th[u]
      BY <1>5 DEF CompileError, Publish, Idle, Outside, TypeOK
    <2> QED BY <2>1, <2>2, DiskQuiet
  <1>6. CASE OpenTemp(t)
    BY <1>6, DiskOpenTemp
  <1>7. CASE OpenTempFails(t)
    <2>1. /\ th[t].pc = "save" /\ UNCHANGED <<file, data>>
          /\ file[TempName[t]] = NoIno \/ OpenFails
      BY <1>7 DEF OpenTempFails, At
    <2>2. th'[t].pc = "rename" /\ \A u \in Threads : u # t => th'[u] = th[u]
      BY <1>7, MoveFacts DEF OpenTempFails, Goto
    <2>3. file[TempName[t]] = NoIno
      BY <2>1 DEF DiskInv, NoLeftovers
    <2>4. OneName' /\ KeyFiles'
      BY <2>1 DEF DiskInv, OneName, KeyFiles, Holds
    <2>5. Readers' /\ Writers' /\ Renamers' /\ NoLeftovers'
      BY <2>1, <2>2, <2>3 DEF DiskInv, Readers, Writers, Renamers, NoLeftovers, Holds
    <2> QED BY <2>4, <2>5 DEF DiskInv
  <1>8. CASE WriteHash(t) \/ WriteBinary(t) \/ WriteFails(t)
    BY <1>8, DiskWrite
  <1>9. CASE Rename(t)
    BY <1>9, DiskRename
  <1>10. CASE RenameFails(t)
    <2>1. th[t].pc = "rename" /\ UNCHANGED <<file, data>>
      BY <1>10 DEF RenameFails, At
    <2>2. th'[t].pc = "unlink" /\ \A u \in Threads : u # t => th'[u] = th[u]
      BY <1>10, MoveFacts DEF RenameFails, Goto
    <2>3. OneName' /\ KeyFiles'
      BY <2>1 DEF DiskInv, OneName, KeyFiles, Holds
    <2>4. Readers' /\ Writers' /\ Renamers' /\ NoLeftovers'
      BY <2>1, <2>2 DEF DiskInv, Readers, Writers, Renamers, NoLeftovers, Holds
    <2> QED BY <2>3, <2>4 DEF DiskInv
  <1>11. CASE RemoveTemp(t)
    <2>1. "publish" \in Outside /\ TempName[t] \in Files
      BY FileFacts DEF Outside
    <2> QED BY <1>11, <2>1, DiskUnlink DEF RemoveTemp
  <1> QED BY <1>1, <1>2, <1>3, <1>4, <1>5, <1>6, <1>7, <1>8, <1>9, <1>10, <1>11 DEF Step

LEMMA DiskCrash ==
    ASSUME NoStaleTemp, TypeOK, DiskInv, NEW p \in Procs, Crash(p)
    PROVE  DiskInv'
  <1>1. ~ OpenFails
    BY CacheAssumption DEF Crash, TypeOK, NoStaleTemp
  <1>2. \A u \in Threads : th'[u] = th[u] \/ th'[u].pc = "idle"
    BY DEF Crash, Idle, TypeOK
  <1>3. OneName' /\ KeyFiles'
    BY DEF Crash, DiskInv, OneName, KeyFiles, Holds
  <1>4. Readers' /\ Writers' /\ Renamers' /\ NoLeftovers'
    BY <1>1, <1>2 DEF Crash, DiskInv, Readers, Writers, Renamers, NoLeftovers, Holds
  <1> QED BY <1>3, <1>4 DEF DiskInv

LEMMA DiskCall ==
    ASSUME TypeOK, DiskInv, NEW t \in Threads, Call(t)
    PROVE  DiskInv'
  <1>1. UNCHANGED <<file, data>>
    BY DEF Call, Hit, Miss
  <1>2. \A u \in Threads : \/ th'[u] = th[u]
                           \/ th'[u].pc \in Outside /\ th[u].pc \in Outside
    BY DEF Call, Hit, Miss, At, Outside, TypeOK
  <1> QED BY <1>1, <1>2, DiskQuiet

LEMMA DiskNext ==
    ASSUME OwnTempNames, NoStaleTemp, TypeOK, DiskInv, [Next]_vars
    PROVE  DiskInv'
  <1>1. CASE UNCHANGED vars
    BY <1>1 DEF vars, DiskInv, OneName, KeyFiles, Readers, Writers, Renamers, NoLeftovers, Holds
  <1>2. CASE Next
    BY <1>2, DiskCall, DiskStep, DiskCrash DEF Next
  <1> QED BY <1>1, <1>2

-----------------------------------------------------------------------------
(***************************************************************************)
(* The code in the modules                                                 *)
(***************************************************************************)
LEMMA CodeQuiet ==
    ASSUME CodeInv, UNCHANGED <<cache, loaded>>,
           \A u \in Threads : th'[u].mod = NoMod \/ (th'[u].mod = th[u].mod /\ th'[u].key = th[u].key)
    PROVE  CodeInv'
  BY DEF CodeInv

LEMMA CodeLoad ==
    ASSUME TypeOK, ModulesInv, CodeInv, NEW t \in Threads, NEW pc \in PCs, th[t].key \in Keys,
           Load(t, th[t].key, pc), UNCHANGED cache
    PROVE  CodeInv'
  <1> USE CacheAssumption
  <1> DEFINE p == Proc[t]
             code == th[t].key
  <1>1. PICK m \in Unused(p) :
          /\ m \in Mods
          /\ loaded' = [loaded EXCEPT ![p][m] = code]
          /\ Move(t, pc, m, NoIno)
    BY LoadFacts
  <1>2. p \in Procs /\ m # NoMod
    BY <1>1
  <1>3. loaded[p][m] = NoKey /\ \A k \in Keys : cache[p][k] # m
    BY DEF Unused
  <1>4. \A q \in Procs, n \in Mods :
          loaded'[q][n] = IF q = p /\ n = m THEN code ELSE loaded[q][n]
    BY <1>1, <1>2 DEF TypeOK
  <1>5. /\ th'[t].mod = m /\ th'[t].key = code
        /\ \A u \in Threads : u # t => th'[u] = th[u]
    BY <1>1, MoveFacts
  <1>6. \A u \in Threads : Proc[u] = p => th[u].mod # m
    BY <1>1, <1>2, <1>3 DEF ModulesInv
  <1> HIDE DEF p, code
  <1>7. ASSUME NEW q \in Procs, NEW k \in Keys, cache'[q][k] # NoMod
        PROVE  loaded'[q][cache'[q][k]] = k
    <2>1. cache'[q][k] = cache[q][k] /\ cache[q][k] \in Mods /\ (q = p => cache[q][k] # m)
      BY <1>3, <1>7 DEF TypeOK
    <2> QED BY <1>4, <1>7, <2>1 DEF CodeInv
  <1>8. ASSUME NEW u \in Threads, th'[u].mod # NoMod
        PROVE  loaded'[Proc[u]][th'[u].mod] = th'[u].key
    <2>1. CASE u = t
      BY <1>1, <1>2, <1>4, <1>5, <2>1 DEF p
    <2>2. CASE u # t
      <3>1. th'[u] = th[u] /\ th[u].mod \in Mods /\ Proc[u] \in Procs
        BY <1>5, <1>8, <2>2 DEF TypeOK
      <3> QED BY <1>4, <1>6, <1>8, <3>1 DEF CodeInv
    <2> QED BY <2>1, <2>2
  <1> QED BY <1>7, <1>8 DEF CodeInv

LEMMA CodePublish ==
    ASSUME TypeOK, ModulesInv, CodeInv, NEW t \in Threads, Publish(t)
    PROVE  CodeInv'
  <1> USE CacheAssumption
  <1> DEFINE p == Proc[t]
             k == th[t].key
             m == th[t].mod
  <1>1. th[t].pc = "publish"
    BY DEF Publish, At
  <1>2. p \in Procs /\ k \in Keys /\ m \in Mods /\ m # NoMod
    BY <1>1 DEF TypeOK
  <1>3. /\ loaded[p][m] = k
        /\ \A l \in Keys : cache[p][l] # m
        /\ \A u \in Threads : u # t /\ Proc[u] = p => th[u].mod # m
    BY <1>2 DEF ModulesInv, CodeInv
  <1>4. th'[t].mod = NoMod /\ \A u \in Threads : u # t => th'[u] = th[u]
    BY DEF Publish, Idle, TypeOK
  <1>5. CASE Cached(t) = NoMod
    <2>1. cache' = [cache EXCEPT ![p][k] = m] /\ loaded' = loaded
      BY <1>5 DEF Publish, Key
    <2> HIDE DEF p, k, m
    <2>2. \A q \in Procs, l \in Keys :
            cache'[q][l] = IF q = p /\ l = k THEN m ELSE cache[q][l]
      BY <1>2, <2>1 DEF TypeOK
    <2> QED BY <1>2, <1>3, <1>4, <2>1, <2>2 DEF CodeInv
  <1>6. CASE Cached(t) # NoMod
    <2>1. loaded' = [loaded EXCEPT ![p][m] = NoKey] /\ cache' = cache
      BY <1>6 DEF Publish
    <2> HIDE DEF p, k, m
    <2>2. \A q \in Procs, n \in Mods :
            loaded'[q][n] = IF q = p /\ n = m THEN NoKey ELSE loaded[q][n]
      BY <1>2, <2>1 DEF TypeOK
    <2>3. ASSUME NEW q \in Procs, NEW l \in Keys, cache[q][l] # NoMod
          PROVE  loaded'[q][cache[q][l]] = l
      <3>1. cache[q][l] \in Mods
        BY <2>3 DEF TypeOK
      <3> QED BY <1>3, <2>2, <2>3, <3>1 DEF CodeInv
    <2>4. ASSUME NEW u \in Threads, th'[u].mod # NoMod
          PROVE  loaded'[Proc[u]][th'[u].mod] = th'[u].key
      <3>1. u # t /\ th'[u] = th[u] /\ th[u].mod \in Mods /\ Proc[u] \in Procs
        BY <1>4, <2>4 DEF TypeOK
      <3> QED BY <1>3, <2>2, <2>4, <3>1 DEF CodeInv
    <2> QED BY <2>1, <2>3, <2>4 DEF CodeInv
  <1> QED BY <1>5, <1>6

LEMMA CodeStep ==
    ASSUME TypeOK, ModulesInv, DiskInv, CodeInv, NEW t \in Threads, Step(t)
    PROVE  CodeInv'
  <1>1. CASE ReadCacheFile(t)
    <2>1. CASE Intact(data[th[t].ino]) /\ Load(t, data[th[t].ino].binary, "publish")
      <3>1. th[t].pc = "read" /\ th[t].key \in Keys
        BY <1>1 DEF ReadCacheFile, At, TypeOK
      <3>2. data[th[t].ino].binary = th[t].key
        BY <2>1, <3>1 DEF Intact, DiskInv, Readers, Holds
      <3> QED BY <1>1, <2>1, <3>1, <3>2, CodeLoad DEF ReadCacheFile, PCs
    <2>2. CASE Goto(t, "remove") /\ UNCHANGED loaded
      <3>1. \A u \in Threads : th'[u].mod = th[u].mod /\ th'[u].key = th[u].key
        BY <2>2, MoveFacts DEF Goto
      <3> QED BY <1>1, <2>2, <3>1, CodeQuiet DEF ReadCacheFile
    <2> QED BY <1>1, <2>1, <2>2 DEF ReadCacheFile
  <1>2. CASE Compile(t)
    <2>1. th[t].key \in Keys /\ Key(t) = th[t].key
      BY <1>2 DEF Compile, At, Key, TypeOK
    <2> QED BY <1>2, <2>1, CodeLoad DEF Compile, PCs
  <1>3. CASE Publish(t)
    BY <1>3, CodePublish
  <1>4. CASE CompileError(t)
    <2>1. \A u \in Threads : th'[u].mod = NoMod \/ (th'[u].mod = th[u].mod /\ th'[u].key = th[u].key)
      BY <1>4 DEF CompileError, Idle, TypeOK
    <2> QED BY <1>4, <2>1, CodeQuiet DEF CompileError
  <1>5. CASE \/ OpenCacheFile(t) \/ RemoveCacheFile(t) \/ OpenTemp(t) \/ OpenTempFails(t)
             \/ WriteHash(t) \/ WriteBinary(t) \/ WriteFails(t)
             \/ Rename(t) \/ RenameFails(t) \/ RemoveTemp(t)
    <2>1. \E pc, i : Move(t, pc, th[t].mod, i)
      BY <1>5 DEF OpenCacheFile, RemoveCacheFile, OpenTemp, OpenTempFails, WriteHash,
                  WriteBinary, WriteFails, Rename, RenameFails, RemoveTemp, Goto, Open
    <2>2. UNCHANGED <<cache, loaded>>
      BY <1>5 DEF OpenCacheFile, RemoveCacheFile, OpenTemp, OpenTempFails, WriteHash,
                  WriteBinary, WriteFails, Rename, RenameFails, RemoveTemp
    <2>3. \A u \in Threads : th'[u].mod = th[u].mod /\ th'[u].key = th[u].key
      BY <2>1, MoveFacts
    <2> QED BY <2>2, <2>3, CodeQuiet
  <1> QED BY <1>1, <1>2, <1>3, <1>4, <1>5 DEF Step

LEMMA CodeNext ==
    ASSUME TypeOK, ModulesInv, DiskInv, CodeInv, [Next]_vars
    PROVE  CodeInv'
  <1>1. CASE UNCHANGED vars
    BY <1>1 DEF vars, CodeInv
  <1>2. ASSUME NEW t \in Threads, Call(t)
        PROVE  CodeInv'
    <2>1. \A u \in Threads : th'[u].mod = NoMod \/ (th'[u].mod = th[u].mod /\ th'[u].key = th[u].key)
      BY <1>2 DEF Call, Hit, Miss, TypeOK
    <2> QED BY <1>2, <2>1, CodeQuiet DEF Call, Hit, Miss
  <1>3. ASSUME NEW p \in Procs, Crash(p)
        PROVE  CodeInv'
    <2>1. \A q \in Procs : /\ q = p => \A k \in Keys : cache'[q][k] = NoMod
                           /\ q # p => cache'[q] = cache[q] /\ loaded'[q] = loaded[q]
      BY <1>3 DEF Crash, TypeOK
    <2>2. \A u \in Threads : /\ Proc[u] = p => th'[u].mod = NoMod
                             /\ Proc[u] # p => th'[u] = th[u]
      BY <1>3 DEF Crash, Idle
    <2> QED BY <2>1, <2>2, CacheAssumption DEF CodeInv
  <1> QED BY <1>1, <1>2, <1>3, CodeStep DEF Next

\* Whatever threads, processes, crashes and failed writes leave in the
\* directory, getKernel returns the code of the key it was called with, as
\* long as temporary names are not shared and stale ones can be opened.
THEOREM RightCodeHolds ==
    ASSUME OwnTempNames, NoStaleTemp
    PROVE  Spec => []RightCode
  <1> DEFINE I == TypeOK /\ ModulesInv /\ DiskInv /\ CodeInv
  <1>1. Init => I
    BY TypeInit, ModulesInit, DiskInit
  <1>2. I /\ [Next]_vars => I'
    BY TypeNext, ModulesNext, DiskNext, CodeNext
  <1>3. I => RightCode
    <2> SUFFICES ASSUME TypeOK, ModulesInv, CodeInv, NEW p \in Procs, NEW r \in handed[p]
                 PROVE  loaded[p][r[2]] = r[1]
      BY DEF RightCode
    <2>1. r[1] \in Keys /\ r[2] \in Mods /\ cache[p][r[1]] = r[2]
      BY DEF TypeOK, ModulesInv, OneModulePerKey
    <2> QED BY <2>1, CacheAssumption DEF CodeInv
  <1> QED BY <1>1, <1>2, <1>3, PTL DEF Spec

-----------------------------------------------------------------------------
(***************************************************************************)
(* No module is lost                                                       *)
(***************************************************************************)
\* Before it has compiled or loaded, a thread has no module that a miss or an
\* error could forget.
EmptyHanded ==
    \A t \in Threads : th[t].pc \in {"idle", "open", "read", "remove", "compile"} => th[t].mod = NoMod

LeakInv == EmptyHanded /\ NoModuleLeaks

LEMMA LeakInit == Init => LeakInv
  BY CacheAssumption DEF Init, LeakInv, EmptyHanded, NoModuleLeaks, Idle

\* Steps that keep the map, the modules and what each thread has of them
LEMMA LeakQuiet ==
    ASSUME TypeOK, LeakInv, UNCHANGED <<cache, loaded>>,
           \A u \in Threads : /\ th'[u].mod = th[u].mod
                              /\ \/ th'[u].pc = th[u].pc
                                 \/ th'[u].pc \notin {"idle", "open", "read", "remove", "compile"}
                                 \/ th[u].mod = NoMod
    PROVE  LeakInv'
  BY DEF LeakInv, EmptyHanded, NoModuleLeaks

\* compileModule and loadModuleFromDisk: the new module is the thread's
LEMMA LeakLoad ==
    ASSUME TypeOK, LeakInv, NEW t \in Threads, th[t].mod = NoMod, NEW code \in Keys,
           NEW pc \in {"save", "publish"}, Load(t, code, pc), UNCHANGED cache
    PROVE  LeakInv'
  <1> USE CacheAssumption
  <1> DEFINE p == Proc[t]
  <1>1. PICK m \in Unused(p) :
          /\ m \in Mods
          /\ loaded' = [loaded EXCEPT ![p][m] = code]
          /\ Move(t, pc, m, NoIno)
    BY LoadFacts DEF PCs
  <1>2. \A q \in Procs, n \in Mods :
          loaded'[q][n] = IF q = p /\ n = m THEN code ELSE loaded[q][n]
    BY <1>1 DEF TypeOK
  <1>3. \A u \in Threads : /\ th'[u].mod = IF u = t THEN m ELSE th[u].mod
                           /\ th'[u].pc = IF u = t THEN pc ELSE th[u].pc
    BY <1>1 DEF Move, TypeOK
  <1>4. EmptyHanded'
    BY <1>3 DEF LeakInv, EmptyHanded
  <1>5. ASSUME NEW q \in Procs, NEW n \in Mods, loaded'[q][n] # NoKey
        PROVE  \/ \E k \in Keys : cache'[q][k] = n
               \/ \E u \in Threads : Proc[u] = q /\ th'[u].mod = n
    <2>1. CASE q = p /\ n = m
      BY <1>3, <2>1
    <2>2. CASE ~ (q = p /\ n = m)
      <3>1. \/ \E k \in Keys : cache[q][k] = n
            \/ \E u \in Threads : Proc[u] = q /\ th[u].mod = n
        BY <1>2, <1>5, <2>2 DEF LeakInv, NoModuleLeaks
      <3> QED BY <1>3, <3>1
    <2> QED BY <2>1, <2>2
  <1> QED BY <1>4, <1>5 DEF LeakInv, NoModuleLeaks

\* The unique lock: the thread's module goes into the map, where there was
\* none, or is unloaded.
LEMMA LeakPublish ==
    ASSUME TypeOK, LeakInv, NEW t \in Threads, Publish(t)
    PROVE  LeakInv'
  <1> USE CacheAssumption
  <1> DEFINE p == Proc[t]
             k == Key(t)
             m == th[t].mod
  <1>1. p \in Procs /\ k \in Keys /\ m \in Mods
    <2>1. th[t].pc = "publish"
      BY DEF Publish, At
    <2> QED BY <2>1 DEF TypeOK, Key
  <1>2. th'[t] = Idle /\ \A u \in Threads : u # t => th'[u] = th[u]
    BY DEF Publish, TypeOK
  <1>3. EmptyHanded'
    BY <1>2 DEF LeakInv, EmptyHanded, Idle
  <1>4. ASSUME NEW q \in Procs, NEW n \in Mods, loaded'[q][n] # NoKey
        PROVE  \/ \E l \in Keys : cache'[q][l] = n
               \/ \E u \in Threads : Proc[u] = q /\ th'[u].mod = n
    <2>1. CASE cache[p][k] = NoMod
      <3>1. cache' = [cache EXCEPT ![p][k] = m] /\ loaded' = loaded
        BY <2>1 DEF Publish, Cached
      <3> HIDE DEF p, k, m
      <3>2. \A r \in Procs, l \in Keys :
              cache'[r][l] = IF r = p /\ l = k THEN m ELSE cache[r][l]
        BY <1>1, <3>1 DEF TypeOK
      <3>3. CASE \E l \in Keys : cache[q][l] = n
        <4>1. PICK l \in Keys : cache[q][l] = n
          BY <3>3
        <4>2. ~ (q = p /\ l = k)
          BY <2>1, <4>1
        <4> QED BY <3>2, <4>1, <4>2
      <3>4. CASE \E u \in Threads : Proc[u] = q /\ th[u].mod = n
        <4>1. PICK u \in Threads : Proc[u] = q /\ th[u].mod = n
          BY <3>4
        <4>2. CASE u = t
          BY <1>1, <3>2, <4>1, <4>2 DEF p, m
        <4>3. CASE u # t
          BY <1>2, <4>1, <4>3
        <4> QED BY <4>2, <4>3
      <3> QED BY <1>4, <3>1, <3>3, <3>4 DEF LeakInv, NoModuleLeaks
    <2>2. CASE cache[p][k] # NoMod
      <3>1. cache' = cache /\ loaded' = [loaded EXCEPT ![p][m] = NoKey]
        BY <2>2 DEF Publish, Cached
      <3> HIDE DEF p, k, m
      <3>2. ~ (q = p /\ n = m) /\ loaded[q][n] # NoKey
        BY <1>1, <1>4, <3>1 DEF TypeOK
      <3>3. CASE \E l \in Keys : cache[q][l] = n
        BY <3>1, <3>3
      <3>4. CASE \E u \in Threads : Proc[u] = q /\ th[u].mod = n
        <4>1. PICK u \in Threads : Proc[u] = q /\ th[u].mod = n
          BY <3>4
        <4>2. u # t
          BY <3>2, <4>1 DEF p, m
        <4> QED BY <1>2, <4>1, <4>2
      <3> QED BY <3>2, <3>3, <3>4 DEF LeakInv, NoModuleLeaks
    <2> QED BY <2>1, <2>2
  <1> QED BY <1>3, <1>4 DEF LeakInv, NoModuleLeaks

LEMMA LeakCall ==
    ASSUME TypeOK, LeakInv, NEW t \in Threads, Call(t)
    PROVE  LeakInv'
  <1>1. PICK k \in Keys : Hit(t, k) \/ Miss(t, k)
    BY DEF Call
  <1>2. CASE Hit(t, k)
    BY <1>2, LeakQuiet DEF Hit
  <1>3. CASE Miss(t, k)
    <2>1. th[t].mod = NoMod
      BY <1>3 DEF Miss, At, LeakInv, EmptyHanded
    <2>2. \A u \in Threads : th'[u].mod = th[u].mod /\ (u # t => th'[u].pc = th[u].pc)
      BY <1>3, <2>1 DEF Miss, TypeOK
    <2> QED BY <1>3, <2>1, <2>2, LeakQuiet DEF Miss
  <1> QED BY <1>1, <1>2, <1>3

LEMMA LeakStep ==
    ASSUME TypeOK, LeakInv, NEW t \in Threads, Step(t)
    PROVE  LeakInv'
  <1>1. CASE ReadCacheFile(t)
    <2>1. th[t].mod = NoMod
      BY <1>1 DEF ReadCacheFile, At, LeakInv, EmptyHanded
    <2>2. CASE Intact(data[th[t].ino]) /\ Load(t, data[th[t].ino].binary, "publish")
      <3>1. data[th[t].ino].binary \in Keys
        BY <1>1, <2>2 DEF ReadCacheFile, At, Intact, TypeOK
      <3> QED BY <1>1, <2>1, <2>2, <3>1, LeakLoad DEF ReadCacheFile
    <2>3. CASE Goto(t, "remove") /\ UNCHANGED loaded
      <3>1. \A u \in Threads : th'[u].mod = th[u].mod /\ (u # t => th'[u].pc = th[u].pc)
        BY <2>3 DEF Goto, Move, TypeOK
      <3> QED BY <1>1, <2>1, <2>3, <3>1, LeakQuiet DEF ReadCacheFile
    <2> QED BY <1>1, <2>2, <2>3 DEF ReadCacheFile
  <1>2. CASE Compile(t)
    <2>1. th[t].mod = NoMod
      BY <1>2 DEF Compile, At, LeakInv, EmptyHanded
    <2>2. Key(t) \in Keys
      BY <1>2 DEF Compile, At, Key, TypeOK
    <2> QED BY <1>2, <2>1, <2>2, LeakLoad DEF Compile
  <1>3. CASE Publish(t)
    BY <1>3, LeakPublish
  <1>4. CASE CompileError(t)
    <2>1. th[t].mod = NoMod
      BY <1>4 DEF CompileError, At, LeakInv, EmptyHanded
    <2>2. \A u \in Threads : th'[u].mod = th[u].mod /\ (u # t => th'[u].pc = th[u].pc)
      BY <1>4, <2>1 DEF CompileError, Idle, TypeOK
    <2> QED BY <1>4, <2>1, <2>2, LeakQuiet DEF CompileError
  <1>5. CASE OpenCacheFile(t) \/ RemoveCacheFile(t)
    <2>1. th[t].mod = NoMod /\ UNCHANGED <<cache, loaded>>
      BY <1>5 DEF OpenCacheFile, RemoveCacheFile, At, LeakInv, EmptyHanded
    <2>2. \A u \in Threads : th'[u].mod = th[u].mod /\ (u # t => th'[u].pc = th[u].pc)
      BY <1>5 DEF OpenCacheFile, RemoveCacheFile, Open, Goto, Move, TypeOK
    <2> QED BY <2>1, <2>2, LeakQuiet
  <1>6. CASE \/ OpenTemp(t) \/ OpenTempFails(t) \/ WriteHash(t) \/ WriteBinary(t) \/ WriteFails(t)
             \/ Rename(t) \/ RenameFails(t) \/ RemoveTemp(t)
    <2>1. \E i, pc : /\ Move(t, pc, th[t].mod, i)
                     /\ pc \in {"hash", "binary", "rename", "unlink", "publish"}
      BY <1>6 DEF OpenTemp, OpenTempFails, WriteHash, WriteBinary, WriteFails, Rename,
                  RenameFails, RemoveTemp, Open, Goto
    <2>2. UNCHANGED <<cache, loaded>>
      BY <1>6 DEF OpenTemp, OpenTempFails, WriteHash, WriteBinary, WriteFails, Rename,
                  RenameFails, RemoveTemp
    <2>3. \A u \in Threads :
            /\ th'[u].mod = th[u].mod
            /\ \/ th'[u].pc = th[u].pc
               \/ th'[u].pc \in {"hash", "binary", "rename", "unlink", "publish"}
      BY <2>1 DEF Move, TypeOK
    <2> QED BY <2>2, <2>3, LeakQuiet
  <1> QED BY <1>1, <1>2, <1>3, <1>4, <1>5, <1>6 DEF Step

LEMMA LeakCrash ==
    ASSUME TypeOK, LeakInv, NEW p \in Procs, Crash(p)
    PROVE  LeakInv'
  <1> USE CacheAssumption
  <1>1. \A q \in Procs : /\ q = p => \A m \in Mods : loaded'[q][m] = NoKey
                         /\ q # p => cache'[q] = cache[q] /\ loaded'[q] = loaded[q]
    BY DEF Crash, TypeOK
  <1>2. \A u \in Threads : /\ Proc[u] = p => th'[u] = Idle
                           /\ Proc[u] # p => th'[u] = th[u]
    BY DEF Crash, TypeOK
  <1>3. EmptyHanded'
    BY <1>2 DEF LeakInv, EmptyHanded, Idle
  <1>4. NoModuleLeaks'
    BY <1>1, <1>2 DEF LeakInv, NoModuleLeaks
  <1> QED BY <1>3, <1>4 DEF LeakInv

LEMMA LeakNext == TypeOK /\ LeakInv /\ [Next]_vars => LeakInv'
  <1> SUFFICES ASSUME TypeOK, LeakInv, [Next]_vars PROVE LeakInv'
    OBVIOUS
  <1>1. CASE UNCHANGED vars
    BY <1>1 DEF vars, LeakInv, EmptyHanded, NoModuleLeaks
  <1>2. CASE Next
    BY <1>2, LeakCall, LeakStep, LeakCrash DEF Next
  <1> QED BY <1>1, <1>2

\* A module that lost the race to be first, or whose compilation failed on the
\* way, does not stay loaded behind the cache's back.
THEOREM NoModuleLeaksHolds == Spec => []NoModuleLeaks
  <1>1. TypeOK /\ LeakInv => NoModuleLeaks
    BY DEF LeakInv
  <1> QED BY <1>1, TypeInit, TypeNext, LeakInit, LeakNext, PTL DEF Spec

=============================================================================
