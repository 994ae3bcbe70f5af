----------------------------- MODULE BufferPool -----------------------------
(***************************************************************************)
(* What a caching allocator promises about each buffer, without maps,      *)
(* counters, devices or threads: the life of an address and who holds it.  *)
(*                                                                         *)
(*     absent -> fresh -> used <-> cached -> doomed -> absent              *)
(*                                                                         *)
(* A buffer is handed out only when nobody holds it, leaves "used" only    *)
(* when its last holder lets go, and returns to the native allocator only  *)
(* from a state in which nobody holds it.  MemoryManager implements this   *)
(* specification.                                                          *)
(***************************************************************************)
CONSTANTS Ptrs, Holders

VARIABLES
    phase,      \* [address -> where it is in its life]
    holders     \* [address -> who uses it]

poolvars == <<phase, holders>>

Phases == {"absent", "fresh", "used", "cached", "doomed"}

PoolTypeOK ==
    /\ phase \in [Ptrs -> Phases]
    /\ holders \in [Ptrs -> SUBSET Holders]

PoolInit ==
    /\ phase = [p \in Ptrs |-> "absent"]
    /\ holders = [p \in Ptrs |-> {}]

\* The native allocator provides a block.
Obtain(p) ==
    /\ phase[p] = "absent"
    /\ phase' = [phase EXCEPT ![p] = "fresh"]
    /\ UNCHANGED holders

\* A new or a cached buffer is given to its first holder.
Give(p, h) ==
    /\ phase[p] \in {"fresh", "cached"}
    /\ phase' = [phase EXCEPT ![p] = "used"]
    /\ holders' = [holders EXCEPT ![p] = {h}]

\* Memory the user obtained without the manager becomes an array.
Adopt(p, h) ==
    /\ phase[p] = "absent"
    /\ phase' = [phase EXCEPT ![p] = "used"]
    /\ holders' = [holders EXCEPT ![p] = {h}]

\* Another holder joins.
Join(p, h) ==
    /\ phase[p] = "used"
    /\ holders' = [holders EXCEPT ![p] = @ \cup {h}]
    /\ UNCHANGED phase

\* A holder leaves and another one remains.
Leave(p, h) ==
    /\ phase[p] = "used"
    /\ holders[p] \ {h} # {}
    /\ holders' = [holders EXCEPT ![p] = @ \ {h}]
    /\ UNCHANGED phase

\* The last holder leaves: the buffer is cached, or given back.
LeaveLast(p, h) ==
    /\ phase[p] = "used"
    /\ holders[p] = {h}
    /\ holders' = [holders EXCEPT ![p] = {}]
    /\ \E next \in {"cached", "doomed"} :
          phase' = [phase EXCEPT ![p] = next]

\* A collection takes some of the cached buffers.
Evict ==
    \E S \in SUBSET {p \in Ptrs : phase[p] = "cached"} :
        /\ phase' = [p \in Ptrs |-> IF p \in S THEN "doomed" ELSE phase[p]]
        /\ UNCHANGED holders

\* The native allocator gets a block back.
GiveBack(p) ==
    /\ phase[p] = "doomed"
    /\ phase' = [phase EXCEPT ![p] = "absent"]
    /\ UNCHANGED holders

PoolNext ==
    \/ Evict
    \/ \E p \in Ptrs : Obtain(p) \/ GiveBack(p)
    \/ \E p \in Ptrs, h \in Holders :
          Give(p, h) \/ Adopt(p, h) \/ Join(p, h) \/ Leave(p, h)
          \/ LeaveLast(p, h)

PoolSpec == PoolInit /\ [][PoolNext]_poolvars

\* A buffer is in use exactly as long as somebody holds it.
UsedMeansHeld ==
    \A p \in Ptrs : phase[p] = "used" <=> holders[p] # {}

=============================================================================
