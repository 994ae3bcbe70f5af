--------------------------- MODULE MCMemoryManager ---------------------------
(***************************************************************************)
(* Instances of MemoryManager for TLC.  Sizes are real numbers of bytes    *)
(* (1024 is the default of mem_step_size, 100 the size userLock records),  *)
(* small enough that the interesting thresholds lie within a few buffers.  *)
(***************************************************************************)
EXTENDS MemoryManager, TLC

\* Addresses and threads are interchangeable: no action names one.
Symmetry == Permutations(Ptrs) \cup Permutations(Threads)
PtrSymmetry == Permutations(Ptrs)

OneSize  == {1000}
TwoSizes == {1000, 2000}
OneStep  == {1024}
TwoSteps == {1024, 2048}

\* Room for two small buffers: a third allocation does not fit.
TwoBuffers == [d \in Devices |-> 2048]
\* The collection threshold max_bytes, at one small buffer in use.
OneBuffer == [d \in Devices |-> 1024]

\* Sizes for a size_t of four values.
TinySize == {1}
TinyStep == {1}
TinyThreshold == [d \in Devices |-> 1]
TinyCapacity == [d \in Devices |-> 2]

==============================================================================
