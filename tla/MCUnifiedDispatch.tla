------------------------ MODULE MCUnifiedDispatch ------------------------
(* Instances of UnifiedDispatch for TLC. *)
EXTENDS UnifiedDispatch

EverySet == SUBSET Backends

\* Two CUDA devices, one of everything else.
Devices == [b \in Backends |-> IF b = "cuda" THEN 2 ELSE 1]

SameVersion == [b \in Backends |-> Functions]
==========================================================================
