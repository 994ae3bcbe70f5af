---------------------------- MODULE MCDeviceManager ----------------------------
(***************************************************************************)
(* Instances of DeviceManager for TLC.                                     *)
(***************************************************************************)
EXTENDS DeviceManager, TLC

OneDevice == <<"internal">>
TwoDevices == <<"first", "second">>
TwoUserContexts == {"a", "b"}

\* No action names a buffer, a handle, a thread or a context of the program.
BufferSymmetry == Permutations(Buffers)
Symmetry == BufferSymmetry \cup Permutations(Handles) \cup Permutations(Threads)

\* Nothing but the bound reads flags.
View == <<pool, Len(flags), active, manager, heap, arr, call>>

================================================================================
