----------------------------- MODULE MCKernelCache -----------------------------
(***************************************************************************)
(* Instances of KernelCache for TLC.                                       *)
(***************************************************************************)
EXTENDS KernelCache, TLC

CONSTANTS p1, t1, t2

\* Two threads of one process.  What separate processes share is the directory,
\* and threads share that too.
OneProcess == t1 :> p1 @@ t2 :> p1

\* Thread ids differ within a process.
OwnNames == [t \in Threads |-> <<"temp", t>>]

\* The contents of an inode that nobody can reach do not matter.
View == <<th, cache, loaded, handed, file,
          [i \in Inodes |-> IF i \in FreeInodes THEN Blank ELSE data[i]], crashes>>

Symmetry == Permutations(Keys) \cup Permutations(Threads)

=============================================================================
