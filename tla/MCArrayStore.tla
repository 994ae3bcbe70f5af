----------------------------- MODULE MCArrayStore -----------------------------
(***************************************************************************)
(* Instances of ArrayStore for TLC.                                        *)
(***************************************************************************)
EXTENDS ArrayStore

\* Contents the host writes.
OneVector == {[c \in 0 .. 1 |-> c]}
OneZero == {[c \in 0 .. 0 |-> 0]}

\* Handles are interchangeable, and so are buffers.
Symmetry == Permutations(Handles) \cup Permutations(Bufs)

\* A buffer that nobody owns and no queued kernel names holds no information.
Used(b) == b \notin FreeBufs \/ \E i \in DOMAIN queue : queue[i].dst = b \/ Mentions(queue[i].terms, b)
View == <<arr, [b \in Bufs |-> IF Used(b) THEN mem[b] ELSE <<>>], queue, count, todo, val, seen>>

=============================================================================
