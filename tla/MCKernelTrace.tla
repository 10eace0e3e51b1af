--------------------------- MODULE MCKernelTrace ---------------------------
(* Small instances of KernelTrace for TLC.                                 *)
EXTENDS KernelTrace, TLC

CONSTANTS t1, t2, disk1, disk2, queue1, queue2

\* Every disk has a queue of its own.
OwnQueues == disk1 :> queue1 @@ disk2 :> queue2

Symmetry == Permutations(Tasks) \cup Permutations(BTs)
=============================================================================
