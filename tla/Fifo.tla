-------------------------------- MODULE Fifo --------------------------------
(***************************************************************************)
(* What queue.h promises: items come out in the order they were put in,    *)
(* each once.                                                              *)
(***************************************************************************)
EXTENDS Sequences

CONSTANT Items

VARIABLE q

FifoInit == q = <<>>

Put(x) == q' = Append(q, x)

Get == q # <<>> /\ q' = Tail(q)

FifoNext == Get \/ \E x \in Items : Put(x)

FifoSpec == FifoInit /\ [][FifoNext]_q
=============================================================================
