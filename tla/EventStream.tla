---------------------------- MODULE EventStream ----------------------------
(***************************************************************************)
(* What blktrace promises of its output: for every stream (one device on   *)
(* one CPU) the kernel's events come out whole, each once, and in the      *)
(* order the kernel recorded them; and when blktrace has ended, all of     *)
(* them have come out.                                                     *)
(***************************************************************************)
EXTENDS Naturals

CONSTANT Streams

VARIABLES recorded,   \* events the kernel has recorded, per stream
          emitted,    \* events that have come out, per stream
          ended       \* blktrace has ended

vars == <<recorded, emitted, ended>>

Init ==
    /\ recorded = [s \in Streams |-> 0]
    /\ emitted = [s \in Streams |-> 0]
    /\ ended = FALSE

Record(s) ==
    /\ ~ended
    /\ recorded' = [recorded EXCEPT ![s] = @ + 1]
    /\ UNCHANGED <<emitted, ended>>

\* One write emits some of the stream's events not emitted yet, oldest first.
Emit(s) ==
    /\ ~ended
    /\ \E n \in emitted[s] + 1 .. recorded[s] :
          emitted' = [emitted EXCEPT ![s] = n]
    /\ UNCHANGED <<recorded, ended>>

End ==
    /\ ~ended /\ emitted = recorded
    /\ ended' = TRUE
    /\ UNCHANGED <<recorded, emitted>>

Next == End \/ \E s \in Streams : Record(s) \/ Emit(s)

Spec == Init /\ [][Next]_vars
=============================================================================
