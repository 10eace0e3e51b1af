---------------------------- MODULE MCLiveTrace ----------------------------
(* A small instance of LiveTrace for TLC.                                  *)
EXTENDS LiveTrace

\* All the time, which is what there is without -w, or a part of it.
TwoWindows == {[start |-> 0, end |-> TimeMod], [start |-> 1, end |-> 2]}
=============================================================================
