----------------------------- MODULE MCTracers -----------------------------
(* Small instances of Tracers for TLC.                                     *)
EXTENDS Tracers

CONSTANTS c0, c1

TwoCPUs == {c0, c1}
=============================================================================
