----------------------------- MODULE MCBlkiomon -----------------------------
(* A small instance of Blkiomon for TLC.                                   *)
EXTENDS Blkiomon, TLC

CONSTANTS r1, r2, d1, d2

\* Two requests, each of a device of its own.
MCDevice == r1 :> d1 @@ r2 :> d2
=============================================================================
