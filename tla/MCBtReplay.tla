----------------------------- MODULE MCBtReplay -----------------------------
(* Small instances of BtReplay for TLC.                                    *)
EXTENDS BtReplay, TLC

CONSTANTS f1, f2

\* A bunch that takes all iocbs in one file, a small one in the other.
MCBunches == [f \in Files |-> IF f = f1 THEN <<2>> ELSE <<1>>]
=============================================================================
