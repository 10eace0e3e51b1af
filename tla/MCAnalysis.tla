----------------------------- MODULE MCAnalysis -----------------------------
(* A small instance of Analysis for TLC.                                   *)
EXTENDS Analysis

\* Two neighbours, which may be merged at either end, of two tasks; and a write
\* that overlaps both.
First == [start |-> 0, len |-> 1, pid |-> 1, w |-> 0]
Second == [start |-> 1, len |-> 1, pid |-> 2, w |-> 0]
Wide == [start |-> 0, len |-> 2, pid |-> 2, w |-> 1]

FewWorkloads == {[bios |-> <<First, Second>>, odd |-> 1],
                 [bios |-> <<Second, First>>, odd |-> 0],
                 [bios |-> <<First, First>>, odd |-> 0],
                 [bios |-> <<Wide, Second>>, odd |-> 0],
                 [bios |-> <<Second>>, odd |-> 2]}
=============================================================================
