--------------------------- MODULE MCPipedOutput ---------------------------
(* Small instances of PipedOutput for TLC.                                 *)
EXTENDS PipedOutput

\* An event as long as a read may return, and a shorter one.
MCEventLens == <<2, 1>>
MCThreeEvents == <<1, 3, 2>>
=============================================================================
