----------------------- MODULE MCStreamMessageReader -----------------------
(* A small instance of StreamMessageReader for TLC.                         *)
EXTENDS StreamMessageReader

CONSTANTS r1, r2, r3
=============================================================================
