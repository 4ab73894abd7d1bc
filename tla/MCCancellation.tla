--------------------------- MODULE MCCancellation ---------------------------
(* Two builds: of two files, or of two files after one another. *)
EXTENDS Cancellation, TLC

CONSTANTS b1, b2
=============================================================================
