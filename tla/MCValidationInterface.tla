----------------------- MODULE MCValidationInterface -----------------------
(***************************************************************************)
(* Two scheduler threads, two producers and the main thread.               *)
(***************************************************************************)
EXTENDS ValidationInterface

CONSTANTS w1, w2, p1, p2, main
=============================================================================
