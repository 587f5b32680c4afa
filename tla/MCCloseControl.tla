--------------------------- MODULE MCCloseControl ---------------------------
(***************************************************************************)
(* TLC instances of CloseControl: a driver and two askers.                 *)
(***************************************************************************)
EXTENDS CloseControl

CONSTANTS a, b, d
=============================================================================
