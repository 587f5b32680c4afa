--------------------------- MODULE MCReadTraffic ---------------------------
(***************************************************************************)
(* TLC instances of ReadTraffic: two processes and one capsule.            *)
(***************************************************************************)
EXTENDS ReadTraffic

CONSTANTS p, q, a
=============================================================================
