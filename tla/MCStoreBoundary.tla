-------------------------- MODULE MCStoreBoundary --------------------------
(***************************************************************************)
(* TLC instances of StoreBoundary: two callers and one record.             *)
(***************************************************************************)
EXTENDS StoreBoundary

CONSTANTS p, q, r
=============================================================================
