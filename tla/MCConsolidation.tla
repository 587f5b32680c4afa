-------------------------- MODULE MCConsolidation --------------------------
(***************************************************************************)
(* TLC instances of Consolidation: b grows stale before it expires, and f  *)
(* is a flagged import.                                                    *)
(***************************************************************************)
EXTENDS Consolidation

CONSTANTS b, f

EndsAtOne == [c \in Capsule |-> IF c = b THEN {1} ELSE {}]
=============================================================================
