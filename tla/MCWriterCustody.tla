--------------------------- MODULE MCWriterCustody ---------------------------
(***************************************************************************)
(* TLC instances of WriterCustody: two runs that want one worktree, and    *)
(* two or three supervisors.                                               *)
(***************************************************************************)
EXTENDS WriterCustody, TLC

CONSTANTS a, b, i, j, k

Symmetry == Permutations(Inst)
=============================================================================
