------------------------ MODULE MCEmbeddingLifecycle ------------------------
(***************************************************************************)
(* TLC instances of EmbeddingLifecycle: servers that agree on the space,   *)
(* servers that do not, and one that cannot embed.                         *)
(***************************************************************************)
EXTENDS EmbeddingLifecycle, TLC

CONSTANTS p1, p2, p3, c1, c2, A, B, t1

OneSpace == [p \in Process |-> A]
TwoSpaces == [p \in Process |-> IF p = p1 THEN A ELSE B]
OneText == [p \in Process |-> t1]

Interchangeable == Permutations(Capsule)
=============================================================================
