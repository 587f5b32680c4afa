-------------------------- MODULE MCWriteAdmission --------------------------
(***************************************************************************)
(* TLC instances of WriteAdmission: one process with two connections and   *)
(* another process with one.                                               *)
(***************************************************************************)
EXTENDS WriteAdmission

CONSTANTS p, q, s, u, c1, c2, d

MCHome == [x \in Thread \cup Conn |-> IF x \in {u, d} THEN q ELSE p]
SoloUsers == [c \in Conn |-> IF c = d THEN {u} ELSE {s}]
=============================================================================
