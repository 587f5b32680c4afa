---------------------------- MODULE MCTermIndex ----------------------------
(***************************************************************************)
(* TLC instances of TermIndex: two processes, of two builds     *)
(* with different tokenizers.                                              *)
(***************************************************************************)
EXTENDS TermIndex

CONSTANTS p1, p2, tok1, tok2, x, y

TwoBuilds == [p \in Process |-> IF p = p1 THEN tok1 ELSE tok2]

\* The first tokenizer finds both words in y; the second one finds other words.
MCWords ==
  [t \in Tokenizer |-> [z \in Text |->
     CASE t = tok1 /\ z = x -> {1}
       [] t = tok1 /\ z = y -> {1, 2}
       [] t # tok1 /\ z = x -> {2}
       [] OTHER -> {1}]]
=============================================================================
