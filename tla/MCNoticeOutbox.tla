--------------------------- MODULE MCNoticeOutbox ---------------------------
(***************************************************************************)
(* TLC instances of NoticeOutbox: a swarm of two runs with two pushers, a  *)
(* run with a session and a node, and the ends that must be told.          *)
(***************************************************************************)
EXTENDS NoticeOutbox

CONSTANTS a, b, s, n, p, q, d

NoneRevived == [x \in Run |-> 0]
OneRevived == [x \in Run |-> IF x = a THEN 1 ELSE 0]

Once == [x \in Addr |-> 1]
TwiceByHost == [x \in Addr |-> IF x \in Node THEN 2 ELSE 1]
=============================================================================
