------------------------------- MODULE Outbox -------------------------------
(***************************************************************************)
(* What the notices of nspawn promise to the callers of a run, with no     *)
(* token, lease, pusher, swarm or host in sight.  When a run is orphaned   *)
(* or over, all its notices are owed from that step on, whatever was heard *)
(* before; one is delivered when its caller has heard, or is handed to a   *)
(* session that prints it or is killed with it; a node's is never handed   *)
(* over like that, and never dropped before it is delivered.               *)
(*                                                                         *)
(* src/packages/nspawn/nspawn/schema.py (runs_arm_notices), registry.py,   *)
(* notify.py.                                                              *)
(***************************************************************************)
EXTENDS Naturals

CONSTANTS Run, Addr,
          Kept,  \* the addresses whose notices are kept until they are delivered
          Word,  \* what may be heard of a run
          Over   \* that it is over

VARIABLES life,     \* of each run: none, live, orphaned, over
          due,      \* each notice: none, waiting, owed, delivered, gone
          heard,    \* what its caller heard of it since it was owed
          promised, \* the notices a session is about to print
          lost      \* those it was killed with

outVars == <<life, due, heard, promised, lost>>

Notice == Run \X Addr
Of(r) == {n \in Notice : n[1] = r}

Init ==
  /\ life = [r \in Run |-> "none"]
  /\ due = [n \in Notice |-> "none"] /\ heard = [n \in Notice |-> {}]
  /\ promised = {} /\ lost = {}

-----------------------------------------------------------------------------
\* A run is dispatched by its first caller.
Dispatch(r, n) ==
  /\ life[r] = "none" /\ n \in Of(r)
  /\ life' = [life EXCEPT ![r] = "live"] /\ due' = [due EXCEPT ![n] = "waiting"]
  /\ UNCHANGED <<heard, promised, lost>>

\* Another one joins; of an orphan it is told at once.
Join(r, n) ==
  /\ life[r] \in {"live", "orphaned"} /\ n \in Of(r) /\ due[n] = "none"
  /\ due' = [due EXCEPT ![n] = IF life[r] = "live" THEN "waiting" ELSE "delivered"]
  /\ UNCHANGED <<life, heard, promised, lost>>

\* All that is known of a run is owed again.
Turn(r, is) ==
  /\ life[r] \in {"live", "orphaned"} /\ is # life[r]
  /\ life' = [life EXCEPT ![r] = is]
  /\ due' = [n \in Notice |-> IF n \in Of(r) /\ due[n] \notin {"none", "gone"} THEN "owed" ELSE due[n]]
  /\ heard' = [n \in Notice |-> IF n \in Of(r) THEN {} ELSE heard[n]]
  /\ promised' = promised \ Of(r) /\ lost' = lost \ Of(r)

\* Its worker comes back.
Revive(r) ==
  /\ life[r] = "orphaned" /\ life' = [life EXCEPT ![r] = "live"]
  /\ UNCHANGED <<due, heard, promised, lost>>

\* A caller hears, as often as it may; that a run is over once it is.
Hear ==
  /\ heard' \in [Notice -> SUBSET Word]
  /\ \A n \in Notice : /\ heard[n] \subseteq heard'[n]
                       /\ \A word \in heard'[n] \ heard[n] :
                            due[n] \in {"owed", "delivered"} /\ (life[n[1]] = "over" => word \in Over)
  /\ promised' \subseteq promised /\ \A n \in promised \ promised' : heard'[n] # {}
  /\ UNCHANGED <<life, due, lost>>

Delivered(ns) ==
  /\ \A n \in ns : due[n] = "owed"
  /\ due' = [n \in Notice |-> IF n \in ns THEN "delivered" ELSE due[n]]

\* What was heard since it was owed is delivered ...
Deliver(ns) == (\A n \in ns : heard[n] # {}) /\ Delivered(ns) /\ UNCHANGED <<life, heard, promised, lost>>

\* ... or what is about to be, by a session ...
Promise(ns) ==
  /\ \A n \in ns : n[2] \notin Kept
  /\ Delivered(ns) /\ promised' = promised \cup ns
  /\ UNCHANGED <<life, heard, lost>>

\* ... that may be killed.
Break ==
  /\ promised' \subseteq promised /\ lost' \subseteq lost \cup promised
  /\ lost \subseteq lost' /\ promised \ promised' \subseteq lost'
  /\ UNCHANGED <<life, due, heard>>

\* A notice gets old.
Drop(n) ==
  /\ due[n] \notin {"none", "gone"} /\ (n[2] \in Kept => due[n] = "delivered")
  /\ due' = [due EXCEPT ![n] = "gone"] /\ heard' = [heard EXCEPT ![n] = {}]
  /\ promised' = promised \ {n} /\ lost' = lost \ {n}
  /\ UNCHANGED life

Next ==
  \/ \E r \in Run : Revive(r) \/ (\E n \in Notice : Dispatch(r, n) \/ Join(r, n)) \/ \E is \in {"orphaned", "over"} : Turn(r, is)
  \/ \E ns \in SUBSET Notice : Deliver(ns) \/ Promise(ns)
  \/ Hear \/ Break \/ \E n \in Notice : Drop(n)

Spec == Init /\ [][Next]_outVars
=============================================================================
