------------------------------ MODULE Worktree ------------------------------
(***************************************************************************)
(* What the one-writer claim of nspawn promises of a worktree, with no     *)
(* instance, lease, heartbeat or slice in sight.  One run at a time has    *)
(* the worktree; only that run starts processes in it and commits; it is   *)
(* never taken away from a run, but let go while nothing writes, and an    *)
(* orphan lets it go only by being closed.  A run is live, may be lost,    *)
(* ends and is closed, and nothing of a closed run is alive.               *)
(*                                                                         *)
(* src/packages/nspawn/nspawn/registry.py: admit_run, update_run,          *)
(* mark_orphans, poison_claim, release_claim.                              *)
(***************************************************************************)
EXTENDS Naturals

CONSTANTS Run, Nobody

VARIABLES life,    \* of each run: none, live, orphaned, ended, closed
          holder,  \* the run that has the worktree
          fenced,  \* it keeps it until nothing of it is proved to write
          writing, \* the runs something of which is alive
          commits  \* of the worktree

treeVars == <<life, holder, fenced, writing, commits>>

Init ==
  /\ life = [r \in Run |-> "none"]
  /\ holder = Nobody /\ fenced = FALSE /\ writing = {} /\ commits = 0

-----------------------------------------------------------------------------
\* The worktree stays with its holder, is fenced for it, or is let go while nothing writes.
Kept == UNCHANGED <<holder, fenced>>
Fenced == holder # Nobody /\ fenced' = TRUE /\ UNCHANGED holder
LetGo == writing = {} /\ holder' = Nobody /\ fenced' = FALSE

\* A run begins in a worktree nobody has.
Begin(r) ==
  /\ life[r] = "none" /\ holder = Nobody /\ writing = {}
  /\ life' = [life EXCEPT ![r] = "live"] /\ holder' = r
  /\ UNCHANGED <<fenced, writing, commits>>

\* Only the holder starts a process, and only while it is live.
Start(r) ==
  /\ holder = r /\ life[r] = "live"
  /\ writing' = writing \cup {r}
  /\ UNCHANGED <<life, holder, fenced, commits>>

Commit(r) ==
  /\ r \in writing /\ commits' = commits + 1
  /\ UNCHANGED <<life, holder, fenced, writing>>

\* Processes end whenever they do, or are killed.
Stop(r) ==
  /\ writing' = writing \ {r}
  /\ UNCHANGED <<life, holder, fenced, commits>>

\* The holder could not be proved empty, or it is and gives the worktree back.
Settle ==
  /\ Fenced \/ (LetGo /\ holder # Nobody /\ life[holder] \in {"live", "ended"})
  /\ UNCHANGED <<life, writing, commits>>

\* The runs of an instance that is gone are lost together.
Lose(lost) ==
  /\ \A r \in lost : life[r] = "live"
  /\ life' = [r \in Run |-> IF r \in lost THEN "orphaned" ELSE life[r]]
  /\ Kept \/ Fenced
  /\ UNCHANGED <<writing, commits>>

\* An end is of a live run, and the first one stays.
End(r) ==
  /\ life[r] = "live"
  /\ life' = [life EXCEPT ![r] = "ended"]
  /\ Kept \/ (holder = r /\ LetGo)
  /\ UNCHANGED <<writing, commits>>

\* What is closed is dead, and has nothing any more.
Close(closed) ==
  /\ \A r \in closed : life[r] # "none" /\ r \notin writing
  /\ life' = [r \in Run |-> IF r \in closed THEN "closed" ELSE life[r]]
  /\ IF holder \in closed THEN LetGo ELSE Kept
  /\ UNCHANGED <<writing, commits>>

Next ==
  \/ \E r \in Run : Begin(r) \/ Start(r) \/ Commit(r) \/ Stop(r) \/ End(r)
  \/ \E runs \in SUBSET Run : Lose(runs) \/ Close(runs)
  \/ Settle

Spec == Init /\ [][Next]_treeVars
=============================================================================
