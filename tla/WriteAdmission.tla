--------------------------- MODULE WriteAdmission ---------------------------
(***************************************************************************)
(* How a write to one SQLite file begins and ends: a writer first takes    *)
(* the flock on the file's sidecar, waiting for it in the kernel, then     *)
(* SQLite's own write lock, and records its claim, so that a second        *)
(* connection of the same thread is refused instead of waiting for itself. *)
(*                                                                         *)
(* src/packages/database/nott_database/__init__.py.                        *)
(*                                                                         *)
(* A kernel wait cannot be called off: it runs in a daemon thread and may  *)
(* be granted when nobody wants it any more.  Connections are dropped in   *)
(* the middle of a write, and the collector lets their locks go from any   *)
(* thread.  Deadlines are abstracted to the choice to give up; the file's  *)
(* contents are left out.                                                  *)
(***************************************************************************)
EXTENDS Integers

CONSTANTS Process, Thread, Conn,
          Home,      \* Home[x]: the process of a thread or connection
          Users,     \* Users[c]: the threads that use the connection
          MaxDepth,  \* bound on nested writes
          Nobody,    \* no holder
          Foreign    \* a writer that knows nothing of admission

ASSUME ConstantsAssumption ==
  /\ Home \in [Thread \cup Conn -> Process]
  /\ Users \in [Conn -> SUBSET Thread]
  /\ \A c \in Conn : \A t \in Users[c] : Home[t] = Home[c]
  /\ MaxDepth \in Nat \ {0}
  /\ Nobody \notin Conn \cup Thread /\ Foreign \notin Conn \cup {Nobody}

VARIABLES pc,        \* where each connection is
          by,        \* the thread that works on it, or that began its write
          depth,     \* Connection.depth
          gate,      \* _Gate.fd: the connection holds the flock
          wait,      \* _Gate.waiting: its kernel wait
          wanted,    \* _Wait.wanted
          claimed,   \* _Gate.claimed
          claims,    \* _claims, by process
          released,  \* _released, by process
          sql        \* who holds SQLite's write lock

admission == <<gate, wait, wanted>>
claim == <<claimed, claims, released>>
vars == <<pc, by, depth, admission, claim, sql>>

Steps == {"closed", "idle", "take", "wait", "sqlite", "record", "write", "commit", "end", "release",
          "unclaim", "close", "collected"}
Waits == {"none", "queued", "granted", "done"}
NoClaim == [thread |-> Nobody, conn |-> Nobody]
Claims == [thread : Thread, conn : Conn] \cup {NoClaim}

\* A thread works on one connection at a time; a connection whose write is open, or that
\* the collector has, keeps no thread.
Busy(t) == \E c \in Conn : by[c] = t /\ pc[c] \notin {"closed", "idle", "write", "collected"}

\* Nobody's descriptor holds the flock.
Unlocked == \A c \in Conn : ~gate[c] /\ wait[c] \notin {"granted", "done"}

-----------------------------------------------------------------------------
(* begin. *)

\* The claim of a process once the releases queued for it are applied.
Settled(p) == IF claims[p].conn \in released[p] THEN NoClaim ELSE claims[p]

Settle(p) == /\ claims' = [claims EXCEPT ![p] = Settled(p)]
             /\ released' = [released EXCEPT ![p] = {}]
             /\ UNCHANGED claimed

\* The same thread has the write lock already, through another connection.
Refuse(t, c) ==
  /\ pc[c] = "idle" /\ t \in Users[c] /\ ~Busy(t)
  /\ Settled(Home[c]).thread = t
  /\ Settle(Home[c])
  /\ UNCHANGED <<pc, by, depth, admission, sql>>

\* Seeded fault: the claim is asked for its connection, not for its thread.
BeginByConnection(t, c) ==
  /\ pc[c] = "idle" /\ t \in Users[c] /\ ~Busy(t)
  /\ Settled(Home[c]).conn # c
  /\ Settle(Home[c])
  /\ pc' = [pc EXCEPT ![c] = "take"]
  /\ by' = [by EXCEPT ![c] = t]
  /\ UNCHANGED <<depth, admission, sql>>

Begin(t, c) ==
  /\ pc[c] = "idle" /\ t \in Users[c] /\ ~Busy(t)
  /\ Settled(Home[c]).thread # t
  /\ Settle(Home[c])
  /\ pc' = [pc EXCEPT ![c] = "take"]
  /\ by' = [by EXCEPT ![c] = t]
  /\ UNCHANGED <<depth, admission, sql>>

\* A write within a write is a savepoint.
BeginInner(t, c) ==
  /\ pc[c] = "write" /\ t \in Users[c] /\ ~Busy(t)
  /\ depth[c] < MaxDepth
  /\ depth' = [depth EXCEPT ![c] = @ + 1]
  /\ UNCHANGED <<pc, by, admission, claim, sql>>

\* _take without a wait of its own: the flock at once, or a wait, or a refusal.
Take(c) ==
  /\ pc[c] = "take" /\ wait[c] = "none"
  /\ \/ /\ Unlocked
        /\ gate' = [gate EXCEPT ![c] = TRUE]
        /\ pc' = [pc EXCEPT ![c] = "sqlite"]
        /\ UNCHANGED <<wait, wanted>>
     \/ /\ ~Unlocked
        /\ wait' = [wait EXCEPT ![c] = "queued"]
        /\ wanted' = [wanted EXCEPT ![c] = TRUE]
        /\ pc' = [pc EXCEPT ![c] = "wait"]
        /\ UNCHANGED gate
     \/ /\ pc' = [pc EXCEPT ![c] = "end"]
        /\ UNCHANGED admission
  /\ UNCHANGED <<by, depth, claim, sql>>

\* _take with the wait an earlier begin gave up.
Resume(c) ==
  /\ pc[c] = "take" /\ wait[c] # "none"
  /\ wanted' = [wanted EXCEPT ![c] = TRUE]
  /\ pc' = [pc EXCEPT ![c] = "wait"]
  /\ UNCHANGED <<by, depth, gate, wait, claim, sql>>

\* The kernel grants the flock to one of its waiters ...
Grant(c) ==
  /\ wait[c] = "queued" /\ Unlocked
  /\ wait' = [wait EXCEPT ![c] = "granted"]
  /\ UNCHANGED <<pc, by, depth, gate, wanted, claim, sql>>

\* Seeded fault: the daemon thread keeps what it was granted for whoever asks next.
GrantedKept(c) ==
  /\ wait[c] = "granted"
  /\ wait' = [wait EXCEPT ![c] = "done"]
  /\ UNCHANGED <<pc, by, depth, gate, wanted, claim, sql>>

\* ... and its daemon thread says so, or lets go of what nobody wants.
Granted(c) ==
  /\ wait[c] = "granted"
  /\ wait' = [wait EXCEPT ![c] = IF wanted[c] THEN "done" ELSE "none"]
  /\ UNCHANGED <<pc, by, depth, gate, wanted, claim, sql>>

\* _Wait.claim: the descriptor changes hands.
Claim(c) ==
  /\ pc[c] = "wait" /\ wait[c] = "done"
  /\ gate' = [gate EXCEPT ![c] = TRUE]
  /\ wait' = [wait EXCEPT ![c] = "none"]
  /\ pc' = [pc EXCEPT ![c] = "sqlite"]
  /\ UNCHANGED <<by, depth, wanted, claim, sql>>

\* The deadline passes before the grant is told: the wait stays queued, unwanted.
GiveUp(c) ==
  /\ pc[c] = "wait" /\ wait[c] # "done"
  /\ wanted' = [wanted EXCEPT ![c] = FALSE]
  /\ pc' = [pc EXCEPT ![c] = "end"]
  /\ UNCHANGED <<by, depth, gate, wait, claim, sql>>

\* _Wait.abandon: nobody will ask again, so a grant already told is let go here.
Abandoned(c) == /\ wanted' = [wanted EXCEPT ![c] = FALSE]
                /\ wait' = [wait EXCEPT ![c] = IF @ = "done" THEN "none" ELSE @]

\* The thread is interrupted while it waits.
Interrupt(c) ==
  /\ pc[c] = "wait"
  /\ Abandoned(c)
  /\ pc' = [pc EXCEPT ![c] = "end"]
  /\ UNCHANGED <<by, depth, gate, claim, sql>>

BeginImmediate(c) ==
  /\ pc[c] = "sqlite" /\ sql = Nobody
  /\ sql' = c
  /\ depth' = [depth EXCEPT ![c] = 1]
  /\ pc' = [pc EXCEPT ![c] = "record"]
  /\ UNCHANGED <<by, admission, claim>>

Record(c) ==
  /\ pc[c] = "record"
  /\ pc' = [pc EXCEPT ![c] = "write"]
  /\ claimed' = [claimed EXCEPT ![c] = TRUE]
  /\ claims' = [claims EXCEPT ![Home[c]] = [thread |-> by[c], conn |-> c]]
  /\ UNCHANGED <<by, depth, admission, released, sql>>

\* SQLite stays busy, or the thread is interrupted.
BeginFails(c) ==
  /\ pc[c] \in {"sqlite", "record"}
  /\ pc' = [pc EXCEPT ![c] = "end"]
  /\ UNCHANGED <<by, depth, admission, claim, sql>>

-----------------------------------------------------------------------------
(* finish and _end. *)

\* Seeded fault: admission is handed on whenever a write ends, an inner one too.
FinishInnerReleases(t, c) ==
  /\ pc[c] = "write" /\ t \in Users[c] /\ ~Busy(t)
  /\ depth[c] > 1
  /\ depth' = [depth EXCEPT ![c] = @ - 1]
  /\ gate' = [gate EXCEPT ![c] = FALSE]
  /\ UNCHANGED <<pc, by, wait, wanted, claim, sql>>

\* Seeded fault: the depth is not asked for.
FinishInnerAny(t, c) ==
  /\ pc[c] = "write" /\ t \in Users[c] /\ ~Busy(t)
  /\ depth' = [depth EXCEPT ![c] = @ - 1]
  /\ UNCHANGED <<pc, by, admission, claim, sql>>

\* A nested write ends: its savepoint goes, admission stays.
FinishInner(t, c) ==
  /\ pc[c] = "write" /\ t \in Users[c] /\ ~Busy(t)
  /\ depth[c] > 1
  /\ depth' = [depth EXCEPT ![c] = @ - 1]
  /\ UNCHANGED <<pc, by, admission, claim, sql>>

\* The next writer is admitted before this one commits.
Finish(t, c) ==
  /\ pc[c] = "write" /\ t \in Users[c] /\ ~Busy(t)
  /\ depth[c] = 1
  /\ gate' = [gate EXCEPT ![c] = FALSE]
  /\ by' = [by EXCEPT ![c] = t]
  /\ pc' = [pc EXCEPT ![c] = "commit"]
  /\ UNCHANGED <<depth, wait, wanted, claim, sql>>

\* COMMIT or ROLLBACK; either may fail and leave the transaction open.
Commit(c) ==
  /\ pc[c] = "commit"
  /\ pc' = [pc EXCEPT ![c] = "end"]
  /\ sql' \in {Nobody, sql}
  /\ UNCHANGED <<by, depth, admission, claim>>

Freed(c) == IF sql = c THEN Nobody ELSE sql

Rollback(c) ==
  /\ pc[c] = "end"
  /\ sql' = Freed(c)
  /\ depth' = [depth EXCEPT ![c] = 0]
  /\ pc' = [pc EXCEPT ![c] = "release"]
  /\ UNCHANGED <<by, admission, claim>>

\* Seeded fault: _end trusts finish to have handed admission on.
ReleaseNothing(c) ==
  /\ pc[c] = "release"
  /\ pc' = [pc EXCEPT ![c] = "unclaim"]
  /\ UNCHANGED <<by, depth, admission, claim, sql>>

Release(c) ==
  /\ pc[c] = "release"
  /\ gate' = [gate EXCEPT ![c] = FALSE]
  /\ pc' = [pc EXCEPT ![c] = "unclaim"]
  /\ UNCHANGED <<by, depth, wait, wanted, claim, sql>>

\* Seeded fault: the release is noted on the connection only.
UnclaimedUnqueued(c) == claimed' = [claimed EXCEPT ![c] = FALSE] /\ UNCHANGED <<claims, released>>

\* _Gate.unclaim: a finalizer too, so it only queues the release.
Unclaimed(c) == /\ claimed' = [claimed EXCEPT ![c] = FALSE]
                /\ released' = [released EXCEPT ![Home[c]] = IF claimed[c] THEN @ \cup {c} ELSE @]
                /\ UNCHANGED claims

Unclaim(c) ==
  /\ pc[c] = "unclaim"
  /\ Unclaimed(c)
  /\ pc' = [pc EXCEPT ![c] = "idle"]
  /\ UNCHANGED <<by, depth, admission, sql>>

-----------------------------------------------------------------------------
(* Connections come and go. *)

Connect(c) ==
  /\ pc[c] = "closed" /\ wait[c] = "none"
  /\ pc' = [pc EXCEPT ![c] = "idle"]
  /\ UNCHANGED <<by, depth, admission, claim, sql>>

\* Connection.close: SQLite first, which rolls an open write back ...
Close(t, c) ==
  /\ pc[c] \in {"idle", "write"} /\ t \in Users[c] /\ ~Busy(t)
  /\ sql' = Freed(c)
  /\ depth' = [depth EXCEPT ![c] = 0]
  /\ by' = [by EXCEPT ![c] = t]
  /\ pc' = [pc EXCEPT ![c] = "close"]
  /\ UNCHANGED <<admission, claim>>

\* _Gate.drop.
Dropped(c) == /\ Abandoned(c)
              /\ gate' = [gate EXCEPT ![c] = FALSE]
              /\ Unclaimed(c)

\* ... then the gate.
Drop(c) ==
  /\ pc[c] = "close"
  /\ Dropped(c)
  /\ pc' = [pc EXCEPT ![c] = "closed"]
  /\ UNCHANGED <<by, depth, sql>>

\* A connection nobody refers to any more: its finalizer runs before SQLite closes it.
Collect(c) ==
  /\ pc[c] \in {"idle", "write"}
  /\ Dropped(c)
  /\ pc' = [pc EXCEPT ![c] = "collected"]
  /\ UNCHANGED <<by, depth, sql>>

Collected(c) ==
  /\ pc[c] = "collected"
  /\ sql' = Freed(c)
  /\ depth' = [depth EXCEPT ![c] = 0]
  /\ pc' = [pc EXCEPT ![c] = "closed"]
  /\ UNCHANGED <<by, admission, claim>>

\* The kernel frees what a dead process held; it starts again with nothing open.
Die(p) ==
  LET mine == {c \in Conn : Home[c] = p} IN
  /\ pc' = [c \in Conn |-> IF c \in mine THEN "closed" ELSE pc[c]]
  /\ depth' = [c \in Conn |-> IF c \in mine THEN 0 ELSE depth[c]]
  /\ gate' = [c \in Conn |-> gate[c] /\ c \notin mine]
  /\ wait' = [c \in Conn |-> IF c \in mine THEN "none" ELSE wait[c]]
  /\ wanted' = [c \in Conn |-> wanted[c] /\ c \notin mine]
  /\ claimed' = [c \in Conn |-> claimed[c] /\ c \notin mine]
  /\ claims' = [claims EXCEPT ![p] = NoClaim]
  /\ released' = [released EXCEPT ![p] = {}]
  /\ sql' = IF sql \in mine THEN Nobody ELSE sql
  /\ UNCHANGED by

\* A writer of another make, a shell say, takes SQLite's lock only.
ForeignWrite == /\ \/ sql = Nobody /\ sql' = Foreign
                   \/ sql = Foreign /\ sql' = Nobody
                /\ UNCHANGED <<pc, by, depth, admission, claim>>

-----------------------------------------------------------------------------
Init ==
  /\ pc = [c \in Conn |-> "closed"]
  /\ by = [c \in Conn |-> Nobody]
  /\ depth = [c \in Conn |-> 0]
  /\ gate = [c \in Conn |-> FALSE]
  /\ wait = [c \in Conn |-> "none"]
  /\ wanted = [c \in Conn |-> FALSE]
  /\ claimed = [c \in Conn |-> FALSE]
  /\ claims = [p \in Process |-> NoClaim]
  /\ released = [p \in Process |-> {}]
  /\ sql = Nobody

\* What runs by itself once a thread has called begin, finish or close.
Working(c) ==
  \/ Take(c) \/ Resume(c) \/ Claim(c) \/ GiveUp(c) \/ BeginImmediate(c) \/ BeginFails(c) \/ Record(c)
  \/ Commit(c) \/ Rollback(c) \/ Release(c) \/ Unclaim(c) \/ Drop(c) \/ Collected(c)

\* A write that is open ends.
Ending(c) == \E t \in Thread : FinishInner(t, c) \/ Finish(t, c)

Next ==
  \/ \E c \in Conn :
       \/ Working(c) \/ Ending(c)
       \/ Grant(c) \/ Granted(c) \/ Interrupt(c) \/ Connect(c) \/ Collect(c)
       \/ \E t \in Thread : Refuse(t, c) \/ Begin(t, c) \/ BeginInner(t, c) \/ Close(t, c)
  \/ \E p \in Process : Die(p)
  \/ ForeignWrite

Spec == Init /\ [][Next]_vars

\* A block that opened a write ends, calls run on, and the kernel's answers are read.
FairSpec ==
  /\ Spec
  /\ \A c \in Conn : WF_vars(Working(c))
  /\ WF_vars(\E c \in Conn : Granted(c))
  /\ SF_vars(\E c \in Conn, t \in Thread : FinishInner(t, c))
  /\ SF_vars(\E c \in Conn, t \in Thread : Finish(t, c))

-----------------------------------------------------------------------------
(* Properties. *)

TypeOK ==
  /\ pc \in [Conn -> Steps]
  /\ by \in [Conn -> Thread \cup {Nobody}]
  /\ depth \in [Conn -> 0..MaxDepth]
  /\ gate \in [Conn -> BOOLEAN] /\ wanted \in [Conn -> BOOLEAN] /\ claimed \in [Conn -> BOOLEAN]
  /\ wait \in [Conn -> Waits]
  /\ claims \in [Process -> Claims]
  /\ released \in [Process -> SUBSET Conn]
  /\ sql \in Conn \cup {Nobody, Foreign}

\* No thread waits for a write that is its own through another connection: it would wait
\* out the whole busy timeout.
NoSelfWait ==
  \A c, d \in Conn : pc[c] \in {"take", "wait", "sqlite"} /\ pc[d] = "write" => by[c] # by[d]

\* A thread is refused only while the write it claimed is still open or ending: a claim
\* that outlived its write would refuse the thread for ever.
RefusedJustly ==
  \A p \in Process :
    LET held == Settled(p) IN
    held # NoClaim => pc[held.conn] \in {"write", "commit", "end", "release", "unclaim", "close"}

\* An admitted writer waits in SQLite only for a write that is ending, never for one whose
\* block still runs (or for a writer that knows no admission).
WaitsOnlyForCommit ==
  \A c \in Conn : pc[c] = "sqlite" /\ sql \in Conn => pc[sql] \in {"commit", "end", "collected"}

\* A connection at rest holds nothing, however its last write began, failed or ended.
AtRestHoldsNothing ==
  \A c \in Conn : pc[c] \in {"idle", "closed"} =>
    /\ ~gate[c] /\ ~claimed[c] /\ sql # c /\ depth[c] = 0
    /\ wait[c] # "done" /\ (wait[c] # "none" => ~wanted[c])

\* Admission passes on: a wait granted after its writer gave up keeps nobody out.
AdmissionPassesOn == ~Unlocked ~> Unlocked
=============================================================================
