---------------------------- MODULE WriterCustody ----------------------------
(***************************************************************************)
(* The one-writer claim of nspawn: a worktree has one writer.  A run is    *)
(* admitted with the claim on its worktree, its child runs in a slice of   *)
(* its own, and the claim goes only when nothing of the run writes.        *)
(* Supervisors crash and leave; a sweep orphans what they left; any        *)
(* instance may close a run whose owner is gone; an implementation run is  *)
(* admitted on the commit its RED receipt names.                           *)
(*                                                                         *)
(* src/packages/nspawn/nspawn/registry.py, supervisor.py, custody.py,      *)
(* schema.py.                                                              *)
(*                                                                         *)
(* One worktree; every run is a native writer in it, driven by the driver  *)
(* process that admitted it.  Time is what may happen: a heartbeat goes    *)
(* stale, a lease lapses.  The supervisor lock of an instance is the steps *)
(* nothing else of that instance may come between.                         *)
(***************************************************************************)
EXTENDS Naturals

CONSTANTS Run, Inst, Nobody,
          Red,        \* the runs admitted with a RED receipt
          Thread,     \* the runs of one session
          Failover,   \* the continuations, which may go on with the next account
          Steady,     \* the instances that stay up
          MaxHead,    \* bound on the commits
          SlowLaunch, \* a launch may outlast the heartbeat
          LongStart   \* a run may be without a process on its row past the lease of its claim

ASSUME ConstantsAssumption ==
  /\ Nobody \notin Run \cup Inst
  /\ Red \subseteq Run /\ Thread \subseteq Run /\ Failover \subseteq Run /\ Steady \subseteq Inst
  /\ MaxHead \in Nat /\ SlowLaunch \in BOOLEAN /\ LongStart \in BOOLEAN

VARIABLES phase,      \* the row of a run, "none" before its admission
          owner,      \* the instance that admits and drives it
          ident,      \* the process its row names: none, an earlier one, or its child
          proc,       \* its child
          job,        \* a process its child left in the slice
          slice,      \* its slice, on record from the moment it is made
          claim,      \* the row of claims
          generation, \* the count of its changes
          head,       \* the commit the worktree is on
          red,        \* what a RED admission has read
          pc,         \* the thread that admits and drives a run
          up,         \* the instance lives
          row,        \* its row of instances
          stale,      \* that row's heartbeat stopped
          closer      \* the close each instance works on

run == <<phase, owner, ident>>
kernel == <<proc, job, slice>>
claims == <<claim, generation>>
tree == <<head, red>>
instances == <<up, row, stale>>
vars == <<run, kernel, claims, tree, pc, instances, closer>>

Ended == {"completed", "failed", "closed"}
Live == {"spawning", "running"}
Phases == {"none", "orphaned"} \cup Live \cup Ended

NoClaim == [run |-> Nobody, by |-> Nobody, lease |-> "lapsed"]
NoRed == [generation |-> 0, receipt |-> 0, seen |-> 0]
Idle == [run |-> Nobody, step |-> "idle", drained |-> FALSE, phase |-> "none", expected |-> "null"]

Init ==
  /\ phase = [r \in Run |-> "none"] /\ owner = [r \in Run |-> Nobody] /\ ident = [r \in Run |-> "null"]
  /\ proc = [r \in Run |-> "none"] /\ job = [r \in Run |-> FALSE] /\ slice = [r \in Run |-> "none"]
  /\ claim = NoClaim /\ generation = 0
  /\ head = 0 /\ red = [r \in Run |-> NoRed]
  /\ pc = [r \in Run |-> "idle"]
  /\ up = [i \in Inst |-> TRUE] /\ row = [i \in Inst |-> TRUE] /\ stale = [i \in Inst |-> FALSE]
  /\ closer = [i \in Inst |-> Idle]

-----------------------------------------------------------------------------
(* The claim.                                                              *)

\* Something of the run is alive in its slice.
Writing(r) == proc[r] = "alive" \/ job[r]

\* Seeded fault: an orphan without a process is not protected.
CustodyByProcess(r) == phase[r] # "closed" /\ ident[r] # "null"

\* PROTECTED_CUSTODY_SQL: not closed, and orphaned or with a process on its row.
Custody(r) == phase[r] # "closed" /\ (phase[r] = "orphaned" \/ ident[r] # "null")

\* Seeded fault: only a live lease holds a worktree.
HeldByLease == claim.run # Nobody /\ claim.lease # "lapsed"

\* _claim_state: a lease that did not lapse, or a run with protected custody.
Held == claim.run # Nobody /\ (claim.lease # "lapsed" \/ Custody(claim.run))

Poisoned(r) == claim.run = r /\ claim.lease = "poisoned"

\* The triggers count every insert, update and delete of the row.
TakeClaim(r, i) ==
  claim' = [run |-> r, by |-> i, lease |-> "live"] /\ generation' = generation + 1

\* Seeded fault: poison is written as a lease the row has no value for.
PoisonBeyond(r) ==
  IF claim.run = r THEN claim' = [claim EXCEPT !.lease = "never"] /\ generation' = generation + 1
  ELSE UNCHANGED claims

\* poison_claim: for ever, whoever holds it.
PoisonClaim(r) ==
  IF claim.run = r THEN claim' = [claim EXCEPT !.lease = "poisoned"] /\ generation' = generation + 1
  ELSE UNCHANGED claims

DropClaimIf(gone) ==
  IF gone THEN claim' = NoClaim /\ generation' = generation + 1 ELSE UNCHANGED claims

-----------------------------------------------------------------------------
(* The lock of an instance: an admission from its first read to its write, *)
(* a launch from its check to the published process, a whole close.        *)

LockHeld(i) ==
  \/ closer[i].step # "idle"
  \/ \E r \in Run : owner[r] = i /\ pc[r] \in {"red", "read", "checked", "spawned"}

Free(i) == up[i] /\ ~LockHeld(i)

-----------------------------------------------------------------------------
(* Admission.                                                              *)

Admitted(r, i) ==
  /\ phase' = [phase EXCEPT ![r] = "spawning"] /\ owner' = [owner EXCEPT ![r] = i]
  /\ pc' = [pc EXCEPT ![r] = "admitted"]
  /\ TakeClaim(r, i)

\* admit_run: the row and the claim in one transaction, or neither.
Admit(r, i) ==
  /\ r \notin Red /\ pc[r] = "idle" /\ Free(i) /\ ~Held
  /\ Admitted(r, i)
  /\ UNCHANGED <<ident, kernel, tree, instances, closer>>

\* With a RED receipt for commit c, the claim's generation is read first ...
BeginRed(r, i, c) ==
  /\ r \in Red /\ pc[r] = "idle" /\ Free(i) /\ ~Held
  /\ owner' = [owner EXCEPT ![r] = i] /\ pc' = [pc EXCEPT ![r] = "red"]
  /\ red' = [red EXCEPT ![r] = [generation |-> generation, receipt |-> c, seen |-> 0]]
  /\ UNCHANGED <<phase, ident, kernel, claims, head, instances, closer>>

\* ... then Git's HEAD, with no transaction open ...
ReadHead(r) ==
  /\ pc[r] = "red" /\ up[owner[r]]
  /\ red' = [red EXCEPT ![r].seen = head] /\ pc' = [pc EXCEPT ![r] = "read"]
  /\ UNCHANGED <<run, kernel, claims, head, instances, closer>>

\* Seeded fault: the write does not compare the claim's generation.
AdmitsOnHead(r) == ~Held /\ red[r].seen = red[r].receipt

\* ... and the write compares the generation, the claim and the HEAD.
Admits(r) == red[r].generation = generation /\ ~Held /\ red[r].seen = red[r].receipt

AdmitRed(r) ==
  /\ pc[r] = "read" /\ up[owner[r]] /\ red' = [red EXCEPT ![r] = NoRed]
  /\ IF Admits(r) THEN Admitted(r, owner[r])
     ELSE /\ pc' = [pc EXCEPT ![r] = "idle"] /\ owner' = [owner EXCEPT ![r] = Nobody]
          /\ UNCHANGED <<phase, claims>>
  /\ UNCHANGED <<ident, kernel, head, instances, closer>>

-----------------------------------------------------------------------------
(* The driver.                                                             *)

Drives(r, at) == pc[r] = at /\ up[owner[r]]

\* _open_writer, under _launching: a run that ended meanwhile is not started.
OpenSlice(r) ==
  /\ Drives(r, "admitted") /\ Free(owner[r])
  /\ \/ /\ phase[r] = "spawning"
        /\ slice' = [slice EXCEPT ![r] = "open"] /\ pc' = [pc EXCEPT ![r] = "opened"]
     \/ /\ phase[r] \notin Live /\ UNCHANGED slice
        /\ pc' = [pc EXCEPT ![r] = "gone"]
  /\ UNCHANGED <<run, proc, job, claims, tree, instances, closer>>

\* Anything that fails before the child is there ends the drive.
FailStart(r) ==
  /\ \/ Drives(r, "admitted") /\ pc' = [pc EXCEPT ![r] = "drained"]
     \/ (Drives(r, "opened") \/ Drives(r, "checked")) /\ pc' = [pc EXCEPT ![r] = "exited"]
  /\ UNCHANGED <<run, kernel, claims, tree, instances, closer>>

\* The launch looks at the row once more, and the slice must still be there (verify).
Launches(r) ==
  IF phase[r] \notin Live THEN "barred" ELSE IF slice[r] = "open" THEN "checked" ELSE "exited"

Check(r) ==
  /\ Drives(r, "opened") /\ Free(owner[r])
  /\ pc' = [pc EXCEPT ![r] = Launches(r)]
  /\ UNCHANGED <<run, kernel, claims, tree, instances, closer>>

\* systemd-run starts the child in the slice; a slice that is gone is made again.
Spawn(r) ==
  /\ Drives(r, "checked")
  /\ proc' = [proc EXCEPT ![r] = "alive"] /\ slice' = [slice EXCEPT ![r] = "open"]
  /\ pc' = [pc EXCEPT ![r] = "spawned"]
  /\ UNCHANGED <<run, job, claims, tree, instances, closer>>

\* update_run: what a live run of a session finds finished, unclaimed and dead it closes.
Priors(r) ==
  {s \in Thread \ {r} : /\ r \in Thread /\ phase[s] \in {"completed", "failed"}
                        /\ claim.run # s /\ ~(ident[s] = "cur" /\ proc[s] = "alive")}

Publish(r) ==
  /\ Drives(r, "spawned") /\ pc' = [pc EXCEPT ![r] = "driving"]
  /\ IF phase[r] \in Ended THEN UNCHANGED <<phase, ident>>
     ELSE LET prior == Priors(r)
          IN  /\ phase' = [s \in Run |-> IF s = r THEN "running" ELSE IF s \in prior THEN "closed" ELSE phase[s]]
              /\ ident' = [s \in Run |-> IF s = r THEN "cur" ELSE IF s \in prior THEN "null" ELSE ident[s]]
  /\ UNCHANGED <<owner, kernel, claims, tree, instances, closer>>

\* The child ends, by itself or at its deadline, and may leave a process in the slice.
Exit(r) ==
  /\ proc[r] = "alive" /\ proc' = [proc EXCEPT ![r] = "dead"]
  /\ \E left \in BOOLEAN : job' = [job EXCEPT ![r] = @ \/ left]
  /\ UNCHANGED <<run, slice, claims, tree, pc, instances, closer>>

JobEnds(r) ==
  /\ job[r] /\ job' = [job EXCEPT ![r] = FALSE]
  /\ UNCHANGED <<run, proc, slice, claims, tree, pc, instances, closer>>

Reaped(r) ==
  /\ Drives(r, "driving") /\ proc[r] = "dead" /\ pc' = [pc EXCEPT ![r] = "exited"]
  /\ UNCHANGED <<run, kernel, claims, tree, instances, closer>>

\* A continuation on a spent account goes on with the next one, in the slice it emptied.
NextAccount(r) ==
  /\ r \in Failover /\ Drives(r, "exited") /\ proc[r] = "dead" /\ slice[r] = "open"
  /\ job' = [job EXCEPT ![r] = FALSE] /\ pc' = [pc EXCEPT ![r] = "opened"]
  /\ ident' = [ident EXCEPT ![r] = IF @ = "cur" THEN "old" ELSE @]
  /\ UNCHANGED <<phase, owner, proc, slice, claims, tree, instances, closer>>

Emptied(r) ==
  /\ proc' = [proc EXCEPT ![r] = IF @ = "alive" THEN "dead" ELSE @]
  /\ job' = [job EXCEPT ![r] = FALSE] /\ slice' = [slice EXCEPT ![r] = "stopped"]

\* _close_writer: the slice is emptied before any terminal write; one not seen empty keeps the fence.
DrainOwn(r) ==
  /\ (Drives(r, "exited") \/ Drives(r, "barred")) /\ slice[r] # "none"
  /\ \/ /\ Emptied(r) /\ UNCHANGED claims
        /\ pc' = [pc EXCEPT ![r] = IF @ = "barred" THEN "gone" ELSE "drained"]
     \/ /\ Free(owner[r]) /\ PoisonClaim(r) /\ UNCHANGED kernel
        /\ pc' = [pc EXCEPT ![r] = "undrained"]
  /\ UNCHANGED <<run, tree, instances, closer>>

\* _writer_stays: a failed writer that wrote nothing gives its claim to the next route.
GiveUp(r) ==
  /\ Drives(r, "drained") /\ Free(owner[r])
  /\ phase[r] \notin Ended /\ claim.run = r /\ ~Poisoned(r)
  /\ DropClaimIf(TRUE) /\ pc' = [pc EXCEPT ![r] = "undrained"]
  /\ UNCHANGED <<run, kernel, tree, instances, closer>>

\* Seeded fault: a failure drops its claim, poisoned or not.
DropsAnyClaim(r) == claim.run = r

\* update_run: a failure drops the claim of its run, never a poisoned one.
DropsClaim(r) == claim.run = r /\ ~Poisoned(r)

\* _publish_terminal, _fail_run: the first end wins.
Finish(r, p) ==
  /\ pc[r] \in {"drained", "undrained"} /\ Free(owner[r])
  /\ p = "failed" \/ (p = "completed" /\ pc[r] = "drained" /\ proc[r] # "none")
  /\ pc' = [pc EXCEPT ![r] = "gone"]
  /\ IF phase[r] \in Ended THEN UNCHANGED <<phase, claims>>
     ELSE /\ phase' = [phase EXCEPT ![r] = p]
          /\ DropClaimIf(p = "failed" /\ DropsClaim(r))
  /\ UNCHANGED <<owner, ident, kernel, tree, instances, closer>>

\* A run that writes may commit.
Commit(r) ==
  /\ Writing(r) /\ head < MaxHead /\ head' = head + 1
  /\ UNCHANGED <<run, kernel, claims, red, pc, instances, closer>>

-----------------------------------------------------------------------------
(* The instances.                                                          *)

\* What a process that dies takes with it: its threads, and no row but an unwritten one.
Abandoned(i) ==
  /\ up' = [up EXCEPT ![i] = FALSE]
  /\ pc' = [r \in Run |-> IF owner[r] # i \/ pc[r] = "idle" THEN pc[r]
                          ELSE IF phase[r] = "none" THEN "idle" ELSE "gone"]
  /\ owner' = [r \in Run |-> IF owner[r] = i /\ phase[r] = "none" THEN Nobody ELSE owner[r]]
  /\ red' = [r \in Run |-> IF owner[r] = i THEN NoRed ELSE red[r]]
  /\ closer' = [closer EXCEPT ![i] = Idle]

Crash(i) ==
  /\ i \notin Steady /\ up[i] /\ Abandoned(i)
  /\ UNCHANGED <<phase, ident, kernel, claims, head, row, stale>>

\* shutdown: its children are killed, the slices it can stop are stopped, its row goes.
Leave(i) ==
  /\ i \notin Steady /\ Free(i) /\ Abandoned(i)
  /\ row' = [row EXCEPT ![i] = FALSE]
  /\ LET mine == {r \in Run : owner[r] = i /\ pc[r] \in {"opened", "driving", "exited", "barred"}}
     IN  \E stopped \in SUBSET {r \in mine : slice[r] # "none"} :
           /\ proc' = [r \in Run |-> IF r \in mine /\ proc[r] = "alive" THEN "dead" ELSE proc[r]]
           /\ job' = [r \in Run |-> job[r] /\ r \notin stopped]
           /\ slice' = [r \in Run |-> IF r \in stopped THEN "stopped" ELSE slice[r]]
  /\ UNCHANGED <<phase, ident, claims, head, stale>>

\* The tick takes the lock: what holds it may hold up the heartbeat.
GoStale(i) ==
  /\ row[i] /\ ~stale[i] /\ (~up[i] \/ (SlowLaunch /\ LockHeld(i)))
  /\ stale' = [stale EXCEPT ![i] = TRUE]
  /\ UNCHANGED <<run, kernel, claims, tree, pc, up, row, closer>>

\* The claim is never renewed: it lapses, once its run was started or found lost if that keeps the lease.
Lapse ==
  /\ claim.lease = "live"
  /\ LongStart \/ phase[claim.run] # "spawning"
  /\ claim' = [claim EXCEPT !.lease = "lapsed"]
  /\ UNCHANGED <<run, kernel, generation, tree, pc, instances, closer>>

\* Seeded fault: the heartbeat is compared the wrong way round.
LostWhileFresh(i) == {j \in Inst \ {i} : row[j] /\ ~stale[j] /\ ~up[j]}

\* _instance_loss: a late heartbeat, and a process proved dead.
Lost(i) == {j \in Inst \ {i} : row[j] /\ stale[j] /\ ~up[j]}

\* An orphan with a process on its row keeps its worktree fenced.
FencedOrphan(r, orphaned) == (r \in orphaned \/ phase[r] = "orphaned") /\ ident[r] # "null"

\* _tick and mark_orphans: beat, then the lost instances, their runs, the claims.
Tick(i) ==
  /\ Free(i) /\ stale' = [stale EXCEPT ![i] = FALSE]
  /\ row' = [j \in Inst |-> (j = i) \/ (row[j] /\ j \notin Lost(i))]
  /\ LET orphaned == {r \in Run : phase[r] \in Live /\ owner[r] # i /\ ~row'[owner[r]]}
         c == claim.run
     IN  /\ phase' = [r \in Run |-> IF r \in orphaned THEN "orphaned" ELSE phase[r]]
         /\ IF c # Nobody /\ claim.lease # "poisoned" /\ FencedOrphan(c, orphaned) THEN PoisonClaim(c)
            ELSE DropClaimIf(/\ c # Nobody /\ claim.lease = "lapsed"
                             /\ ~(Custody(c) \/ c \in orphaned))
  /\ UNCHANGED <<owner, ident, kernel, tree, pc, up, closer>>

-----------------------------------------------------------------------------
(* Closing a run, from any instance its owner does not answer for.         *)

\* Seeded fault: any instance closes any run itself.
ClosesAny(i, r) == TRUE

\* close: a run of a driver that heartbeats is closed by that driver.
ClosesLocally(i, r) == owner[r] = i \/ ~row[owner[r]] \/ stale[owner[r]]

\* Seeded fault: the close does not empty the slice.
DrainNothing(i, r) ==
  /\ UNCHANGED kernel
  /\ closer' = [closer EXCEPT ![i] = [Idle EXCEPT !.run = r, !.step = "drained", !.drained = TRUE]]

\* _drain_writer: the slice, the one on record too, is emptied; refused, the close ends.
Drain(i, r) ==
  /\ IF slice[r] = "none" THEN UNCHANGED kernel ELSE Emptied(r)
  /\ closer' = [closer EXCEPT ![i] = [Idle EXCEPT !.run = r, !.step = "drained", !.drained = slice[r] # "none"]]

StartClose(i, r) ==
  /\ Free(i) /\ phase[r] # "none" /\ ClosesLocally(i, r)
  /\ Drain(i, r)
  /\ UNCHANGED <<run, claims, tree, pc, instances>>

\* release_claim: by proof, by its holder, or after a holder that is gone.
Releases(i, r, drained) ==
  claim.run = r /\ (drained \/ claim.by = i \/ (~row[claim.by] /\ claim.lease # "poisoned" /\ ~Custody(r)))

\* _close_locked on a closed row: only its claim may be left.
FinishClosed(i, r, drained) ==
  /\ DropClaimIf(Releases(i, r, drained) /\ (drained \/ ~Poisoned(r)))
  /\ closer' = [closer EXCEPT ![i] = Idle]

\* The child of this process, else the one the row names, is killed and seen dead.
Expected(i, r) == IF owner[r] = i /\ pc[r] = "driving" THEN "cur" ELSE ident[r]

Prove(i) ==
  /\ up[i] /\ closer[i].step = "drained"
  /\ LET r == closer[i].run
     IN  IF phase[r] = "closed" THEN FinishClosed(i, r, closer[i].drained) /\ UNCHANGED proc
         ELSE /\ closer' = [closer EXCEPT ![i].step = "proved", ![i].phase = phase[r], ![i].expected = Expected(i, r)]
              /\ proc' = [proc EXCEPT ![r] = IF Expected(i, r) = "cur" /\ @ = "alive" THEN "dead" ELSE @]
              /\ UNCHANGED claims
  /\ UNCHANGED <<run, job, slice, tree, pc, instances>>

\* _close_with_identity: the phase, the dead process and the poison, in one transaction.
Closes(r, c) ==
  /\ IF c.phase = "orphaned" THEN phase[r] = "orphaned" ELSE phase[r] # "closed"
  /\ ident[r] = "null" \/ (ident[r] = c.expected /\ ~(ident[r] = "cur" /\ proc[r] = "alive"))
  /\ c.drained \/ ~Poisoned(r)

CommitClose(i) ==
  /\ up[i] /\ closer[i].step = "proved"
  /\ LET c == closer[i]
         r == c.run
     IN  IF Closes(r, c)
         THEN /\ phase' = [phase EXCEPT ![r] = "closed"] /\ ident' = [ident EXCEPT ![r] = "null"]
              /\ DropClaimIf(claim.run = r) /\ closer' = [closer EXCEPT ![i] = Idle]
         ELSE /\ UNCHANGED <<phase, ident>>
              /\ IF phase[r] = "closed" /\ c.expected = "null" THEN FinishClosed(i, r, c.drained)
                 ELSE UNCHANGED claims /\ closer' = [closer EXCEPT ![i] = Idle]
  /\ UNCHANGED <<owner, kernel, tree, pc, instances>>

\* Seeded fault: a slice that is stopped already is passed over.
ReconcilesIdle(r) == phase[r] \in Ended /\ ~Writing(r) /\ slice[r] = "open"

\* Only an ended run, and only a slice that holds no process: idle, or with a poisoned claim.
Reconciles(r) ==
  phase[r] \in Ended /\ ~Writing(r) /\ (slice[r] = "open" \/ (slice[r] = "stopped" /\ Poisoned(r)))

\* reconcile_slices: the slice is stopped, and the poisoned claim it held given back.
Reconcile(i, r) ==
  /\ Free(i) /\ Reconciles(r)
  /\ slice' = [slice EXCEPT ![r] = "stopped"] /\ DropClaimIf(Poisoned(r))
  /\ UNCHANGED <<run, proc, job, tree, pc, instances, closer>>

-----------------------------------------------------------------------------
DriverOf(r) ==
  \/ OpenSlice(r) \/ FailStart(r) \/ Check(r) \/ Spawn(r) \/ Publish(r) \/ Reaped(r) \/ NextAccount(r)
  \/ DrainOwn(r) \/ GiveUp(r) \/ (\E p \in {"completed", "failed"} : Finish(r, p))

Admission(r) ==
  \/ \E i \in Inst : Admit(r, i) \/ (\E c \in 0..head : BeginRed(r, i, c))
  \/ ReadHead(r) \/ AdmitRed(r)

Kernel(r) == Exit(r) \/ JobEnds(r) \/ Commit(r)

Instance(i) ==
  \/ Crash(i) \/ Leave(i) \/ GoStale(i) \/ Tick(i) \/ Prove(i) \/ CommitClose(i)
  \/ \E r \in Run : StartClose(i, r) \/ Reconcile(i, r)

Next ==
  \/ \E r \in Run : DriverOf(r) \/ Admission(r) \/ Kernel(r)
  \/ \E i \in Inst : Instance(i)
  \/ Lapse

Spec == Init /\ [][Next]_vars

\* Of an instance that stays up: ticks and reconcile passes come again and get the lock, and
\* what is begun under it is ended.  A heartbeat that stopped goes stale.
Fairness ==
  /\ \A i \in Inst : WF_vars(GoStale(i))
  /\ \A i \in Steady : /\ SF_vars(Tick(i)) /\ WF_vars(Prove(i) \/ CommitClose(i))
                        /\ \A r \in Run : SF_vars(Reconcile(i, r))
  /\ \A r \in Run : WF_vars(ReadHead(r) \/ AdmitRed(r)) /\ WF_vars(Spawn(r) \/ Publish(r))

FairSpec == Spec /\ Fairness

-----------------------------------------------------------------------------
(* Type invariant.                                                         *)
TypeOK ==
  /\ phase \in [Run -> Phases] /\ owner \in [Run -> Inst \cup {Nobody}]
  /\ ident \in [Run -> {"null", "old", "cur"}]
  /\ proc \in [Run -> {"none", "alive", "dead"}] /\ job \in [Run -> BOOLEAN]
  /\ slice \in [Run -> {"none", "open", "stopped"}]
  /\ claim \in [run : Run \cup {Nobody}, by : Inst \cup {Nobody}, lease : {"live", "lapsed", "poisoned"}]
  /\ generation \in Nat /\ head \in Nat
  /\ red \in [Run -> [generation : Nat, receipt : Nat, seen : Nat]]
  /\ pc \in [Run -> {"idle", "red", "read", "admitted", "opened", "checked", "spawned", "driving",
                     "exited", "barred", "drained", "undrained", "gone"}]
  /\ up \in [Inst -> BOOLEAN] /\ row \in [Inst -> BOOLEAN] /\ stale \in [Inst -> BOOLEAN]
  /\ closer \in [Inst -> [run : Run \cup {Nobody}, step : {"idle", "drained", "proved"}, drained : BOOLEAN,
                          phase : Phases, expected : {"null", "old", "cur"}]]

(* Safety: whatever of a run is alive in the worktree, the claim is the    *)
(* run's.  There is one claim, so two runs never write at once.            *)
WriterHoldsClaim == \A r \in Run : Writing(r) => claim.run = r

(* Safety: nothing of a closed run is alive: a close kills by the identity *)
(* the row names and by the slice on record, also one that a crash left.   *)
ClosedIsDead == \A r \in Run : phase[r] = "closed" => ~Writing(r)

(* Safety: "close cannot release a run between its last check and PID      *)
(* publication": the run of a launch under way is not closed.              *)
LaunchKeepsItsRun == \A r \in Run : pc[r] \in {"checked", "spawned"} => phase[r] # "closed"

(* Action property: a run admitted with a RED receipt starts on the commit *)
(* the receipt names, though HEAD was read before the transaction.         *)
RedStartsOnItsCommit ==
  [][\A r \in Red : phase[r] = "none" /\ phase'[r] = "spawning" => head = red[r].receipt]_vars

(* Action property: a poisoned claim goes only with the proof that the     *)
(* slice of its run is stopped and empty.                                  *)
PoisonNeedsProof ==
  [][\A r \in Run : Poisoned(r) /\ claim'.run # r =>
       slice'[r] = "stopped" /\ proc'[r] # "alive" /\ ~job'[r]]_vars

(* Liveness: a run whose supervisor died does not stay live for ever, as   *)
(* long as some other instance ticks.                                      *)
LostRunsAreOrphaned ==
  \A r \in Run : (phase[r] \in Live /\ ~up[owner[r]]) ~> (phase[r] \notin Live)

(* Liveness: a poisoned claim of a run that ended goes once nothing of the *)
(* run is alive: the fence does not outlast its reason.                    *)
PoisonHeals ==
  \A r \in Run : (Poisoned(r) /\ phase[r] \in Ended /\ ~Writing(r)) ~> ~Poisoned(r)

-----------------------------------------------------------------------------
(* What it promises: module Worktree.                                      *)

Life(r) == IF phase[r] \in Live THEN "live" ELSE IF phase[r] \in {"completed", "failed"} THEN "ended" ELSE phase[r]

Tree == INSTANCE Worktree WITH life <- [r \in Run |-> Life(r)], holder <- claim.run,
          fenced <- claim.lease = "poisoned", writing <- {r \in Run : Writing(r)}, commits <- head

(* Refinement: whatever instances crash, leave, go stale, close and sweep, *)
(* the worktree is let go or given to a run only while nothing writes, and *)
(* only to a run nobody has it before; no lapsed lease takes it away.      *)
ImplementsWorktree == Tree!Spec

-----------------------------------------------------------------------------
(* Why it does: an inductive invariant, where ~SlowLaunch and ~LongStart.  *)

\* Nothing of a run is admitted before it has a row, and a row has its instance.
RowsAreAdmitted ==
  \A r \in Run : /\ pc[r] \in {"idle", "red", "read"} <=> phase[r] = "none"
                 /\ pc[r] # "idle" => owner[r] \in Inst

\* Who drives is up; who is up has its row, and beats.
DriversBeat ==
  /\ \A r \in Run : pc[r] \notin {"idle", "gone"} => up[owner[r]]
  /\ \A i \in Inst : up[i] => row[i] /\ ~stale[i]

\* Where the drive of a run is, and its phase.
PhaseOfDrive ==
  \A r \in Run :
    /\ phase[r] \in {"orphaned", "completed", "failed"} => pc[r] = "gone"
    /\ pc[r] \in {"checked", "spawned"} => phase[r] # "closed"
    /\ pc[r] = "barred" => phase[r] = "closed"
    /\ phase[r] \in {"running", "completed"} => ident[r] # "null"
    /\ pc[r] \in {"opened", "checked", "driving", "exited", "drained"} /\ proc[r] # "none" /\ phase[r] # "closed" =>
         ident[r] # "null"

\* Nothing of a run is alive where its drive has started nothing, or has emptied the slice.
Quiet ==
  \A r \in Run :
    /\ slice[r] = "none" => proc[r] = "none" /\ ~job[r]
    /\ pc[r] \in {"idle", "red", "read", "admitted", "opened", "checked", "barred", "drained"} => ~Writing(r)
    /\ pc[r] \in {"idle", "red", "read", "admitted"} => slice[r] = "none"
    /\ pc[r] = "exited" => proc[r] # "alive"
    /\ pc[r] = "undrained" => ~Writing(r) \/ Poisoned(r)

\* Nothing of a run that ended is alive, except behind a poisoned claim.
EndedIsQuiet ==
  \A r \in Run : /\ phase[r] \in {"closed", "completed"} => ~Writing(r)
                 /\ phase[r] = "failed" => ~Writing(r) \/ Poisoned(r)

\* A drive that may still start the child.
Launching(r) ==
  /\ pc[r] \in {"admitted", "opened", "checked", "spawned", "driving", "exited"}
  /\ phase[r] # "closed"

\* The claim is of who writes or may start to write; it does not lapse before the run is started, and
\* does not outlive its end unless it is poisoned or a process is named.
ClaimIsKept ==
  /\ \A r \in Run : Launching(r) \/ Writing(r) => claim.run = r
  /\ claim.run # Nobody => phase[claim.run] \notin {"none", "closed"}
  /\ claim.run = Nobody => claim.lease = "lapsed"
  /\ claim.run # Nobody /\ phase[claim.run] = "spawning" => claim.lease # "lapsed"
  /\ claim.run # Nobody /\ phase[claim.run] = "failed" => claim.lease = "poisoned"

\* Who closes holds the lock of its instance, and has emptied a slice that no drive fills again.
CloserHolds ==
  \A i \in Inst :
    closer[i].step # "idle" =>
      /\ up[i] /\ closer[i].run \in Run
      /\ \A s \in Run : owner[s] = i => pc[s] \notin {"red", "read", "checked", "spawned"}
      /\ \A r \in Run :
           closer[i].run = r =>
             /\ phase[r] # "none" /\ ~Writing(r)
             /\ owner[r] = i \/ pc[r] = "gone"
             /\ closer[i].drained => slice[r] = "stopped"

\* While the generation that a RED admission has read stands, nobody writes or may start to.
RedIsAlone ==
  \A r \in Run :
    pc[r] \in {"red", "read"} =>
      /\ red[r].generation <= generation
      /\ red[r].generation = generation => \A s \in Run : ~Writing(s) /\ ~Launching(s)
      /\ red[r].generation = generation /\ pc[r] = "read" => red[r].seen = head

IInv ==
  /\ TypeOK /\ RowsAreAdmitted /\ DriversBeat /\ PhaseOfDrive /\ Quiet /\ EndedIsQuiet
  /\ ClaimIsKept /\ CloserHolds /\ RedIsAlone
=============================================================================
