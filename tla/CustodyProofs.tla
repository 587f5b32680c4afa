----------------------------- MODULE CustodyProofs -----------------------------
(***************************************************************************)
(* Proofs about who may write for a run and who may close it.              *)
(*                                                                         *)
(* WriterCustody, for every number of runs and of supervisors: IInv is     *)
(* inductive, so what writes for a run holds the unit's claim.  Two        *)
(* hypotheses stand in front of its theorems: no launch is slower than     *)
(* the heartbeat (~SlowLaunch), and no row is without a process past the   *)
(* lease of its claim (~LongStart).  The configurations WriterStalled and  *)
(* WriterLapsed show that the theorems fail without them.                  *)
(*                                                                         *)
(* CloseControl, for every set of askers: CloseIInv is inductive, so a     *)
(* close that is begun under a living claim is not begun by anybody else,  *)
(* and an answer is newer than its question.                               *)
(***************************************************************************)
EXTENDS WriterCustody, CloseControl, TLAPS

USE DEF Ended, Live, Phases, Idle, Free, LockHeld

Claims == [run : Run \cup {Nobody}, by : Inst \cup {Nobody}, lease : {"live", "lapsed", "poisoned"}]

\* Taking the claim changes the claim, and is counted.
LEMMA TakeClaimIs ==
  ASSUME TypeOK, NEW r \in Run, NEW i \in Inst, TakeClaim(r, i)
  PROVE  /\ claim' \in Claims /\ claim'.run = r /\ claim'.lease = "live"
         /\ generation' = generation + 1 /\ generation' \in Nat
BY DEF TypeOK, TakeClaim, Claims

\* Dropping it too.
LEMMA DropClaimIs ==
  ASSUME TypeOK, NEW gone \in BOOLEAN, DropClaimIf(gone)
  PROVE  /\ claim' \in Claims /\ generation' \in Nat /\ generation' >= generation
         /\ generation' = generation => claim' = claim
         /\ gone => claim'.run = Nobody /\ claim'.lease = "lapsed"
         /\ ~gone => claim' = claim
BY DEF TypeOK, DropClaimIf, claims, Claims, NoClaim

\* Poison stays with the run that holds the claim.
LEMMA PoisonClaimIs ==
  ASSUME TypeOK, NEW r \in Run, PoisonClaim(r)
  PROVE  /\ claim' \in Claims /\ generation' \in Nat /\ generation' >= generation
         /\ generation' = generation => claim' = claim
         /\ claim'.run = claim.run /\ claim'.lease \in {claim.lease, "poisoned"}
         /\ claim.run = r => claim'.lease = "poisoned"
         /\ claim.run # r => claim' = claim
BY DEF TypeOK, PoisonClaim, claims, Claims

\* Who writes, or may start to, holds the claim, and nobody else gets it.
LEMMA WritersHold ==
  ASSUME IInv, NEW r \in Run, Launching(r) \/ Writing(r)
  PROVE  claim.run = r /\ Held
<1>1. claim.run = r /\ claim.run # Nobody
  BY ConstantsAssumption DEF IInv, ClaimIsKept
<1>2. CASE phase[r] \in {"spawning", "none"}
  BY <1>1, <1>2 DEF IInv, ClaimIsKept, Held
<1>3. CASE phase[r] \in {"running", "orphaned"}
  BY <1>1, <1>3 DEF IInv, PhaseOfDrive, Held, Custody
<1>4. CASE phase[r] \in {"completed", "failed", "closed"}
  <2>1. Writing(r)
    BY <1>4 DEF IInv, PhaseOfDrive, Launching
  <2>2. Poisoned(r)
    BY <1>4, <2>1 DEF IInv, EndedIsQuiet
  <2> QED BY <1>1, <2>2 DEF Held, Poisoned
<1> QED BY <1>2, <1>3, <1>4 DEF IInv, TypeOK

\* An emptied slice holds nothing of its run, and no other slice changed.
LEMMA EmptiedIs ==
  ASSUME TypeOK, NEW r \in Run, Emptied(r)
  PROVE  /\ proc' \in [Run -> {"none", "alive", "dead"}] /\ job' \in [Run -> BOOLEAN]
         /\ slice' \in [Run -> {"none", "open", "stopped"}]
         /\ slice'[r] = "stopped" /\ proc'[r] # "alive" /\ (proc'[r] = "none" <=> proc[r] = "none") /\ ~job'[r]
         /\ \A s \in Run \ {r} : slice'[s] = slice[s] /\ proc'[s] = proc[s] /\ job'[s] = job[s]
BY DEF TypeOK, Emptied

\* A claim that is not held is taken: nobody wrote, and no drive may start.
LEMMA AdmitKeeps ==
  ASSUME IInv, NEW r \in Run, NEW i \in Inst, Admit(r, i)
  PROVE  IInv'
<1>1. \A s \in Run : ~Writing(s) /\ ~Launching(s)
  BY WritersHold DEF Admit
<1>2. /\ claim' \in Claims /\ claim'.run = r /\ claim'.lease = "live"
      /\ generation' = generation + 1 /\ generation' \in Nat /\ pc[r] = "idle" /\ phase[r] = "none"
  BY TakeClaimIs DEF Admit, Admitted, IInv, RowsAreAdmitted
<1>3. TypeOK'
  BY <1>2 DEF Admit, Admitted, kernel, tree, instances, IInv, TypeOK, Claims
<1>4. RowsAreAdmitted'
  BY <1>2 DEF Admit, Admitted, kernel, tree, instances, IInv, TypeOK, RowsAreAdmitted
<1>5. DriversBeat'
  BY DEF Admit, Admitted, kernel, tree, instances, IInv, TypeOK, DriversBeat
<1>6. PhaseOfDrive'
  BY DEF Admit, Admitted, kernel, tree, instances, IInv, TypeOK, PhaseOfDrive
<1>7. Quiet'
  BY <1>1, <1>2 DEF Admit, Admitted, kernel, tree, instances, IInv, TypeOK, Quiet, Writing, Poisoned
<1>8. EndedIsQuiet'
  BY <1>1, <1>2 DEF Admit, Admitted, kernel, tree, instances, IInv, TypeOK, EndedIsQuiet, Writing, Poisoned
<1>9. ClaimIsKept'
  BY <1>1, <1>2, ConstantsAssumption DEF Admit, Admitted, kernel, tree, instances, IInv, TypeOK, ClaimIsKept, Writing, Launching
<1>10. CloserHolds'
  BY <1>1, <1>2 DEF Admit, Admitted, kernel, tree, instances, IInv, TypeOK, CloserHolds, Writing
<1>11. RedIsAlone'
  BY <1>2 DEF Admit, Admitted, kernel, tree, instances, IInv, TypeOK, RedIsAlone, Writing, Launching
<1> QED BY <1>3, <1>4, <1>5, <1>6, <1>7, <1>8, <1>9, <1>10, <1>11 DEF IInv

\* Nobody writes while the claim is not held.
LEMMA BeginRedKeeps ==
  ASSUME IInv, NEW r \in Run, NEW i \in Inst, NEW c \in 0..head, BeginRed(r, i, c)
  PROVE  IInv'
<1>1. \A s \in Run : ~Writing(s) /\ ~Launching(s)
  BY WritersHold DEF BeginRed
<1>2. TypeOK'
  BY DEF BeginRed, kernel, claims, instances, IInv, TypeOK
<1>3. RowsAreAdmitted'
  BY DEF BeginRed, kernel, claims, instances, IInv, TypeOK, RowsAreAdmitted
<1>4. DriversBeat'
  BY DEF BeginRed, kernel, claims, instances, IInv, TypeOK, DriversBeat
<1>5. PhaseOfDrive'
  BY DEF BeginRed, kernel, claims, instances, IInv, TypeOK, PhaseOfDrive
<1>6. Quiet'
  BY DEF BeginRed, kernel, claims, instances, IInv, TypeOK, Quiet, Writing, Poisoned
<1>7. EndedIsQuiet'
  BY DEF BeginRed, kernel, claims, instances, IInv, TypeOK, EndedIsQuiet, Writing, Poisoned
<1>8. ClaimIsKept'
  BY DEF BeginRed, kernel, claims, instances, IInv, TypeOK, ClaimIsKept, Writing, Launching
<1>9. CloserHolds'
  BY DEF BeginRed, kernel, claims, instances, IInv, TypeOK, CloserHolds, Writing, RowsAreAdmitted
<1>10. RedIsAlone'
  BY <1>1 DEF BeginRed, kernel, claims, instances, IInv, TypeOK, RedIsAlone, Writing, Launching
<1> QED BY <1>2, <1>3, <1>4, <1>5, <1>6, <1>7, <1>8, <1>9, <1>10 DEF IInv

\* HEAD is read while nobody who writes is admitted.
LEMMA ReadHeadKeeps ==
  ASSUME IInv, NEW r \in Run, ReadHead(r)
  PROVE  IInv'
<1>1. TypeOK'
  <2>1. red' \in [Run -> [generation : Nat, receipt : Nat, seen : Nat]]
    <3>1. red[r] \in [generation : Nat, receipt : Nat, seen : Nat] /\ head \in Nat
      BY DEF IInv, TypeOK
    <3>2. [red[r] EXCEPT !.seen = head] \in [generation : Nat, receipt : Nat, seen : Nat]
      BY <3>1
    <3>3. red' = [red EXCEPT ![r] = [red[r] EXCEPT !.seen = head]]
      BY DEF ReadHead
    <3> QED BY <3>2, <3>3 DEF IInv, TypeOK
  <2> QED BY <2>1 DEF ReadHead, IInv, TypeOK, run, kernel, claims, instances
<1>2. RowsAreAdmitted'
  BY DEF ReadHead, run, kernel, claims, instances, IInv, TypeOK, RowsAreAdmitted
<1>3. DriversBeat'
  BY DEF ReadHead, run, kernel, claims, instances, IInv, TypeOK, DriversBeat
<1>4. PhaseOfDrive'
  BY DEF ReadHead, run, kernel, claims, instances, IInv, TypeOK, PhaseOfDrive
<1>5. Quiet'
  BY DEF ReadHead, run, kernel, claims, instances, IInv, TypeOK, Quiet, Writing, Poisoned
<1>6. EndedIsQuiet'
  BY DEF ReadHead, run, kernel, claims, instances, IInv, TypeOK, EndedIsQuiet, Writing, Poisoned
<1>7. ClaimIsKept'
  BY DEF ReadHead, run, kernel, claims, instances, IInv, TypeOK, ClaimIsKept, Writing, Launching
<1>8. CloserHolds'
  BY DEF ReadHead, run, kernel, claims, instances, IInv, TypeOK, CloserHolds, Writing
<1>9. RedIsAlone'
  BY DEF ReadHead, run, kernel, claims, instances, IInv, TypeOK, RedIsAlone, Writing, Launching
<1> QED BY <1>1, <1>2, <1>3, <1>4, <1>5, <1>6, <1>7, <1>8, <1>9 DEF IInv

\* An admission on a receipt: what is compared holds still.
LEMMA AdmitRedKeeps ==
  ASSUME IInv, NEW r \in Run, AdmitRed(r)
  PROVE  IInv'
<1>1. /\ pc[r] = "read" /\ phase[r] = "none" /\ owner[r] \in Inst /\ up[owner[r]]
      /\ red' \in [Run -> [generation : Nat, receipt : Nat, seen : Nat]]
      /\ \A s \in Run \ {r} : red'[s] = red[s]
      /\ UNCHANGED <<ident, proc, job, slice, head, up, row, stale, closer>>
  BY DEF AdmitRed, IInv, TypeOK, RowsAreAdmitted, NoRed, kernel, instances
<1>2. ASSUME Admits(r)
      PROVE  /\ \A s \in Run : ~Writing(s) /\ ~Launching(s)
             /\ claim' \in Claims /\ claim'.run = r /\ claim'.lease = "live"
             /\ generation' = generation + 1 /\ generation' \in Nat
             /\ phase' = [phase EXCEPT ![r] = "spawning"] /\ pc' = [pc EXCEPT ![r] = "admitted"]
             /\ owner' = owner
  <2>1. Admitted(r, owner[r]) /\ \A s \in Run : ~Writing(s) /\ ~Launching(s)
    BY <1>2, WritersHold DEF AdmitRed, Admits
  <2>2. TakeClaim(r, owner[r]) /\ TypeOK
    BY <2>1 DEF Admitted, IInv
  <2> QED BY <1>1, <2>1, <2>2, TakeClaimIs DEF Admitted, TypeOK
<1>3. ASSUME ~Admits(r)
      PROVE  /\ pc' = [pc EXCEPT ![r] = "idle"] /\ owner' = [owner EXCEPT ![r] = Nobody]
             /\ UNCHANGED <<phase, claim, generation>>
  BY <1>3 DEF AdmitRed, claims
<1>4. TypeOK'
  <2>1. CASE Admits(r)
    <3>1. phase' \in [Run -> Phases] /\ pc' \in [Run -> {pc[s] : s \in Run} \cup {"admitted"}]
      BY <1>2, <2>1 DEF IInv, TypeOK
    <3> QED BY <1>1, <1>2, <2>1, <3>1 DEF IInv, TypeOK, Claims
  <2>2. CASE ~Admits(r)
    <3>1. owner' \in [Run -> Inst \cup {Nobody}] /\ pc' \in [Run -> {pc[s] : s \in Run} \cup {"idle"}]
      BY <1>3, <2>2 DEF IInv, TypeOK
    <3> QED BY <1>1, <1>3, <2>2, <3>1 DEF IInv, TypeOK
  <2> QED BY <2>1, <2>2
<1>5. RowsAreAdmitted'
  <2>1. CASE Admits(r)
    BY <1>1, <1>2, <2>1 DEF IInv, TypeOK, RowsAreAdmitted
  <2>2. CASE ~Admits(r)
    BY <1>1, <1>3, <2>2 DEF IInv, TypeOK, RowsAreAdmitted
  <2> QED BY <2>1, <2>2
<1>6. DriversBeat'
  <2>1. CASE Admits(r)
    BY <1>1, <1>2, <2>1 DEF IInv, TypeOK, DriversBeat
  <2>2. CASE ~Admits(r)
    BY <1>1, <1>3, <2>2 DEF IInv, TypeOK, DriversBeat
  <2> QED BY <2>1, <2>2
<1>7. PhaseOfDrive'
  <2>1. CASE Admits(r)
    BY <1>1, <1>2, <2>1, SMTT(20) DEF IInv, TypeOK, PhaseOfDrive, RowsAreAdmitted
  <2>2. CASE ~Admits(r)
    BY <1>1, <1>3, <2>2 DEF IInv, TypeOK, PhaseOfDrive, RowsAreAdmitted
  <2> QED BY <2>1, <2>2
<1>8. Quiet'
  <2>1. CASE Admits(r)
    BY <1>1, <1>2, <2>1 DEF IInv, TypeOK, Quiet, Writing, Poisoned
  <2>2. CASE ~Admits(r)
    BY <1>1, <1>3, <2>2 DEF IInv, TypeOK, Quiet, Writing, Poisoned
  <2> QED BY <2>1, <2>2
<1>9. EndedIsQuiet'
  <2>1. CASE Admits(r)
    BY <1>1, <1>2, <2>1 DEF IInv, TypeOK, EndedIsQuiet, Writing, Poisoned
  <2>2. CASE ~Admits(r)
    BY <1>1, <1>3, <2>2 DEF IInv, TypeOK, EndedIsQuiet, Writing, Poisoned
  <2> QED BY <2>1, <2>2
<1>10. ClaimIsKept'
  <2>1. CASE Admits(r)
    BY <1>1, ConstantsAssumption, <1>2, <2>1 DEF IInv, TypeOK, ClaimIsKept, Writing, Launching
  <2>2. CASE ~Admits(r)
    BY <1>1, ConstantsAssumption, <1>3, <2>2 DEF IInv, TypeOK, ClaimIsKept, Writing, Launching
  <2> QED BY <2>1, <2>2
<1>11. CloserHolds'
  <2>1. CASE Admits(r)
    BY <1>1, <1>2, <2>1 DEF IInv, TypeOK, CloserHolds, Writing
  <2>2. CASE ~Admits(r)
    <3>1. \A s \in Run \ {r} : owner'[s] = owner[s] /\ pc'[s] = pc[s]
      BY <1>3, <2>2 DEF IInv, TypeOK
    <3>2. \A i \in Inst : closer[i].step # "idle" => closer[i].run \in Run \ {r}
      BY <1>1 DEF IInv, CloserHolds
    <3>3. pc'[r] = "idle" /\ \A s \in Run : Writing(s)' = Writing(s)
      BY <1>1, <1>3, <2>2 DEF IInv, TypeOK, Writing
    <3> QED BY <1>1, <1>3, <2>2, <3>1, <3>2, <3>3 DEF IInv, CloserHolds
  <2> QED BY <2>1, <2>2
<1>12. RedIsAlone'
  <2>1. CASE Admits(r)
    BY <1>1, <1>2, <2>1 DEF IInv, TypeOK, RedIsAlone, Writing, Launching
  <2>2. CASE ~Admits(r)
    BY <1>1, <1>3, <2>2 DEF IInv, TypeOK, RedIsAlone, Writing, Launching
  <2> QED BY <2>1, <2>2
<1> QED BY <1>4, <1>5, <1>6, <1>7, <1>8, <1>9, <1>10, <1>11, <1>12 DEF IInv

\* A slice is opened for a run that is still to be started.
LEMMA OpenSliceKeeps ==
  ASSUME IInv, NEW r \in Run, OpenSlice(r)
  PROVE  IInv'
<1>1. TypeOK'
  <2>1. slice' \in [Run -> {"none", "open", "stopped"}]
    BY DEF OpenSlice, IInv, TypeOK
  <2>2. \E at \in {"opened", "gone"} : pc' = [pc EXCEPT ![r] = at]
    BY DEF OpenSlice
  <2> QED BY <2>1, <2>2 DEF OpenSlice, IInv, TypeOK, run, claims, tree, instances
<1>2. RowsAreAdmitted'
  BY DEF OpenSlice, Drives, run, claims, tree, instances, IInv, TypeOK, RowsAreAdmitted
<1>3. DriversBeat'
  BY DEF OpenSlice, Drives, run, claims, tree, instances, IInv, TypeOK, DriversBeat
<1>4. PhaseOfDrive'
  BY DEF OpenSlice, Drives, run, claims, tree, instances, IInv, TypeOK, PhaseOfDrive, Quiet
<1>5. Quiet'
  BY DEF OpenSlice, Drives, run, claims, tree, instances, IInv, TypeOK, Quiet, Writing, Poisoned
<1>6. EndedIsQuiet'
  BY DEF OpenSlice, Drives, run, claims, tree, instances, IInv, TypeOK, EndedIsQuiet, Writing, Poisoned
<1>7. ClaimIsKept'
  BY DEF OpenSlice, Drives, run, claims, tree, instances, IInv, TypeOK, ClaimIsKept, Writing, Launching
<1>8. CloserHolds'
  <2>1. /\ pc[r] = "admitted" /\ closer[owner[r]].step = "idle" /\ pc'[r] \notin {"red", "read", "checked", "spawned"}
        /\ \A s \in Run \ {r} : pc'[s] = pc[s] /\ slice'[s] = slice[s]
        /\ UNCHANGED <<phase, owner, proc, job, up, closer>>
    BY DEF OpenSlice, Drives, IInv, TypeOK, run, instances
  <2>2. \A i \in Inst : closer[i].step # "idle" => closer[i].run # r
    BY <2>1 DEF IInv, CloserHolds
  <2> QED BY <2>1, <2>2 DEF IInv, CloserHolds, Writing
<1>9. RedIsAlone'
  BY DEF OpenSlice, Drives, run, claims, tree, instances, IInv, TypeOK, RedIsAlone, Writing, Launching
<1> QED BY <1>1, <1>2, <1>3, <1>4, <1>5, <1>6, <1>7, <1>8, <1>9 DEF IInv

\* A start that fails has started nothing.
LEMMA FailStartKeeps ==
  ASSUME IInv, NEW r \in Run, FailStart(r)
  PROVE  IInv'
<1>1. TypeOK'
  BY DEF FailStart, Drives, run, kernel, claims, tree, instances, IInv, TypeOK
<1>2. RowsAreAdmitted'
  BY DEF FailStart, Drives, run, kernel, claims, tree, instances, IInv, TypeOK, RowsAreAdmitted
<1>3. DriversBeat'
  BY DEF FailStart, Drives, run, kernel, claims, tree, instances, IInv, TypeOK, DriversBeat
<1>4. PhaseOfDrive'
  BY DEF FailStart, Drives, run, kernel, claims, tree, instances, IInv, TypeOK, PhaseOfDrive, Quiet
<1>5. Quiet'
  BY DEF FailStart, Drives, run, kernel, claims, tree, instances, IInv, TypeOK, Quiet, Writing, Poisoned
<1>6. EndedIsQuiet'
  BY DEF FailStart, Drives, run, kernel, claims, tree, instances, IInv, TypeOK, EndedIsQuiet, Writing, Poisoned
<1>7. ClaimIsKept'
  BY DEF FailStart, Drives, run, kernel, claims, tree, instances, IInv, TypeOK, ClaimIsKept, Writing, Launching
<1>8. CloserHolds'
  BY DEF FailStart, Drives, run, kernel, claims, tree, instances, IInv, TypeOK, CloserHolds, Writing
<1>9. RedIsAlone'
  BY DEF FailStart, Drives, run, kernel, claims, tree, instances, IInv, TypeOK, RedIsAlone, Writing, Launching
<1> QED BY <1>1, <1>2, <1>3, <1>4, <1>5, <1>6, <1>7, <1>8, <1>9 DEF IInv

\* The last look: a run that ended is not started.
LEMMA CheckKeeps ==
  ASSUME IInv, NEW r \in Run, Check(r)
  PROVE  IInv'
<1>1. TypeOK'
  BY DEF Check, Launches, Drives, run, kernel, claims, tree, instances, IInv, TypeOK
<1>2. RowsAreAdmitted'
  BY DEF Check, Launches, Drives, run, kernel, claims, tree, instances, IInv, TypeOK, RowsAreAdmitted
<1>3. DriversBeat'
  BY DEF Check, Launches, Drives, run, kernel, claims, tree, instances, IInv, TypeOK, DriversBeat
<1>4. PhaseOfDrive'
  BY DEF Check, Launches, Drives, run, kernel, claims, tree, instances, IInv, TypeOK, PhaseOfDrive, RowsAreAdmitted
<1>5. Quiet'
  BY DEF Check, Launches, Drives, run, kernel, claims, tree, instances, IInv, TypeOK, Quiet, Writing, Poisoned
<1>6. EndedIsQuiet'
  BY DEF Check, Launches, Drives, run, kernel, claims, tree, instances, IInv, TypeOK, EndedIsQuiet, Writing, Poisoned
<1>7. ClaimIsKept'
  BY DEF Check, Launches, Drives, run, kernel, claims, tree, instances, IInv, TypeOK, ClaimIsKept, Writing, Launching
<1>8. CloserHolds'
  <2>1. /\ pc[r] = "opened" /\ closer[owner[r]].step = "idle"
        /\ \A s \in Run \ {r} : pc'[s] = pc[s]
        /\ UNCHANGED <<phase, owner, proc, job, slice, up, closer>>
    BY DEF Check, Drives, IInv, TypeOK, run, kernel, instances
  <2> QED BY <2>1 DEF IInv, CloserHolds, Writing
<1>9. RedIsAlone'
  BY DEF Check, Launches, Drives, run, kernel, claims, tree, instances, IInv, TypeOK, RedIsAlone, Writing, Launching
<1> QED BY <1>1, <1>2, <1>3, <1>4, <1>5, <1>6, <1>7, <1>8, <1>9 DEF IInv

\* The child starts under the claim, and under the lock of its instance.
LEMMA SpawnKeeps ==
  ASSUME IInv, NEW r \in Run, Spawn(r)
  PROVE  IInv'
<1>1. TypeOK'
  BY DEF Spawn, Drives, run, claims, tree, instances, IInv, TypeOK
<1>2. RowsAreAdmitted'
  BY DEF Spawn, Drives, run, claims, tree, instances, IInv, TypeOK, RowsAreAdmitted
<1>3. DriversBeat'
  BY DEF Spawn, Drives, run, claims, tree, instances, IInv, TypeOK, DriversBeat
<1>4. PhaseOfDrive'
  BY DEF Spawn, Drives, run, claims, tree, instances, IInv, TypeOK, PhaseOfDrive
<1>5. Quiet'
  BY DEF Spawn, Drives, run, claims, tree, instances, IInv, TypeOK, Quiet, Writing, Poisoned
<1>6. EndedIsQuiet'
  BY DEF Spawn, Drives, run, claims, tree, instances, IInv, TypeOK, EndedIsQuiet, Writing, Poisoned, PhaseOfDrive
<1>7. ClaimIsKept'
  BY DEF Spawn, Drives, run, claims, tree, instances, IInv, TypeOK, ClaimIsKept, Writing, Launching, PhaseOfDrive
<1>8. CloserHolds'
  BY DEF Spawn, Drives, run, claims, tree, instances, IInv, TypeOK, CloserHolds, Writing, PhaseOfDrive
<1>9. RedIsAlone'
  BY DEF Spawn, Drives, run, claims, tree, instances, IInv, TypeOK, RedIsAlone, Writing, Launching, PhaseOfDrive
<1> QED BY <1>1, <1>2, <1>3, <1>4, <1>5, <1>6, <1>7, <1>8, <1>9 DEF IInv

\* The process gets its row; what the session left behind is closed, and dead.
LEMMA PublishKeeps ==
  ASSUME IInv, NEW r \in Run, Publish(r)
  PROVE  IInv'
<1>1. TypeOK'
  BY DEF Publish, Priors, Drives, kernel, claims, tree, instances, IInv, TypeOK
<1>2. RowsAreAdmitted'
  BY DEF Publish, Priors, Drives, kernel, claims, tree, instances, IInv, TypeOK, RowsAreAdmitted
<1>3. DriversBeat'
  BY DEF Publish, Priors, Drives, kernel, claims, tree, instances, IInv, TypeOK, DriversBeat
<1>4. PhaseOfDrive'
  BY DEF Publish, Priors, Drives, kernel, claims, tree, instances, IInv, TypeOK, PhaseOfDrive
<1>5. Quiet'
  BY DEF Publish, Priors, Drives, kernel, claims, tree, instances, IInv, TypeOK, Quiet, Writing, Poisoned
<1>6. EndedIsQuiet'
  BY DEF Publish, Priors, Drives, kernel, claims, tree, instances, IInv, TypeOK, EndedIsQuiet, Writing, Poisoned
<1>7. ClaimIsKept'
  BY DEF Publish, Priors, Drives, kernel, claims, tree, instances, IInv, TypeOK, ClaimIsKept, Writing, Launching
<1>8. CloserHolds'
  BY DEF Publish, Priors, Drives, kernel, claims, tree, instances, IInv, TypeOK, CloserHolds, Writing
<1>9. RedIsAlone'
  BY DEF Publish, Priors, Drives, kernel, claims, tree, instances, IInv, TypeOK, RedIsAlone, Writing, Launching
<1> QED BY <1>1, <1>2, <1>3, <1>4, <1>5, <1>6, <1>7, <1>8, <1>9 DEF IInv

\* What ends had been alive.
LEMMA ExitKeeps ==
  ASSUME IInv, NEW r \in Run, Exit(r)
  PROVE  IInv'
<1>1. TypeOK'
  BY DEF Exit, run, claims, tree, instances, IInv, TypeOK
<1>2. RowsAreAdmitted'
  BY DEF Exit, run, claims, tree, instances, IInv, TypeOK, RowsAreAdmitted
<1>3. DriversBeat'
  BY DEF Exit, run, claims, tree, instances, IInv, TypeOK, DriversBeat
<1>4. PhaseOfDrive'
  BY DEF Exit, run, claims, tree, instances, IInv, TypeOK, PhaseOfDrive
<1>5. Quiet'
  BY DEF Exit, run, claims, tree, instances, IInv, TypeOK, Quiet, Writing, Poisoned
<1>6. EndedIsQuiet'
  BY DEF Exit, run, claims, tree, instances, IInv, TypeOK, EndedIsQuiet, Writing, Poisoned
<1>7. ClaimIsKept'
  BY DEF Exit, run, claims, tree, instances, IInv, TypeOK, ClaimIsKept, Writing, Launching
<1>8. CloserHolds'
  BY DEF Exit, run, claims, tree, instances, IInv, TypeOK, CloserHolds, Writing
<1>9. RedIsAlone'
  BY DEF Exit, run, claims, tree, instances, IInv, TypeOK, RedIsAlone, Writing, Launching
<1> QED BY <1>1, <1>2, <1>3, <1>4, <1>5, <1>6, <1>7, <1>8, <1>9 DEF IInv

\* So had what it left.
LEMMA JobEndsKeeps ==
  ASSUME IInv, NEW r \in Run, JobEnds(r)
  PROVE  IInv'
<1>1. TypeOK'
  BY DEF JobEnds, run, claims, tree, instances, IInv, TypeOK
<1>2. RowsAreAdmitted'
  BY DEF JobEnds, run, claims, tree, instances, IInv, TypeOK, RowsAreAdmitted
<1>3. DriversBeat'
  BY DEF JobEnds, run, claims, tree, instances, IInv, TypeOK, DriversBeat
<1>4. PhaseOfDrive'
  BY DEF JobEnds, run, claims, tree, instances, IInv, TypeOK, PhaseOfDrive
<1>5. Quiet'
  BY DEF JobEnds, run, claims, tree, instances, IInv, TypeOK, Quiet, Writing, Poisoned
<1>6. EndedIsQuiet'
  BY DEF JobEnds, run, claims, tree, instances, IInv, TypeOK, EndedIsQuiet, Writing, Poisoned
<1>7. ClaimIsKept'
  BY DEF JobEnds, run, claims, tree, instances, IInv, TypeOK, ClaimIsKept, Writing, Launching
<1>8. CloserHolds'
  BY DEF JobEnds, run, claims, tree, instances, IInv, TypeOK, CloserHolds, Writing
<1>9. RedIsAlone'
  BY DEF JobEnds, run, claims, tree, instances, IInv, TypeOK, RedIsAlone, Writing, Launching
<1> QED BY <1>1, <1>2, <1>3, <1>4, <1>5, <1>6, <1>7, <1>8, <1>9 DEF IInv

\* The drive sees its child dead.
LEMMA ReapedKeeps ==
  ASSUME IInv, NEW r \in Run, Reaped(r)
  PROVE  IInv'
<1>1. TypeOK'
  BY DEF Reaped, Drives, run, kernel, claims, tree, instances, IInv, TypeOK
<1>2. RowsAreAdmitted'
  BY DEF Reaped, Drives, run, kernel, claims, tree, instances, IInv, TypeOK, RowsAreAdmitted
<1>3. DriversBeat'
  BY DEF Reaped, Drives, run, kernel, claims, tree, instances, IInv, TypeOK, DriversBeat
<1>4. PhaseOfDrive'
  BY DEF Reaped, Drives, run, kernel, claims, tree, instances, IInv, TypeOK, PhaseOfDrive
<1>5. Quiet'
  BY DEF Reaped, Drives, run, kernel, claims, tree, instances, IInv, TypeOK, Quiet, Writing, Poisoned
<1>6. EndedIsQuiet'
  BY DEF Reaped, Drives, run, kernel, claims, tree, instances, IInv, TypeOK, EndedIsQuiet, Writing, Poisoned
<1>7. ClaimIsKept'
  BY DEF Reaped, Drives, run, kernel, claims, tree, instances, IInv, TypeOK, ClaimIsKept, Writing, Launching
<1>8. CloserHolds'
  BY DEF Reaped, Drives, run, kernel, claims, tree, instances, IInv, TypeOK, CloserHolds, Writing
<1>9. RedIsAlone'
  BY DEF Reaped, Drives, run, kernel, claims, tree, instances, IInv, TypeOK, RedIsAlone, Writing, Launching
<1> QED BY <1>1, <1>2, <1>3, <1>4, <1>5, <1>6, <1>7, <1>8, <1>9 DEF IInv

\* The next account starts in an empty slice.
LEMMA NextAccountKeeps ==
  ASSUME IInv, NEW r \in Run, NextAccount(r)
  PROVE  IInv'
<1>1. TypeOK'
  BY DEF NextAccount, Drives, claims, tree, instances, IInv, TypeOK
<1>2. RowsAreAdmitted'
  BY DEF NextAccount, Drives, claims, tree, instances, IInv, TypeOK, RowsAreAdmitted
<1>3. DriversBeat'
  BY DEF NextAccount, Drives, claims, tree, instances, IInv, TypeOK, DriversBeat
<1>4. PhaseOfDrive'
  BY DEF NextAccount, Drives, claims, tree, instances, IInv, TypeOK, PhaseOfDrive
<1>5. Quiet'
  BY DEF NextAccount, Drives, claims, tree, instances, IInv, TypeOK, Quiet, Writing, Poisoned
<1>6. EndedIsQuiet'
  BY DEF NextAccount, Drives, claims, tree, instances, IInv, TypeOK, EndedIsQuiet, Writing, Poisoned
<1>7. ClaimIsKept'
  BY DEF NextAccount, Drives, claims, tree, instances, IInv, TypeOK, ClaimIsKept, Writing, Launching
<1>8. CloserHolds'
  BY DEF NextAccount, Drives, claims, tree, instances, IInv, TypeOK, CloserHolds, Writing
<1>9. RedIsAlone'
  BY DEF NextAccount, Drives, claims, tree, instances, IInv, TypeOK, RedIsAlone, Writing, Launching
<1> QED BY <1>1, <1>2, <1>3, <1>4, <1>5, <1>6, <1>7, <1>8, <1>9 DEF IInv

\* The slice is empty, or the claim poisoned.
LEMMA DrainOwnKeeps ==
  ASSUME IInv, NEW r \in Run, DrainOwn(r)
  PROVE  IInv'
<1>1. /\ pc[r] \in {"exited", "barred"} /\ up[owner[r]] /\ slice[r] # "none"
      /\ UNCHANGED <<phase, owner, ident, head, red, up, row, stale, closer>>
  BY DEF DrainOwn, Drives, run, tree, instances
<1>2. CASE Emptied(r) /\ UNCHANGED claims /\ pc' = [pc EXCEPT ![r] = IF @ = "barred" THEN "gone" ELSE "drained"]
  <2>1. /\ proc' \in [Run -> {"none", "alive", "dead"}] /\ job' \in [Run -> BOOLEAN]
        /\ slice' \in [Run -> {"none", "open", "stopped"}]
        /\ slice'[r] = "stopped" /\ proc'[r] # "alive" /\ (proc'[r] = "none" <=> proc[r] = "none") /\ ~job'[r]
        /\ \A s \in Run \ {r} : slice'[s] = slice[s] /\ proc'[s] = proc[s] /\ job'[s] = job[s]
    BY <1>2, EmptiedIs DEF IInv
  <2>2. /\ claim' = claim /\ generation' = generation
        /\ pc' \in [Run -> {pc[s] : s \in Run} \cup {"gone", "drained"}]
        /\ pc'[r] = IF pc[r] = "barred" THEN "gone" ELSE "drained"
        /\ \A s \in Run \ {r} : pc'[s] = pc[s]
    BY <1>2 DEF claims, IInv, TypeOK
  <2>3. TypeOK'
    BY <1>1, <2>1, <2>2 DEF IInv, TypeOK, Claims
  <2>4. RowsAreAdmitted'
    BY <1>1, <2>1, <2>2 DEF IInv, TypeOK, RowsAreAdmitted
  <2>5. DriversBeat'
    BY <1>1, <2>1, <2>2 DEF IInv, TypeOK, DriversBeat
  <2>6. PhaseOfDrive'
    BY <1>1, <2>1, <2>2 DEF IInv, TypeOK, PhaseOfDrive
  <2>7. Quiet'
    BY <1>1, <2>1, <2>2, SMTT(20) DEF IInv, TypeOK, Quiet, Writing, Poisoned
  <2>8. EndedIsQuiet'
    BY <1>1, <2>1, <2>2 DEF IInv, TypeOK, EndedIsQuiet, Writing, Poisoned
  <2>9. ClaimIsKept'
    BY <1>1, <2>1, <2>2 DEF IInv, TypeOK, ClaimIsKept, Writing, Launching
  <2>10. CloserHolds'
    <3>1. \A s \in Run : Writing(s)' => Writing(s)
      BY <2>1 DEF Writing
    <3>2. pc'[r] \notin {"red", "read", "checked", "spawned"} /\ (pc[r] = "gone" => pc'[r] = "gone")
      BY <1>1, <2>2
    <3> QED BY <1>1, <2>1, <2>2, <3>1, <3>2 DEF IInv, CloserHolds
  <2>11. RedIsAlone'
    BY <1>1, <2>1, <2>2 DEF IInv, TypeOK, RedIsAlone, Writing, Launching
  <2> QED BY <2>3, <2>4, <2>5, <2>6, <2>7, <2>8, <2>9, <2>10, <2>11 DEF IInv
<1>3. CASE /\ Free(owner[r]) /\ PoisonClaim(r) /\ UNCHANGED kernel
           /\ pc' = [pc EXCEPT ![r] = "undrained"]
  <2>1. /\ claim' \in Claims /\ generation' \in Nat /\ generation' >= generation
        /\ generation' = generation => claim' = claim
        /\ claim'.run = claim.run /\ claim'.lease \in {claim.lease, "poisoned"}
        /\ claim.run = r => claim'.lease = "poisoned"
        /\ claim.run # r => claim' = claim
    BY <1>3, PoisonClaimIs DEF IInv
  <2>2. UNCHANGED <<proc, job, slice>> /\ pc' = [pc EXCEPT ![r] = "undrained"]
    BY <1>3 DEF kernel
  <2>3. TypeOK'
    BY <1>1, <2>1, <2>2 DEF IInv, TypeOK, Claims
  <2>4. RowsAreAdmitted'
    BY <1>1, <2>1, <2>2 DEF IInv, TypeOK, RowsAreAdmitted
  <2>5. DriversBeat'
    BY <1>1, <2>1, <2>2 DEF IInv, TypeOK, DriversBeat
  <2>6. PhaseOfDrive'
    BY <1>1, <2>1, <2>2 DEF IInv, TypeOK, PhaseOfDrive
  <2>7. Quiet'
    BY <1>1, <2>1, <2>2 DEF IInv, TypeOK, Quiet, Writing, Poisoned, ClaimIsKept
  <2>8. EndedIsQuiet'
    BY <1>1, <2>1, <2>2 DEF IInv, TypeOK, EndedIsQuiet, Writing, Poisoned
  <2>9. ClaimIsKept'
    BY <1>1, <2>1, <2>2, ConstantsAssumption DEF IInv, TypeOK, ClaimIsKept, Writing, Launching
  <2>10. CloserHolds'
    BY <1>1, <2>1, <2>2 DEF IInv, TypeOK, CloserHolds, Writing
  <2>11. RedIsAlone'
    BY <1>1, <2>1, <2>2 DEF IInv, TypeOK, RedIsAlone, Writing, Launching
  <2> QED BY <2>3, <2>4, <2>5, <2>6, <2>7, <2>8, <2>9, <2>10, <2>11 DEF IInv
<1> QED BY <1>1, <1>2, <1>3 DEF DrainOwn

\* A claim is given up with the slice empty.
LEMMA GiveUpKeeps ==
  ASSUME IInv, NEW r \in Run, GiveUp(r)
  PROVE  IInv'
<1>1. /\ pc[r] = "drained" /\ claim.run = r /\ pc' = [pc EXCEPT ![r] = "undrained"]
      /\ claim' \in Claims /\ claim'.run = Nobody /\ claim'.lease = "lapsed"
      /\ generation' \in Nat /\ generation' > generation
      /\ UNCHANGED <<phase, owner, ident, proc, job, slice, head, red, up, row, stale, closer>>
  <2>1. DropClaimIf(TRUE) /\ TypeOK
    BY DEF GiveUp, IInv
  <2>2. generation' = generation + 1
    BY DEF GiveUp, DropClaimIf
  <2>3. claim' \in Claims /\ claim'.run = Nobody /\ claim'.lease = "lapsed"
    BY <2>1, DropClaimIs
  <2> QED BY <2>1, <2>2, <2>3 DEF GiveUp, Drives, TypeOK, run, kernel, tree, instances
<1>2. \A s \in Run : ~Writing(s) /\ (Launching(s) => s = r)
  BY <1>1 DEF IInv, Quiet, ClaimIsKept
<1>3. TypeOK'
  BY <1>1 DEF IInv, TypeOK, Claims
<1>4. RowsAreAdmitted'
  BY <1>1 DEF IInv, TypeOK, RowsAreAdmitted
<1>5. DriversBeat'
  BY <1>1 DEF IInv, TypeOK, DriversBeat
<1>6. PhaseOfDrive'
  BY <1>1 DEF IInv, TypeOK, PhaseOfDrive
<1>7. Quiet'
  BY <1>1, <1>2 DEF IInv, TypeOK, Quiet, Writing, Poisoned
<1>8. EndedIsQuiet'
  BY <1>1, <1>2 DEF IInv, TypeOK, EndedIsQuiet, Writing, Poisoned
<1>9. ClaimIsKept'
  BY <1>1, <1>2, ConstantsAssumption DEF IInv, TypeOK, ClaimIsKept, Writing, Launching
<1>10. CloserHolds'
  BY <1>1 DEF IInv, TypeOK, CloserHolds, Writing
<1>11. RedIsAlone'
  BY <1>1 DEF IInv, TypeOK, RedIsAlone, Writing, Launching
<1> QED BY <1>3, <1>4, <1>5, <1>6, <1>7, <1>8, <1>9, <1>10, <1>11 DEF IInv

\* The first end wins, and drops no poisoned claim.
LEMMA FinishKeeps ==
  ASSUME IInv, NEW r \in Run, NEW p \in {"completed", "failed"}, Finish(r, p)
  PROVE  IInv'
<1>1. /\ pc[r] \in {"drained", "undrained"} /\ (p = "completed" => pc[r] = "drained")
      /\ pc' = [pc EXCEPT ![r] = "gone"]
      /\ UNCHANGED <<owner, ident, proc, job, slice, head, red, up, row, stale, closer>>
  BY DEF Finish, kernel, tree, instances
<1>2. CASE phase[r] \in Ended
  <2>1. UNCHANGED <<phase, claim, generation>>
    BY <1>2 DEF Finish, claims
  <2>2. TypeOK'
    BY <1>1, <1>2, <2>1 DEF IInv, TypeOK, Claims
  <2>3. RowsAreAdmitted'
    BY <1>1, <1>2, <2>1 DEF IInv, TypeOK, RowsAreAdmitted
  <2>4. DriversBeat'
    BY <1>1, <1>2, <2>1 DEF IInv, TypeOK, DriversBeat
  <2>5. PhaseOfDrive'
    BY <1>1, <1>2, <2>1 DEF IInv, TypeOK, PhaseOfDrive
  <2>6. Quiet'
    BY <1>1, <1>2, <2>1 DEF IInv, TypeOK, Quiet, Writing, Poisoned
  <2>7. EndedIsQuiet'
    BY <1>1, <1>2, <2>1 DEF IInv, TypeOK, EndedIsQuiet, Writing, Poisoned
  <2>8. ClaimIsKept'
    BY <1>1, <1>2, <2>1 DEF IInv, TypeOK, ClaimIsKept, Writing, Launching
  <2>9. CloserHolds'
    BY <1>1, <1>2, <2>1 DEF IInv, TypeOK, CloserHolds, Writing
  <2>10. RedIsAlone'
    BY <1>1, <1>2, <2>1 DEF IInv, TypeOK, RedIsAlone, Writing, Launching
  <2> QED BY <2>2, <2>3, <2>4, <2>5, <2>6, <2>7, <2>8, <2>9, <2>10 DEF IInv
<1>3. CASE phase[r] \notin Ended
  <2> DEFINE gone == p = "failed" /\ claim.run = r /\ ~Poisoned(r)
  <2>1. phase' = [phase EXCEPT ![r] = p] /\ DropClaimIf(gone) /\ gone \in BOOLEAN /\ TypeOK
    BY <1>3 DEF Finish, DropsClaim, IInv
  <2>2. /\ claim' \in Claims /\ generation' \in Nat /\ generation' >= generation
        /\ generation' = generation => claim' = claim
        /\ gone => claim'.run = Nobody /\ claim'.lease = "lapsed"
        /\ ~gone => claim' = claim
    BY <2>1, DropClaimIs
  <2>3. phase' = [phase EXCEPT ![r] = p]
    BY <2>1
  <2>4. ~Writing(r) \/ (Poisoned(r) /\ p = "failed")
    BY <1>1 DEF IInv, Quiet
  <2>5. pc[r] # "idle" /\ phase[r] # "none"
    BY <1>1 DEF IInv, RowsAreAdmitted
  <2>6. TypeOK'
    BY <1>1, <2>2, <2>3, <2>4, <2>5 DEF IInv, TypeOK, Claims
  <2>7. RowsAreAdmitted'
    BY <1>1, <2>2, <2>3, <2>4, <2>5 DEF IInv, TypeOK, RowsAreAdmitted
  <2>8. DriversBeat'
    BY <1>1, <2>2, <2>3, <2>4, <2>5 DEF IInv, TypeOK, DriversBeat
  <2>9. PhaseOfDrive'
    <3>1. p = "completed" => pc[r] = "drained" /\ proc[r] # "none" /\ phase[r] # "closed"
      BY <1>3 DEF Finish
    <3>2. p = "completed" => ident[r] # "null"
      BY <3>1 DEF IInv, PhaseOfDrive
    <3> QED BY <1>1, <2>2, <2>3, <2>5, <3>2 DEF IInv, TypeOK, PhaseOfDrive
  <2>10. Quiet'
    BY <1>1, <2>2, <2>3, <2>4, <2>5 DEF IInv, TypeOK, Quiet, Writing, Poisoned
  <2>11. EndedIsQuiet'
    BY <1>1, <2>2, <2>3, <2>4, <2>5 DEF IInv, TypeOK, EndedIsQuiet, Writing, Poisoned
  <2>12. ClaimIsKept'
    <3>1. claim'.run = Nobody \/ (claim' = claim /\ (p = "failed" /\ claim.run = r => claim.lease = "poisoned"))
      BY <2>2 DEF Poisoned
    <3> QED BY <1>1, <2>2, <2>3, <2>4, <2>5, <3>1, ConstantsAssumption
            DEF IInv, TypeOK, ClaimIsKept, Writing, Launching
  <2>13. CloserHolds'
    <3>1. \A s \in Run : (pc'[s] = pc[s] \/ pc'[s] = "gone") /\ (phase'[s] = "none" => phase[s] = "none")
      BY <1>1, <2>3 DEF IInv, TypeOK
    <3> QED BY <1>1, <3>1 DEF IInv, CloserHolds, Writing
  <2>14. RedIsAlone'
    BY <1>1, <2>2, <2>3, <2>4, <2>5 DEF IInv, TypeOK, RedIsAlone, Writing, Launching
  <2> QED BY <2>6, <2>7, <2>8, <2>9, <2>10, <2>11, <2>12, <2>13, <2>14 DEF IInv
<1> QED BY <1>2, <1>3

\* Only who writes moves HEAD.
LEMMA CommitKeeps ==
  ASSUME IInv, NEW r \in Run, Commit(r)
  PROVE  IInv'
<1>1. TypeOK'
  BY DEF Commit, run, kernel, claims, instances, IInv, TypeOK
<1>2. RowsAreAdmitted'
  BY DEF Commit, run, kernel, claims, instances, IInv, TypeOK, RowsAreAdmitted
<1>3. DriversBeat'
  BY DEF Commit, run, kernel, claims, instances, IInv, TypeOK, DriversBeat
<1>4. PhaseOfDrive'
  BY DEF Commit, run, kernel, claims, instances, IInv, TypeOK, PhaseOfDrive
<1>5. Quiet'
  BY DEF Commit, run, kernel, claims, instances, IInv, TypeOK, Quiet, Writing, Poisoned
<1>6. EndedIsQuiet'
  BY DEF Commit, run, kernel, claims, instances, IInv, TypeOK, EndedIsQuiet, Writing, Poisoned
<1>7. ClaimIsKept'
  BY DEF Commit, run, kernel, claims, instances, IInv, TypeOK, ClaimIsKept, Writing, Launching
<1>8. CloserHolds'
  BY DEF Commit, run, kernel, claims, instances, IInv, TypeOK, CloserHolds, Writing
<1>9. RedIsAlone'
  BY DEF Commit, run, kernel, claims, instances, IInv, TypeOK, RedIsAlone, Writing, Launching
<1> QED BY <1>1, <1>2, <1>3, <1>4, <1>5, <1>6, <1>7, <1>8, <1>9 DEF IInv

\* What crashes leaves its rows and its children.
LEMMA CrashKeeps ==
  ASSUME IInv, NEW i \in Inst, Crash(i)
  PROVE  IInv'
<1>1. /\ up' = [up EXCEPT ![i] = FALSE] /\ closer' = [closer EXCEPT ![i] = Idle]
      /\ \A s \in Run : /\ owner[s] # i \/ pc[s] = "idle" => pc'[s] = pc[s]
                        /\ owner[s] = i /\ pc[s] # "idle" /\ phase[s] = "none" => pc'[s] = "idle"
                        /\ owner[s] = i /\ pc[s] # "idle" /\ phase[s] # "none" => pc'[s] = "gone"
                        /\ owner'[s] = IF owner[s] = i /\ phase[s] = "none" THEN Nobody ELSE owner[s]
                        /\ red'[s] = IF owner[s] = i THEN NoRed ELSE red[s]
      /\ UNCHANGED <<phase, ident, proc, job, slice, claim, generation, head, row, stale>>
  BY DEF Crash, Abandoned, kernel, claims
<1>2. /\ closer' \in [Inst -> {closer[j] : j \in Inst} \cup {Idle}]
      /\ owner' \in [Run -> Inst \cup {Nobody}]
      /\ pc' \in [Run -> {pc[s] : s \in Run} \cup {"idle", "gone"}]
      /\ red' \in [Run -> {red[s] : s \in Run} \cup {NoRed}]
  BY DEF Crash, Abandoned, IInv, TypeOK
<1>3. TypeOK'
  BY <1>1, <1>2 DEF IInv, TypeOK, Claims, NoRed
<1>4. RowsAreAdmitted'
  BY <1>1 DEF IInv, TypeOK, RowsAreAdmitted
<1>5. DriversBeat'
  BY <1>1 DEF IInv, TypeOK, DriversBeat
<1>6. PhaseOfDrive'
  BY <1>1 DEF IInv, TypeOK, PhaseOfDrive
<1>7. Quiet'
  BY <1>1 DEF IInv, TypeOK, Quiet, Writing, Poisoned, RowsAreAdmitted
<1>8. EndedIsQuiet'
  BY <1>1 DEF IInv, TypeOK, EndedIsQuiet, Writing, Poisoned
<1>9. ClaimIsKept'
  BY <1>1 DEF IInv, TypeOK, ClaimIsKept, Writing, Launching
<1>10. CloserHolds'
  <2>1. /\ closer'[i] = Idle
        /\ \A j \in Inst \ {i} : closer'[j] = closer[j] /\ up'[j] = up[j]
    BY <1>1 DEF IInv, TypeOK
  <2>2. \A j \in Inst \ {i}, s \in Run : owner'[s] = j => owner[s] = j /\ pc'[s] = pc[s]
    BY <1>1, ConstantsAssumption
  <2>3. \A s \in Run : phase[s] # "none" => owner'[s] = owner[s] /\ (pc[s] = "gone" => pc'[s] = "gone")
    BY <1>1
  <2> QED BY <1>1, <2>1, <2>2, <2>3 DEF IInv, CloserHolds, Writing
<1>11. RedIsAlone'
  <2>1. \A s \in Run : pc'[s] \in {"red", "read"} => pc'[s] = pc[s] /\ red'[s] = red[s]
    BY <1>1 DEF IInv, RowsAreAdmitted
  <2>2. \A s \in Run : Launching(s)' => Launching(s)
    BY <1>1 DEF Launching
  <2> QED BY <1>1, <2>1, <2>2 DEF IInv, RedIsAlone, Writing
<1> QED BY <1>3, <1>4, <1>5, <1>6, <1>7, <1>8, <1>9, <1>10, <1>11 DEF IInv

\* What leaves stops what it can.
LEMMA LeaveKeeps ==
  ASSUME IInv, NEW i \in Inst, Leave(i)
  PROVE  IInv'
<1>1. /\ up[i] /\ closer[i].step = "idle"
      /\ up' = [up EXCEPT ![i] = FALSE] /\ closer' = [closer EXCEPT ![i] = Idle]
      /\ row' = [row EXCEPT ![i] = FALSE]
      /\ \A s \in Run : /\ owner[s] # i \/ pc[s] = "idle" => pc'[s] = pc[s]
                        /\ owner[s] = i /\ pc[s] # "idle" /\ phase[s] = "none" => pc'[s] = "idle"
                        /\ owner[s] = i /\ pc[s] # "idle" /\ phase[s] # "none" => pc'[s] = "gone"
                        /\ owner'[s] = IF owner[s] = i /\ phase[s] = "none" THEN Nobody ELSE owner[s]
                        /\ red'[s] = IF owner[s] = i THEN NoRed ELSE red[s]
      /\ UNCHANGED <<phase, ident, claim, generation, head, stale>>
  BY DEF Leave, Abandoned, claims
<1>2. /\ closer' \in [Inst -> {closer[j] : j \in Inst} \cup {Idle}]
      /\ owner' \in [Run -> Inst \cup {Nobody}]
      /\ pc' \in [Run -> {pc[s] : s \in Run} \cup {"idle", "gone"}]
      /\ red' \in [Run -> {red[s] : s \in Run} \cup {NoRed}]
  BY DEF Leave, Abandoned, IInv, TypeOK
<1>3. /\ proc' \in [Run -> {"none", "alive", "dead"}] /\ job' \in [Run -> BOOLEAN]
      /\ slice' \in [Run -> {"none", "open", "stopped"}]
      /\ \A s \in Run : /\ proc'[s] = proc[s] \/ (proc[s] = "alive" /\ proc'[s] = "dead")
                        /\ job'[s] => job[s]
                        /\ slice'[s] = slice[s] \/ (slice[s] # "none" /\ slice'[s] = "stopped")
  BY DEF Leave, IInv, TypeOK
<1>4. \A s \in Run : Writing(s)' => Writing(s)
  BY <1>3 DEF Writing, IInv, TypeOK
<1>5. TypeOK'
  BY <1>1, <1>2, <1>3 DEF IInv, TypeOK, Claims, NoRed
<1>6. RowsAreAdmitted'
  BY <1>1 DEF IInv, TypeOK, RowsAreAdmitted
<1>7. DriversBeat'
  BY <1>1 DEF IInv, TypeOK, DriversBeat
<1>8. PhaseOfDrive'
  BY <1>1, <1>3 DEF IInv, TypeOK, PhaseOfDrive
<1>9. Quiet'
  <2>1. \A s \in Run : pc'[s] = pc[s] \/ pc'[s] = "gone" \/ (pc'[s] = "idle" /\ pc[s] \in {"idle", "red", "read"})
    BY <1>1 DEF IInv, RowsAreAdmitted
  <2> QED BY <1>1, <1>3, <1>4, <2>1 DEF IInv, TypeOK, Quiet, Poisoned
<1>10. EndedIsQuiet'
  BY <1>1, <1>4 DEF IInv, EndedIsQuiet, Poisoned
<1>11. ClaimIsKept'
  <2>1. \A s \in Run : Launching(s)' => Launching(s)
    BY <1>1 DEF Launching
  <2> QED BY <1>1, <1>4, <2>1 DEF IInv, ClaimIsKept
<1>12. CloserHolds'
  <2>1. /\ closer'[i] = Idle
        /\ \A j \in Inst \ {i} : closer'[j] = closer[j] /\ up'[j] = up[j]
    BY <1>1 DEF IInv, TypeOK
  <2>2. \A j \in Inst \ {i}, s \in Run : owner'[s] = j => owner[s] = j /\ pc'[s] = pc[s]
    BY <1>1, ConstantsAssumption
  <2>3. \A s \in Run : phase[s] # "none" => owner'[s] = owner[s] /\ (pc[s] = "gone" => pc'[s] = "gone")
    BY <1>1
  <2> QED BY <1>1, <1>3, <1>4, <2>1, <2>2, <2>3 DEF IInv, CloserHolds
<1>13. RedIsAlone'
  <2>1. \A s \in Run : pc'[s] \in {"red", "read"} => pc'[s] = pc[s] /\ red'[s] = red[s]
    BY <1>1 DEF IInv, RowsAreAdmitted
  <2>2. \A s \in Run : Launching(s)' => Launching(s)
    BY <1>1 DEF Launching
  <2> QED BY <1>1, <1>4, <2>1, <2>2 DEF IInv, RedIsAlone
<1> QED BY <1>5, <1>6, <1>7, <1>8, <1>9, <1>10, <1>11, <1>12, <1>13 DEF IInv

\* Only the dead go stale.
LEMMA GoStaleKeeps ==
  ASSUME IInv, ~SlowLaunch, NEW i \in Inst, GoStale(i)
  PROVE  IInv'
<1>1. TypeOK'
  BY DEF GoStale, run, kernel, claims, tree, IInv, TypeOK
<1>2. RowsAreAdmitted'
  BY DEF GoStale, run, kernel, claims, tree, IInv, TypeOK, RowsAreAdmitted
<1>3. DriversBeat'
  BY DEF GoStale, run, kernel, claims, tree, IInv, TypeOK, DriversBeat
<1>4. PhaseOfDrive'
  BY DEF GoStale, run, kernel, claims, tree, IInv, TypeOK, PhaseOfDrive
<1>5. Quiet'
  BY DEF GoStale, run, kernel, claims, tree, IInv, TypeOK, Quiet, Writing, Poisoned
<1>6. EndedIsQuiet'
  BY DEF GoStale, run, kernel, claims, tree, IInv, TypeOK, EndedIsQuiet, Writing, Poisoned
<1>7. ClaimIsKept'
  BY DEF GoStale, run, kernel, claims, tree, IInv, TypeOK, ClaimIsKept, Writing, Launching
<1>8. CloserHolds'
  BY DEF GoStale, run, kernel, claims, tree, IInv, TypeOK, CloserHolds, Writing
<1>9. RedIsAlone'
  BY DEF GoStale, run, kernel, claims, tree, IInv, TypeOK, RedIsAlone, Writing, Launching
<1> QED BY <1>1, <1>2, <1>3, <1>4, <1>5, <1>6, <1>7, <1>8, <1>9 DEF IInv

\* A sweep orphans only the runs of the dead, and keeps the claim of what may write.
LEMMA TickKeeps ==
  ASSUME IInv, NEW i \in Inst, Tick(i)
  PROVE  IInv'
<1> DEFINE orphaned == {r \in Run : phase[r] \in Live /\ owner[r] # i /\ ~row'[owner[r]]}
<1>1. /\ up[i] /\ stale' = [stale EXCEPT ![i] = FALSE]
      /\ row' = [j \in Inst |-> (j = i) \/ (row[j] /\ j \notin Lost(i))]
      /\ phase' = [r \in Run |-> IF r \in orphaned THEN "orphaned" ELSE phase[r]]
      /\ UNCHANGED <<owner, ident, proc, job, slice, head, red, pc, up, closer>>
  BY DEF Tick, kernel, tree
<1>2. \A j \in Inst : up[j] => row'[j]
  BY <1>1 DEF Lost, IInv, DriversBeat
<1>3. \A r \in orphaned : pc[r] = "gone"
  <2> TAKE r \in orphaned
  <2>1. pc[r] # "idle" /\ owner[r] \in Inst
    BY DEF IInv, RowsAreAdmitted
  <2>2. ~up[owner[r]]
    BY <1>2, <2>1
  <2> QED BY <2>1, <2>2 DEF IInv, DriversBeat
<1> HIDE DEF orphaned
<1>4. /\ claim' \in Claims /\ generation' \in Nat /\ generation' >= generation
      /\ generation' = generation => claim' = claim
      /\ \/ claim' = claim
         \/ claim.run # Nobody /\ claim'.run = claim.run /\ claim'.lease = "poisoned"
         \/ /\ claim'.run = Nobody /\ claim'.lease = "lapsed" /\ ~Held
            /\ claim.lease # "poisoned"
  <2> DEFINE c == claim.run
             dropped == c # Nobody /\ claim.lease = "lapsed" /\ ~(Custody(c) \/ c \in orphaned)
  <2>1. CASE c # Nobody /\ PoisonClaim(c)
    <3>1. c \in Run /\ TypeOK
      BY <2>1 DEF IInv, TypeOK
    <3> QED BY <2>1, <3>1, PoisonClaimIs
  <2>2. CASE DropClaimIf(dropped)
    <3>1. dropped \in BOOLEAN /\ TypeOK
      BY DEF IInv
    <3>2. dropped => ~Held /\ claim.lease # "poisoned"
      BY DEF Held
    <3> HIDE DEF dropped
    <3> QED BY <2>2, <3>1, <3>2, DropClaimIs
  <2> QED BY <2>1, <2>2 DEF Tick, orphaned
<1>5. \A r \in Run : Writing(r)' = Writing(r) /\ (Launching(r)' => Launching(r))
  BY <1>1, <1>3 DEF Writing, Launching, IInv, TypeOK
<1>6. TypeOK'
  <2>1. phase' \in [Run -> Phases] /\ row' \in [Inst -> BOOLEAN] /\ stale' \in [Inst -> BOOLEAN]
    BY <1>1 DEF IInv, TypeOK
  <2> QED BY <1>1, <1>4, <2>1 DEF IInv, TypeOK, Claims
<1>7. RowsAreAdmitted'
  BY <1>1, <1>3 DEF IInv, TypeOK, RowsAreAdmitted
<1>8. DriversBeat'
  BY <1>1, <1>2 DEF IInv, TypeOK, DriversBeat
<1>9. PhaseOfDrive'
  BY <1>1, <1>3 DEF IInv, TypeOK, PhaseOfDrive
<1>10. Quiet'
  <2>1. \A r \in Run : Poisoned(r) => Poisoned(r)'
    BY <1>4 DEF Poisoned
  <2> QED BY <1>1, <1>5, <2>1 DEF IInv, Quiet
<1>11. EndedIsQuiet'
  <2>1. \A r \in Run : Poisoned(r) => Poisoned(r)'
    BY <1>4 DEF Poisoned
  <2> QED BY <1>1, <1>5, <2>1 DEF IInv, EndedIsQuiet, TypeOK
<1>12. ClaimIsKept'
  <2>1. claim'.run = claim.run \/ \A r \in Run : ~Launching(r) /\ ~Writing(r)
    BY <1>4, WritersHold
  <2>2. claim'.run \in {claim.run, Nobody} /\ (claim'.run = Nobody => claim'.lease = "lapsed")
    BY <1>4 DEF IInv, ClaimIsKept
  <2>3. \A r \in Run : phase'[r] = "none" => phase[r] = "none"
    BY <1>1
  <2>4. \A r \in Run : phase'[r] \in {"spawning", "failed", "closed"} => phase'[r] = phase[r]
    BY <1>1
  <2>5. claim'.run # Nobody => claim'.run \in Run /\ claim'.lease \in {claim.lease, "poisoned"}
    BY <1>4 DEF Claims
  <2> QED BY <1>5, <2>1, <2>2, <2>3, <2>4, <2>5 DEF IInv, ClaimIsKept
<1>13. CloserHolds'
  <2>1. \A r \in Run : phase'[r] = "none" => phase[r] = "none"
    BY <1>1
  <2> QED BY <1>1, <1>5, <2>1 DEF IInv, CloserHolds
<1>14. RedIsAlone'
  BY <1>1, <1>4, <1>5 DEF IInv, TypeOK, RedIsAlone
<1> QED BY <1>6, <1>7, <1>8, <1>9, <1>10, <1>11, <1>12, <1>13, <1>14 DEF IInv

\* A close empties the slice under the lock.
LEMMA StartCloseKeeps ==
  ASSUME IInv, NEW i \in Inst, NEW r \in Run, StartClose(i, r)
  PROVE  IInv'
<1>1. /\ up[i] /\ phase[r] # "none" /\ closer[i].step = "idle"
      /\ \A s \in Run : owner[s] = i => pc[s] \notin {"red", "read", "checked", "spawned"}
      /\ closer' = [closer EXCEPT ![i] = [Idle EXCEPT !.run = r, !.step = "drained", !.drained = slice[r] # "none"]]
      /\ UNCHANGED <<phase, owner, ident, claim, generation, head, red, pc, up, row, stale>>
  BY DEF StartClose, Drain, run, claims, tree, instances
<1>2. owner[r] = i \/ pc[r] = "gone"
  BY <1>1 DEF StartClose, ClosesLocally, IInv, RowsAreAdmitted, DriversBeat
<1>3. /\ proc' \in [Run -> {"none", "alive", "dead"}] /\ job' \in [Run -> BOOLEAN]
      /\ slice' \in [Run -> {"none", "open", "stopped"}]
      /\ \A s \in Run \ {r} : slice'[s] = slice[s] /\ proc'[s] = proc[s] /\ job'[s] = job[s]
      /\ slice[r] = "none" => slice'[r] = slice[r] /\ proc'[r] = proc[r] /\ job'[r] = job[r]
      /\ slice[r] # "none" => slice'[r] = "stopped" /\ proc'[r] # "alive" /\ ~job'[r]
      /\ proc'[r] = "none" <=> proc[r] = "none"
  <2>1. CASE slice[r] = "none"
    BY <2>1 DEF StartClose, Drain, kernel, IInv, TypeOK
  <2>2. CASE slice[r] # "none"
    <3>1. Emptied(r) /\ TypeOK
      BY <2>2 DEF StartClose, Drain, IInv
    <3> QED BY <2>2, <3>1, EmptiedIs
  <2> QED BY <2>1, <2>2
<1>4. ~Writing(r)' /\ \A s \in Run : (Writing(s)' => Writing(s))
  BY <1>3 DEF Writing, IInv, Quiet
<1>5. TypeOK'
  <2>1. [Idle EXCEPT !.run = r, !.step = "drained", !.drained = slice[r] # "none"]
          \in [run : Run \cup {Nobody}, step : {"idle", "drained", "proved"}, drained : BOOLEAN,
               phase : Phases, expected : {"null", "old", "cur"}]
    OBVIOUS
  <2>2. closer' \in [Inst -> [run : Run \cup {Nobody}, step : {"idle", "drained", "proved"}, drained : BOOLEAN,
                              phase : Phases, expected : {"null", "old", "cur"}]]
    BY <1>1, <2>1 DEF IInv, TypeOK
  <2> QED BY <1>1, <1>3, <2>2 DEF IInv, TypeOK
<1>6. RowsAreAdmitted'
  BY <1>1 DEF IInv, TypeOK, RowsAreAdmitted
<1>7. DriversBeat'
  BY <1>1 DEF IInv, TypeOK, DriversBeat
<1>8. PhaseOfDrive'
  BY <1>1, <1>3 DEF IInv, TypeOK, PhaseOfDrive
<1>9. Quiet'
  BY <1>1, <1>3, <1>4 DEF IInv, Quiet, Poisoned
<1>10. EndedIsQuiet'
  BY <1>1, <1>4 DEF IInv, EndedIsQuiet, Poisoned
<1>11. ClaimIsKept'
  BY <1>1, <1>4 DEF IInv, ClaimIsKept, Launching
<1>12. CloserHolds'
  <2>1. /\ closer'[i] = [Idle EXCEPT !.run = r, !.step = "drained", !.drained = slice[r] # "none"]
        /\ \A j \in Inst \ {i} : closer'[j] = closer[j]
    BY <1>1 DEF IInv, TypeOK
  <2>2. closer'[i].run = r /\ (closer'[i].drained <=> slice[r] # "none")
    BY <2>1
  <2> QED BY <1>1, <1>2, <1>3, <1>4, <2>1, <2>2 DEF IInv, CloserHolds
<1>13. RedIsAlone'
  BY <1>1, <1>4 DEF IInv, RedIsAlone, Launching
<1> QED BY <1>5, <1>6, <1>7, <1>8, <1>9, <1>10, <1>11, <1>12, <1>13 DEF IInv

\* Of a run that is closed, only the claim is left to go.
LEMMA FinishClosedKeeps ==
  ASSUME IInv, NEW i \in Inst, NEW r \in Run, NEW drained \in BOOLEAN, phase[r] = "closed",
         FinishClosed(i, r, drained), UNCHANGED <<run, kernel, tree, pc, instances>>
  PROVE  IInv'
<1> DEFINE gone == Releases(i, r, drained) /\ (drained \/ ~Poisoned(r))
<1>1. /\ closer' = [closer EXCEPT ![i] = Idle]
      /\ UNCHANGED <<phase, owner, ident, proc, job, slice, head, red, pc, up, row, stale>>
  BY DEF FinishClosed, run, kernel, tree, instances
<1>2. /\ claim' \in Claims /\ generation' \in Nat /\ generation' >= generation
      /\ generation' = generation => claim' = claim
      /\ claim' = claim \/ (claim.run = r /\ claim'.run = Nobody /\ claim'.lease = "lapsed")
  <2>1. DropClaimIf(gone) /\ TypeOK /\ gone \in BOOLEAN
    BY DEF FinishClosed, IInv, Releases
  <2>2. gone => claim.run = r
    BY DEF Releases
  <2> HIDE DEF gone
  <2> QED BY <2>1, <2>2, DropClaimIs
<1>3. ~Writing(r) /\ ~Launching(r)
  BY DEF IInv, EndedIsQuiet, Launching
<1>4. closer' \in [Inst -> {closer[j] : j \in Inst} \cup {Idle}] /\ closer'[i] = Idle
      /\ \A j \in Inst \ {i} : closer'[j] = closer[j]
  BY <1>1 DEF IInv, TypeOK
<1>5. TypeOK'
  BY <1>1, <1>2, <1>4 DEF IInv, TypeOK, Claims
<1>6. RowsAreAdmitted'
  BY <1>1 DEF IInv, TypeOK, RowsAreAdmitted
<1>7. DriversBeat'
  BY <1>1 DEF IInv, TypeOK, DriversBeat
<1>8. PhaseOfDrive'
  BY <1>1 DEF IInv, TypeOK, PhaseOfDrive
<1>9. Quiet'
  <2>1. \A s \in Run : Writing(s)' = Writing(s) /\ (Poisoned(s) /\ s # r => Poisoned(s)')
    BY <1>1, <1>2 DEF Writing, Poisoned
  <2> QED BY <1>1, <1>3, <2>1 DEF IInv, Quiet
<1>10. EndedIsQuiet'
  <2>1. \A s \in Run : Writing(s)' = Writing(s) /\ (Poisoned(s) /\ s # r => Poisoned(s)')
    BY <1>1, <1>2 DEF Writing, Poisoned
  <2> QED BY <1>1, <1>3, <2>1 DEF IInv, EndedIsQuiet
<1>11. ClaimIsKept'
  <2>1. \A s \in Run : Writing(s)' = Writing(s) /\ Launching(s)' = Launching(s)
    BY <1>1 DEF Writing, Launching
  <2> QED BY <1>1, <1>2, <1>3, <2>1, ConstantsAssumption DEF IInv, ClaimIsKept
<1>12. CloserHolds'
  BY <1>1, <1>4 DEF IInv, CloserHolds, Writing
<1>13. RedIsAlone'
  BY <1>1, <1>2 DEF IInv, TypeOK, RedIsAlone, Writing, Launching
<1> QED BY <1>5, <1>6, <1>7, <1>8, <1>9, <1>10, <1>11, <1>12, <1>13 DEF IInv

\* The process is proved dead: it was, since the slice was emptied.
LEMMA ProveKeeps ==
  ASSUME IInv, NEW i \in Inst, Prove(i)
  PROVE  IInv'
<1> DEFINE r == closer[i].run
<1>1. /\ r \in Run /\ ~Writing(r) /\ closer[i].step = "drained" /\ closer[i].drained \in BOOLEAN
      /\ UNCHANGED <<run, job, slice, tree, pc, instances>>
  BY DEF Prove, IInv, TypeOK, CloserHolds
<1>2. CASE phase[r] = "closed"
  <2>1. FinishClosed(i, r, closer[i].drained) /\ UNCHANGED kernel
    BY <1>1, <1>2 DEF Prove, kernel
  <2> QED BY <1>1, <1>2, <2>1, FinishClosedKeeps
<1>3. CASE phase[r] # "closed"
  <2>1. proc' = proc
    BY <1>1, <1>3 DEF Prove, Writing, IInv, TypeOK
  <2>2. /\ closer' = [closer EXCEPT ![i].step = "proved", ![i].phase = phase[r], ![i].expected = Expected(i, r)]
        /\ UNCHANGED <<phase, owner, ident, proc, job, slice, claim, generation, head, red, pc, up, row, stale>>
    BY <1>1, <1>3, <2>1 DEF Prove, run, claims, tree, instances
  <2>3. /\ closer' \in [Inst -> [run : Run \cup {Nobody}, step : {"idle", "drained", "proved"}, drained : BOOLEAN,
                                 phase : Phases, expected : {"null", "old", "cur"}]]
        /\ closer'[i].run = r /\ closer'[i].step = "proved" /\ closer'[i].drained = closer[i].drained
        /\ \A j \in Inst \ {i} : closer'[j] = closer[j]
    <3>1. phase[r] \in Phases /\ Expected(i, r) \in {"null", "old", "cur"}
      BY <1>1 DEF IInv, TypeOK, Expected
    <3> HIDE DEF r
    <3>2. closer[i] \in [run : Run \cup {Nobody}, step : {"idle", "drained", "proved"}, drained : BOOLEAN,
                          phase : Phases, expected : {"null", "old", "cur"}]
      BY DEF IInv, TypeOK
    <3>3. closer' = [closer EXCEPT ![i] = [closer[i] EXCEPT !.step = "proved", !.phase = phase[r],
                                                            !.expected = Expected(i, r)]]
      BY <2>2 DEF IInv, TypeOK
    <3>4. [closer[i] EXCEPT !.step = "proved", !.phase = phase[r], !.expected = Expected(i, r)]
            \in [run : Run \cup {Nobody}, step : {"idle", "drained", "proved"}, drained : BOOLEAN,
                 phase : Phases, expected : {"null", "old", "cur"}]
      BY <3>1, <3>2
    <3>5. /\ closer'[i] = [closer[i] EXCEPT !.step = "proved", !.phase = phase[r], !.expected = Expected(i, r)]
          /\ \A j \in Inst \ {i} : closer'[j] = closer[j]
      BY <3>3 DEF IInv, TypeOK
    <3> QED BY <3>2, <3>3, <3>4, <3>5 DEF IInv, TypeOK, r
  <2> HIDE DEF r
  <2>4. CloserHolds'
    BY <1>1, <2>2, <2>3 DEF IInv, CloserHolds, Writing, r
  <2>5. TypeOK'
    BY <2>2, <2>3 DEF IInv, TypeOK
  <2> QED BY <2>2, <2>4, <2>5 DEF IInv, RowsAreAdmitted, DriversBeat, PhaseOfDrive, Quiet, EndedIsQuiet,
          ClaimIsKept, RedIsAlone, Writing, Launching, Poisoned
<1> QED BY <1>2, <1>3

\* A close drops the claim of a run of which nothing is alive.
LEMMA CommitCloseKeeps ==
  ASSUME IInv, NEW i \in Inst, CommitClose(i)
  PROVE  IInv'
<1> DEFINE r == closer[i].run
<1>1. /\ r \in Run /\ ~Writing(r) /\ phase[r] # "none" /\ up[i] /\ closer[i].drained \in BOOLEAN
      /\ pc[r] \notin {"checked", "spawned"}
      /\ UNCHANGED <<owner, kernel, tree, pc, instances>>
  BY DEF CommitClose, IInv, TypeOK, CloserHolds
<1>2. CASE Closes(r, closer[i])
  <2>1. /\ phase' = [phase EXCEPT ![r] = "closed"] /\ ident' = [ident EXCEPT ![r] = "null"]
        /\ DropClaimIf(claim.run = r) /\ closer' = [closer EXCEPT ![i] = Idle]
        /\ UNCHANGED <<owner, proc, job, slice, head, red, pc, up, row, stale>>
    BY <1>1, <1>2 DEF CommitClose, kernel, tree, instances
  <2>2. /\ claim' \in Claims /\ generation' \in Nat /\ generation' >= generation
        /\ generation' = generation => claim' = claim
        /\ claim.run = r => claim'.run = Nobody /\ claim'.lease = "lapsed"
        /\ claim.run # r => claim' = claim
    <3>1. TypeOK /\ (claim.run = r) \in BOOLEAN /\ DropClaimIf(claim.run = r)
      BY <2>1 DEF IInv
    <3> QED BY <3>1, DropClaimIs
  <2>3. closer' \in [Inst -> {closer[j] : j \in Inst} \cup {Idle}] /\ closer'[i] = Idle
        /\ \A j \in Inst \ {i} : closer'[j] = closer[j]
    BY <2>1 DEF IInv, TypeOK
  <2> HIDE DEF r
  <2>4. \A s \in Run : /\ Writing(s)' = Writing(s) /\ (Launching(s)' => Launching(s) /\ s # r)
                       /\ (Poisoned(s) /\ s # r => Poisoned(s)')
                       /\ s # r => phase'[s] = phase[s]
    BY <1>1, <2>1, <2>2 DEF Writing, Launching, Poisoned, IInv, TypeOK
  <2>5. TypeOK'
    <3>1. phase' \in [Run -> Phases] /\ ident' \in [Run -> {"null", "old", "cur"}]
      BY <1>1, <2>1 DEF IInv, TypeOK
    <3> QED BY <2>1, <2>2, <2>3, <3>1 DEF IInv, TypeOK, Claims
  <2>6. RowsAreAdmitted'
    BY <1>1, <2>1 DEF IInv, TypeOK, RowsAreAdmitted
  <2>7. DriversBeat'
    BY <2>1 DEF IInv, DriversBeat
  <2>8. PhaseOfDrive'
    BY <1>1, <2>1 DEF IInv, TypeOK, PhaseOfDrive
  <2>9. Quiet'
    BY <1>1, <2>1, <2>4 DEF IInv, Quiet
  <2>10. EndedIsQuiet'
    BY <1>1, <2>1, <2>4 DEF IInv, EndedIsQuiet
  <2>11. ClaimIsKept'
    BY <1>1, <2>1, <2>2, <2>4, ConstantsAssumption DEF IInv, TypeOK, ClaimIsKept
  <2>12. CloserHolds'
    <3>1. phase'[r] # "none"
      BY <1>1, <2>1 DEF IInv, TypeOK
    <3> QED BY <2>1, <2>3, <2>4, <3>1 DEF IInv, CloserHolds
  <2>13. RedIsAlone'
    BY <2>1, <2>2, <2>4 DEF IInv, TypeOK, RedIsAlone
  <2> QED BY <2>5, <2>6, <2>7, <2>8, <2>9, <2>10, <2>11, <2>12, <2>13 DEF IInv
<1>3. CASE ~Closes(r, closer[i]) /\ phase[r] = "closed" /\ closer[i].expected = "null"
  <2>1. FinishClosed(i, r, closer[i].drained) /\ UNCHANGED run
    BY <1>1, <1>3 DEF CommitClose, run
  <2> QED BY <1>1, <1>3, <2>1, FinishClosedKeeps
<1>4. CASE ~Closes(r, closer[i]) /\ ~(phase[r] = "closed" /\ closer[i].expected = "null")
  <2>1. /\ closer' = [closer EXCEPT ![i] = Idle]
        /\ UNCHANGED <<phase, owner, ident, proc, job, slice, claim, generation, head, red, pc, up, row, stale>>
    BY <1>1, <1>4 DEF CommitClose, kernel, claims, tree, instances
  <2>2. closer' \in [Inst -> {closer[j] : j \in Inst} \cup {Idle}] /\ closer'[i] = Idle
        /\ \A j \in Inst \ {i} : closer'[j] = closer[j]
    BY <2>1 DEF IInv, TypeOK
  <2>3. CloserHolds'
    BY <2>1, <2>2 DEF IInv, CloserHolds, Writing
  <2>4. TypeOK'
    BY <2>1, <2>2 DEF IInv, TypeOK
  <2> QED BY <2>1, <2>3, <2>4 DEF IInv, RowsAreAdmitted, DriversBeat, PhaseOfDrive, Quiet, EndedIsQuiet,
          ClaimIsKept, RedIsAlone, Writing, Launching, Poisoned
<1> QED BY <1>2, <1>3, <1>4

\* Nothing of the run is alive when its poisoned claim goes.
LEMMA ReconcileKeeps ==
  ASSUME IInv, NEW i \in Inst, NEW r \in Run, Reconcile(i, r)
  PROVE  IInv'
<1>1. /\ phase[r] \in Ended /\ ~Writing(r) /\ slice[r] # "none" /\ slice' = [slice EXCEPT ![r] = "stopped"]
      /\ UNCHANGED <<phase, owner, ident, proc, job, head, red, pc, up, row, stale, closer>>
  BY DEF Reconcile, Reconciles, run, tree, instances
<1>2. /\ claim' \in Claims /\ generation' \in Nat /\ generation' >= generation
      /\ generation' = generation => claim' = claim
      /\ Poisoned(r) => claim'.run = Nobody /\ claim'.lease = "lapsed"
      /\ ~Poisoned(r) => claim' = claim
  <2>1. DropClaimIf(Poisoned(r)) /\ Poisoned(r) \in BOOLEAN /\ TypeOK
    BY DEF Reconcile, IInv, Poisoned
  <2> QED BY <2>1, DropClaimIs
<1>3. ~Launching(r)
  BY <1>1 DEF IInv, PhaseOfDrive, Launching
<1>4. TypeOK'
  BY <1>1, <1>2, <1>3 DEF IInv, TypeOK, Claims
<1>5. RowsAreAdmitted'
  BY <1>1, <1>2, <1>3 DEF IInv, TypeOK, RowsAreAdmitted
<1>6. DriversBeat'
  BY <1>1, <1>2, <1>3 DEF IInv, TypeOK, DriversBeat
<1>7. PhaseOfDrive'
  BY <1>1, <1>2, <1>3 DEF IInv, TypeOK, PhaseOfDrive
<1>8. Quiet'
  <2>1. \A s \in Run \ {r} : slice'[s] = slice[s] /\ (Poisoned(s) => Poisoned(s)')
    BY <1>1, <1>2 DEF IInv, TypeOK, Poisoned
  <2>2. slice'[r] = "stopped" /\ ~Writing(r)'
    BY <1>1 DEF IInv, TypeOK, Writing
  <2>3. pc[r] \notin {"idle", "red", "read", "admitted"}
    BY <1>1 DEF IInv, RowsAreAdmitted, Quiet
  <2> QED BY <1>1, <2>1, <2>2, <2>3 DEF IInv, Quiet, Writing
<1>9. EndedIsQuiet'
  BY <1>1, <1>2, <1>3 DEF IInv, TypeOK, EndedIsQuiet, Writing, Poisoned
<1>10. ClaimIsKept'
  BY <1>1, <1>2, <1>3, ConstantsAssumption DEF IInv, TypeOK, ClaimIsKept, Writing, Launching, Poisoned
<1>11. CloserHolds'
  BY <1>1, <1>2, <1>3 DEF IInv, TypeOK, CloserHolds, Writing
<1>12. RedIsAlone'
  BY <1>1, <1>2, <1>3 DEF IInv, TypeOK, RedIsAlone, Writing, Launching
<1> QED BY <1>4, <1>5, <1>6, <1>7, <1>8, <1>9, <1>10, <1>11, <1>12 DEF IInv

\* A claim lapses once its run was started.
LEMMA LapseKeeps ==
  ASSUME IInv, ~LongStart, Lapse
  PROVE  IInv'
<1>1. TypeOK'
  BY DEF Lapse, run, kernel, tree, instances, IInv, TypeOK
<1>2. RowsAreAdmitted'
  BY DEF Lapse, run, kernel, tree, instances, IInv, TypeOK, RowsAreAdmitted
<1>3. DriversBeat'
  BY DEF Lapse, run, kernel, tree, instances, IInv, TypeOK, DriversBeat
<1>4. PhaseOfDrive'
  BY DEF Lapse, run, kernel, tree, instances, IInv, TypeOK, PhaseOfDrive
<1>5. Quiet'
  BY DEF Lapse, run, kernel, tree, instances, IInv, TypeOK, Quiet, Writing, Poisoned
<1>6. EndedIsQuiet'
  BY DEF Lapse, run, kernel, tree, instances, IInv, TypeOK, EndedIsQuiet, Writing, Poisoned
<1>7. ClaimIsKept'
  BY DEF Lapse, run, kernel, tree, instances, IInv, TypeOK, ClaimIsKept, Writing, Launching
<1>8. CloserHolds'
  BY DEF Lapse, run, kernel, tree, instances, IInv, TypeOK, CloserHolds, Writing
<1>9. RedIsAlone'
  BY DEF Lapse, run, kernel, tree, instances, IInv, TypeOK, RedIsAlone, Writing, Launching
<1> QED BY <1>1, <1>2, <1>3, <1>4, <1>5, <1>6, <1>7, <1>8, <1>9 DEF IInv

-----------------------------------------------------------------------------
(* The theorems.                                                           *)

\* Nothing runs at first, and nobody holds the claim.
LEMMA InitHolds == Init => IInv
<1> SUFFICES ASSUME Init PROVE IInv
  OBVIOUS
<1>1. TypeOK
  <2>1. NoClaim \in Claims
    BY DEF NoClaim, Claims
  <2>2. red \in [Run -> [generation : Nat, receipt : Nat, seen : Nat]]
    BY DEF Init, NoRed
  <2>3. closer \in [Inst -> [run : Run \cup {Nobody}, step : {"idle", "drained", "proved"}, drained : BOOLEAN,
                             phase : Phases, expected : {"null", "old", "cur"}]]
    BY DEF Init
  <2> QED BY <2>1, <2>2, <2>3 DEF Init, TypeOK, Claims
<1>2. RowsAreAdmitted /\ DriversBeat /\ PhaseOfDrive /\ Quiet /\ EndedIsQuiet
  BY DEF Init, RowsAreAdmitted, DriversBeat, PhaseOfDrive, Quiet, EndedIsQuiet, Writing
<1>3. ClaimIsKept /\ CloserHolds /\ RedIsAlone
  BY DEF Init, ClaimIsKept, CloserHolds, RedIsAlone, Writing, Launching, NoClaim
<1> QED BY <1>1, <1>2, <1>3 DEF IInv

\* Every step preserves the invariant, where no heartbeat stops under a lock and no lease
\* lapses before its run is started.
LEMMA NextKeeps ==
  ASSUME ~SlowLaunch, ~LongStart, IInv, [Next]_vars
  PROVE  IInv'
<1>1. CASE UNCHANGED vars
  BY <1>1 DEF vars, run, kernel, claims, tree, instances, IInv, TypeOK, RowsAreAdmitted, DriversBeat,
     PhaseOfDrive, Quiet, EndedIsQuiet, ClaimIsKept, CloserHolds, RedIsAlone, Writing, Launching, Poisoned
<1>2. ASSUME NEW r \in Run, DriverOf(r) PROVE IInv'
  BY <1>2, OpenSliceKeeps, FailStartKeeps, CheckKeeps, SpawnKeeps, PublishKeeps, ReapedKeeps, NextAccountKeeps,
     DrainOwnKeeps, GiveUpKeeps, FinishKeeps DEF DriverOf
<1>3. ASSUME NEW r \in Run, Admission(r) PROVE IInv'
  BY <1>3, AdmitKeeps, BeginRedKeeps, ReadHeadKeeps, AdmitRedKeeps DEF Admission
<1>4. ASSUME NEW r \in Run, Kernel(r) PROVE IInv'
  BY <1>4, ExitKeeps, JobEndsKeeps, CommitKeeps DEF Kernel
<1>5. ASSUME NEW i \in Inst, Instance(i) PROVE IInv'
  BY <1>5, CrashKeeps, LeaveKeeps, GoStaleKeeps, TickKeeps, ProveKeeps, CommitCloseKeeps, StartCloseKeeps,
     ReconcileKeeps DEF Instance
<1> QED BY <1>1, <1>2, <1>3, <1>4, <1>5, LapseKeeps DEF Next

\* The inductive invariant holds in every reachable state.
THEOREM InvariantHolds ==
  ASSUME ~SlowLaunch, ~LongStart
  PROVE  Spec => []IInv
<1>1. IInv /\ [Next]_vars => IInv'
  BY NextKeeps
<1> QED BY InitHolds, <1>1, PTL DEF Spec

\* Type correctness.
THEOREM TypeCorrect ==
  ASSUME ~SlowLaunch, ~LongStart
  PROVE  Spec => []TypeOK
<1>1. IInv => TypeOK
  BY DEF IInv
<1> QED BY InvariantHolds, <1>1, PTL

\* Whatever of a run is alive in the worktree, the claim is the run's: a worktree has one
\* writer, whichever supervisors crash, leave, sweep, close and admit meanwhile.
THEOREM OneWriter ==
  ASSUME ~SlowLaunch, ~LongStart
  PROVE  Spec => []WriterHoldsClaim
<1>1. IInv => WriterHoldsClaim
  BY DEF IInv, ClaimIsKept, WriterHoldsClaim
<1> QED BY InvariantHolds, <1>1, PTL

\* Nothing of a closed run is alive.
THEOREM ClosedRunsAreDead ==
  ASSUME ~SlowLaunch, ~LongStart
  PROVE  Spec => []ClosedIsDead
<1>1. IInv => ClosedIsDead
  BY DEF IInv, EndedIsQuiet, ClosedIsDead
<1> QED BY InvariantHolds, <1>1, PTL

\* The run of a launch under way is not closed.
THEOREM LaunchesKeepTheirRun ==
  ASSUME ~SlowLaunch, ~LongStart
  PROVE  Spec => []LaunchKeepsItsRun
<1>1. IInv => LaunchKeepsItsRun
  BY DEF IInv, PhaseOfDrive, LaunchKeepsItsRun
<1> QED BY InvariantHolds, <1>1, PTL

\* A run admitted with a RED receipt starts on the commit the receipt names.
THEOREM RedRunsStartOnTheirCommit ==
  ASSUME ~SlowLaunch, ~LongStart
  PROVE  Spec => RedStartsOnItsCommit
<1> DEFINE Starts == \A r \in Red : phase[r] = "none" /\ phase'[r] = "spawning" => head = red[r].receipt
<1>1. ASSUME IInv, Next, NEW r \in Red, phase[r] = "none", phase'[r] = "spawning"
      PROVE  head = red[r].receipt
  <2>1. r \in Run
    BY ConstantsAssumption
  <2>2. ASSUME NEW s \in Run, AdmitRed(s) PROVE head = red[r].receipt
    <3>1. s = r /\ Admits(r)
      <4>1. Admits(s) /\ phase' = [phase EXCEPT ![s] = "spawning"]
        BY <1>1, <2>2 DEF AdmitRed, Admitted
      <4>2. s = r
        BY <1>1, <2>1, <4>1 DEF IInv, TypeOK
      <4> QED BY <4>1, <4>2
    <3> QED BY <1>1, <2>1, <2>2, <3>1 DEF AdmitRed, Admits, IInv, RedIsAlone
  <2>3. ASSUME NEW s \in Run, NEW i \in Inst, Admit(s, i) PROVE FALSE
    BY <1>1, <2>1, <2>3 DEF Admit, Admitted, IInv, TypeOK
  <2>4. ASSUME NEW s \in Run, DriverOf(s) PROVE FALSE
    <3>1. phase' # phase
      BY <1>1
    <3>2. Publish(s) \/ \E p \in {"completed", "failed"} : Finish(s, p)
      BY <2>4, <3>1 DEF DriverOf, OpenSlice, FailStart, Check, Spawn, Reaped, NextAccount, DrainOwn, GiveUp, run
    <3>3. ASSUME Publish(s) PROVE phase'[r] \in {phase[r], "running", "closed"}
      BY <2>1, <3>3 DEF Publish
    <3>4. ASSUME NEW p \in {"completed", "failed"}, Finish(s, p) PROVE phase'[r] \in {phase[r], p}
      BY <1>1, <2>1, <3>4 DEF Finish, IInv, TypeOK
    <3> QED BY <1>1, <3>2, <3>3, <3>4
  <2>5. ASSUME NEW s \in Run,
               Kernel(s) \/ ReadHead(s) \/ \E i \in Inst, c \in 0..head : BeginRed(s, i, c)
        PROVE FALSE
    BY <1>1, <2>5 DEF Kernel, Exit, JobEnds, Commit, ReadHead, BeginRed, run
  <2>6. ASSUME NEW i \in Inst, Instance(i) PROVE FALSE
    <3>1. phase' # phase
      BY <1>1
    <3>2. Tick(i) \/ CommitClose(i)
      BY <2>6, <3>1 DEF Instance, Crash, Abandoned, Leave, GoStale, Prove, StartClose, Reconcile, run
    <3>3. ASSUME Tick(i) PROVE phase'[r] \in {phase[r], "orphaned"}
      BY <2>1, <3>3 DEF Tick
    <3>4. ASSUME CommitClose(i) PROVE phase'[r] \in {phase[r], "closed"}
      BY <1>1, <2>1, <3>4 DEF CommitClose, IInv, TypeOK
    <3> QED BY <1>1, <3>2, <3>3, <3>4
  <2>7. ~Lapse
    BY <1>1 DEF Lapse, run
  <2> QED BY <1>1, <2>2, <2>3, <2>4, <2>5, <2>6, <2>7 DEF Next, Admission
<1>2. IInv /\ [Next]_vars => [Starts]_vars
  BY <1>1
<1> QED BY <1>2, InvariantHolds, PTL DEF Spec, RedStartsOnItsCommit

\* A poisoned claim goes only with the proof that the slice of its run is stopped and empty.
THEOREM PoisonGoesByProof ==
  ASSUME ~SlowLaunch, ~LongStart
  PROVE  Spec => PoisonNeedsProof
<1> DEFINE Proved == \A r \in Run : Poisoned(r) /\ claim'.run # r =>
                       slice'[r] = "stopped" /\ proc'[r] # "alive" /\ ~job'[r]
<1>1. ASSUME IInv, Next, NEW r \in Run, claim.run = r, claim.lease = "poisoned", claim'.run # r
      PROVE  slice'[r] = "stopped" /\ proc'[r] # "alive" /\ ~job'[r]
  <2>1. Held /\ Poisoned(r) /\ r # Nobody
    BY <1>1, ConstantsAssumption DEF Held, Poisoned
  <2>2. ASSUME NEW s \in Run, DriverOf(s) \/ Admission(s) \/ Kernel(s) PROVE FALSE
    <3>1. ~Admission(s)
      BY <1>1, <2>1 DEF Admission, Admit, BeginRed, ReadHead, AdmitRed, Admits, claims
    <3>2. ~Kernel(s)
      BY <1>1 DEF Kernel, Exit, JobEnds, Commit, claims
    <3>3. ~DrainOwn(s)
      <4>1. PoisonClaim(s) => claim'.run = claim.run
        BY <1>1, PoisonClaimIs DEF IInv
      <4> QED BY <1>1, <4>1 DEF DrainOwn, claims
    <3>4. ~GiveUp(s) /\ \A p \in {"completed", "failed"} : ~Finish(s, p)
      BY <1>1, <2>1 DEF GiveUp, Finish, DropsClaim, DropClaimIf, Poisoned, claims
    <3> QED BY <1>1, <2>2, <3>1, <3>2, <3>3, <3>4
            DEF DriverOf, OpenSlice, FailStart, Check, Spawn, Publish, Reaped, NextAccount, claims
  <2>3. ASSUME NEW i \in Inst, NEW drained \in BOOLEAN, NEW s \in Run, FinishClosed(i, s, drained)
        PROVE  s = r /\ drained
    BY <1>1, <2>1, <2>3 DEF FinishClosed, Releases, DropClaimIf, Poisoned, claims
  <2>4. ASSUME NEW i \in Inst, closer[i].step # "idle", closer[i].run = r, closer[i].drained
        PROVE  slice[r] = "stopped" /\ proc[r] # "alive" /\ ~job[r]
    BY <1>1, <2>4 DEF IInv, CloserHolds, Writing
  <2>5. ASSUME NEW i \in Inst, Prove(i) PROVE slice'[r] = "stopped" /\ proc'[r] # "alive" /\ ~job'[r]
    <3>1. closer[i].run \in Run /\ closer[i].step # "idle" /\ closer[i].drained \in BOOLEAN
      BY <1>1, <2>5 DEF Prove, IInv, TypeOK, CloserHolds
    <3>2. FinishClosed(i, closer[i].run, closer[i].drained) /\ UNCHANGED kernel
      BY <1>1, <2>5 DEF Prove, claims, kernel
    <3> QED BY <2>3, <2>4, <3>1, <3>2 DEF kernel
  <2>6. ASSUME NEW i \in Inst, CommitClose(i) PROVE slice'[r] = "stopped" /\ proc'[r] # "alive" /\ ~job'[r]
    <3>1. closer[i].run \in Run /\ closer[i].step # "idle" /\ closer[i].drained \in BOOLEAN /\ UNCHANGED kernel
      BY <1>1, <2>6 DEF CommitClose, IInv, TypeOK, CloserHolds
    <3>2. CASE Closes(closer[i].run, closer[i])
      <4>1. DropClaimIf(claim.run = closer[i].run)
        BY <2>6, <3>2 DEF CommitClose
      <4>2. claim.run = closer[i].run
        BY <1>1, <4>1 DEF DropClaimIf, claims
      <4> QED BY <1>1, <2>1, <2>4, <3>1, <3>2, <4>2 DEF Closes, kernel
    <3>3. CASE ~Closes(closer[i].run, closer[i])
      <4>1. FinishClosed(i, closer[i].run, closer[i].drained)
        BY <1>1, <2>6, <3>3 DEF CommitClose, claims
      <4> QED BY <2>3, <2>4, <3>1, <4>1 DEF kernel
    <3> QED BY <3>2, <3>3
  <2>7. ASSUME NEW i \in Inst, NEW s \in Run, Reconcile(i, s)
        PROVE slice'[r] = "stopped" /\ proc'[r] # "alive" /\ ~job'[r]
    <3>1. s = r
      <4>1. DropClaimIf(Poisoned(s))
        BY <2>7 DEF Reconcile
      <4>2. claim' # claim
        BY <1>1
      <4>3. Poisoned(s)
        BY <4>1, <4>2 DEF DropClaimIf, claims
      <4> QED BY <1>1, <4>3 DEF Poisoned
    <3>2. ~Writing(r) /\ UNCHANGED <<proc, job>> /\ slice' = [slice EXCEPT ![r] = "stopped"]
      BY <2>7, <3>1 DEF Reconcile, Reconciles
    <3> QED BY <1>1, <3>2 DEF Writing, IInv, TypeOK
  <2>8. ASSUME NEW i \in Inst, Tick(i) PROVE FALSE
    BY <1>1, <2>1, <2>8 DEF Tick, DropClaimIf, PoisonClaim, claims
  <2>9. ASSUME NEW i \in Inst, Crash(i) \/ Leave(i) \/ GoStale(i) \/ \E s \in Run : StartClose(i, s)
        PROVE FALSE
    BY <1>1, <2>9 DEF Crash, Leave, GoStale, StartClose, claims
  <2>10. ~Lapse
    BY <1>1 DEF Lapse
  <2> QED BY <1>1, <2>2, <2>5, <2>6, <2>7, <2>8, <2>9, <2>10 DEF Next, Instance
<1>2. ASSUME IInv, Next PROVE Proved
  BY <1>1, <1>2 DEF Poisoned
<1>3. IInv /\ [Next]_vars => [Proved]_vars
  BY <1>2
<1> QED BY <1>3, InvariantHolds, PTL DEF Spec, PoisonNeedsProof

-----------------------------------------------------------------------------
(* WriterCustody implements Worktree.                                      *)

\* What is claimed is held: no lapsed lease gives a worktree away.
LEMMA ClaimedIsHeld ==
  ASSUME IInv, claim.run # Nobody
  PROVE  Held
<1>1. claim.run \in Run /\ phase[claim.run] \in {"spawning", "running", "orphaned", "completed", "failed"}
  BY DEF IInv, TypeOK, ClaimIsKept, Phases, Ended, Live
<1>2. CASE phase[claim.run] \in {"spawning", "failed"}
  BY <1>2 DEF IInv, ClaimIsKept, Held
<1>3. CASE phase[claim.run] \in {"running", "orphaned", "completed"}
  BY <1>1, <1>3 DEF IInv, PhaseOfDrive, Held, Custody
<1> QED BY <1>1, <1>2, <1>3

\* Where nothing begins to write and lives and claim stay, something may have stopped.
LEMMA CalmMaps ==
  ASSUME IInv, \A s \in Run : Life(s)' = Life(s) /\ (Writing(s)' => Writing(s)),
         claim'.run = claim.run, (claim'.lease = "poisoned") = (claim.lease = "poisoned"), head' = head
  PROVE  Tree!Next \/ UNCHANGED Tree!treeVars
<1>1. \A s \in Run : Writing(s) => s = claim.run
  BY DEF IInv, ClaimIsKept
<1>2. [r \in Run |-> Life(r)]' = [r \in Run |-> Life(r)]
  OBVIOUS
<1>3. CASE \A s \in Run : Writing(s) => Writing(s)'
  <2>1. {r \in Run : Writing(r)}' = {r \in Run : Writing(r)}
    BY <1>3
  <2> QED BY <1>2, <2>1 DEF Tree!treeVars
<1>4. CASE \E s \in Run : Writing(s) /\ ~Writing(s)'
  <2>1. PICK s \in Run : Writing(s) /\ ~Writing(s)'
    BY <1>4
  <2>2. {r \in Run : Writing(r)}' = {r \in Run : Writing(r)} \ {s}
    BY <1>1, <2>1
  <2> QED BY <1>2, <2>2 DEF Tree!Next, Tree!Stop
<1> QED BY <1>3, <1>4

\* An admission begins a run in a worktree nobody has.
LEMMA AdmittedMaps ==
  ASSUME IInv, NEW r \in Run, NEW i \in Inst, Admitted(r, i), ~Held, phase[r] = "none", UNCHANGED <<kernel, head>>
  PROVE  Tree!Next
<1>1. claim.run = Nobody /\ claim.lease = "lapsed"
  BY ClaimedIsHeld DEF IInv, ClaimIsKept
<1>2. claim'.run = r /\ claim'.lease = "live" /\ phase' = [phase EXCEPT ![r] = "spawning"]
  BY DEF Admitted, TakeClaim
<1>3. \A s \in Run : ~Writing(s) /\ ~Writing(s)'
  BY <1>1, ConstantsAssumption DEF IInv, ClaimIsKept, Writing, kernel
<1>4. {s \in Run : Writing(s)} = {} /\ {s \in Run : Writing(s)}' = {}
  BY <1>3
<1>5. [s \in Run |-> Life(s)]' = [[s \in Run |-> Life(s)] EXCEPT ![r] = "live"] /\ Life(r) = "none"
  BY <1>2 DEF Life, Live, IInv, TypeOK
<1> QED BY <1>1, <1>2, <1>4, <1>5 DEF Tree!Next, Tree!Begin

\* Where nothing of the claimed run is alive, nothing is.
LEMMA OnlyHolderWrites ==
  ASSUME IInv, ~Writing(claim.run) \/ claim.run = Nobody
  PROVE  {s \in Run : Writing(s)} = {}
BY ConstantsAssumption DEF IInv, ClaimIsKept

\* A claim that is poisoned, or goes while nothing writes, settles the worktree.
LEMMA SettledMaps ==
  ASSUME IInv, claim.run # Nobody, UNCHANGED <<phase, proc, job, head>>,
         \/ claim'.run = claim.run /\ claim'.lease = "poisoned"
         \/ /\ claim'.run = Nobody /\ claim'.lease = "lapsed" /\ ~Writing(claim.run)
            /\ phase[claim.run] \in {"spawning", "running", "completed", "failed"}
  PROVE  Tree!Next
<1>1. [s \in Run |-> Life(s)]' = [s \in Run |-> Life(s)] /\ {s \in Run : Writing(s)}' = {s \in Run : Writing(s)}
  BY DEF Life, Writing
<1>2. claim.run \in Run /\ [s \in Run |-> Life(s)][claim.run] = Life(claim.run)
  BY DEF IInv, TypeOK
<1>3. CASE claim'.run = claim.run /\ claim'.lease = "poisoned"
  BY <1>1, <1>3 DEF Tree!Next, Tree!Settle, Tree!Fenced
<1>4. CASE /\ claim'.run = Nobody /\ claim'.lease = "lapsed" /\ ~Writing(claim.run)
           /\ phase[claim.run] \in {"spawning", "running", "completed", "failed"}
  <2>1. {s \in Run : Writing(s)} = {}
    BY <1>4, OnlyHolderWrites
  <2>2. Life(claim.run) \in {"live", "ended"}
    BY <1>4 DEF Life
  <2> QED BY <1>1, <1>2, <1>4, <2>1, <2>2 DEF Tree!Next, Tree!Settle, Tree!LetGo
<1> QED BY <1>3, <1>4

\* A driver that starts nothing and settles nothing.
LEMMA DriveIsCalm ==
  ASSUME IInv, NEW r \in Run,
         OpenSlice(r) \/ FailStart(r) \/ Check(r) \/ Reaped(r)
  PROVE  Tree!Next \/ UNCHANGED Tree!treeVars
<1>1. UNCHANGED <<phase, proc, job, claim, head>>
  BY DEF OpenSlice, FailStart, Check, Reaped, run, kernel, claims, tree
<1>2. \A s \in Run : Life(s)' = Life(s) /\ Writing(s)' = Writing(s)
  BY <1>1 DEF Life, Writing
<1> QED BY <1>1, <1>2, CalmMaps

\* The child is started in the worktree of its run.
LEMMA SpawnMaps ==
  ASSUME IInv, NEW r \in Run, Spawn(r)
  PROVE  Tree!Next
<1>1. /\ pc[r] = "checked" /\ proc' = [proc EXCEPT ![r] = "alive"]
      /\ UNCHANGED <<phase, job, claim, head>>
  BY DEF Spawn, Drives, run, claims, tree
<1>2. phase[r] \in {"spawning", "running"}
  BY <1>1 DEF IInv, TypeOK, RowsAreAdmitted, PhaseOfDrive
<1>3. Launching(r)
  BY <1>1, <1>2 DEF Launching
<1>4. claim.run = r
  BY <1>3 DEF IInv, ClaimIsKept
<1>5. {s \in Run : Writing(s)}' = {s \in Run : Writing(s)} \cup {r}
  BY <1>1 DEF Writing, IInv, TypeOK
<1>6. [s \in Run |-> Life(s)]' = [s \in Run |-> Life(s)] /\ Life(r) = "live"
  BY <1>1, <1>2 DEF Life
<1> QED BY <1>1, <1>4, <1>5, <1>6 DEF Tree!Next, Tree!Start

\* A run that is published closes the dead ones of its session.
LEMMA PublishMaps ==
  ASSUME IInv, NEW r \in Run, Publish(r)
  PROVE  Tree!Next \/ UNCHANGED Tree!treeVars
<1>1. pc[r] = "spawned" /\ UNCHANGED <<proc, job, claim, head>>
  BY DEF Publish, Drives, kernel, claims, tree
<1>2. phase[r] \in {"spawning", "running"}
  BY <1>1 DEF IInv, TypeOK, RowsAreAdmitted, PhaseOfDrive
<1>3. phase' = [s \in Run |-> IF s = r THEN "running" ELSE IF s \in Priors(r) THEN "closed" ELSE phase[s]]
  BY <1>2 DEF Publish
<1>4. \A s \in Priors(r) : s \in Run \ {r} /\ phase[s] \in {"completed", "failed"} /\ claim.run # s
  BY ConstantsAssumption DEF Priors
<1>5. \A s \in Priors(r) : ~Writing(s)
  BY <1>4 DEF IInv, ClaimIsKept
<1>6. [s \in Run |-> Life(s)]' = [s \in Run |-> IF s \in Priors(r) THEN "closed" ELSE Life(s)]
  <2>1. \A s \in Run : Life(s)' = IF s \in Priors(r) THEN "closed" ELSE Life(s)
    BY <1>2, <1>3, <1>4 DEF Life
  <2> QED BY <2>1
<1>7. \A s \in Priors(r) : Life(s) # "none"
  BY <1>4 DEF Life
<1>8. {s \in Run : Writing(s)}' = {s \in Run : Writing(s)}
  BY <1>1 DEF Writing
<1>9. Priors(r) \in SUBSET Run /\ claim.run \notin Priors(r)
  BY <1>4
<1> HIDE DEF Priors
<1>10. Tree!Close(Priors(r))
  BY <1>1, <1>4, <1>5, <1>6, <1>7, <1>8, <1>9 DEF Tree!Close, Tree!Kept
<1> QED BY <1>9, <1>10 DEF Tree!Next

\* Emptying a slice stops what writes, failing to poisons the claim.
LEMMA DrainOwnMaps ==
  ASSUME IInv, NEW r \in Run, DrainOwn(r)
  PROVE  Tree!Next \/ UNCHANGED Tree!treeVars
<1>1. UNCHANGED <<phase, head>>
  BY DEF DrainOwn, run, tree
<1>2. CASE Emptied(r) /\ UNCHANGED claims
  <2>1. \A s \in Run : Life(s)' = Life(s) /\ (Writing(s)' => Writing(s))
    BY <1>1, <1>2, EmptiedIs DEF Life, Writing, IInv
  <2> QED BY <1>1, <1>2, <2>1, CalmMaps DEF claims
<1>3. CASE PoisonClaim(r) /\ UNCHANGED kernel /\ claim.run = r
  <2>1. claim.run # Nobody /\ claim'.run = claim.run /\ claim'.lease = "poisoned"
    BY <1>3, PoisonClaimIs, ConstantsAssumption DEF IInv
  <2> QED BY <1>1, <1>3, <2>1, SettledMaps DEF kernel
<1>4. CASE PoisonClaim(r) /\ UNCHANGED kernel /\ claim.run # r
  <2>1. \A s \in Run : Life(s)' = Life(s) /\ Writing(s)' = Writing(s)
    BY <1>1, <1>4 DEF Life, Writing, kernel
  <2>2. claim' = claim
    BY <1>4, PoisonClaimIs DEF IInv
  <2> QED BY <1>1, <2>1, <2>2, CalmMaps
<1> QED BY <1>2, <1>3, <1>4 DEF DrainOwn

\* A failed writer gives its empty worktree to the next route.
LEMMA GiveUpMaps ==
  ASSUME IInv, NEW r \in Run, GiveUp(r)
  PROVE  Tree!Next
<1>1. /\ pc[r] = "drained" /\ phase[r] \notin Ended /\ claim.run = r
      /\ DropClaimIf(TRUE) /\ UNCHANGED <<phase, proc, job, head>>
  BY DEF GiveUp, Drives, run, kernel, tree
<1>2. claim.run # Nobody /\ ~Writing(r) /\ phase[r] \in {"spawning", "running"}
  BY <1>1, ConstantsAssumption DEF IInv, TypeOK, RowsAreAdmitted, PhaseOfDrive, Quiet
<1>3. claim'.run = Nobody /\ claim'.lease = "lapsed"
  BY <1>1 DEF DropClaimIf, NoClaim
<1> QED BY <1>1, <1>2, <1>3, SettledMaps

\* The first end of a run stays; a failure gives the worktree back, unless it is fenced.
LEMMA FinishMaps ==
  ASSUME IInv, NEW r \in Run, NEW p \in {"completed", "failed"}, Finish(r, p)
  PROVE  Tree!Next \/ UNCHANGED Tree!treeVars
<1>1. pc[r] \in {"drained", "undrained"} /\ UNCHANGED <<proc, job, head>>
  BY DEF Finish, kernel, tree
<1>2. {s \in Run : Writing(s)}' = {s \in Run : Writing(s)}
  BY <1>1 DEF Writing
<1>3. CASE phase[r] \in Ended
  <2>1. UNCHANGED <<phase, claim>>
    BY <1>3 DEF Finish, claims
  <2>2. \A s \in Run : Life(s)' = Life(s) /\ Writing(s)' = Writing(s)
    BY <1>1, <2>1 DEF Life, Writing
  <2> QED BY <1>1, <2>1, <2>2, CalmMaps
<1>4. CASE phase[r] \notin Ended
  <2>1. phase' = [phase EXCEPT ![r] = p] /\ DropClaimIf(p = "failed" /\ DropsClaim(r))
    BY <1>4 DEF Finish
  <2>2. phase[r] \in {"spawning", "running"}
    BY <1>1, <1>4 DEF IInv, TypeOK, RowsAreAdmitted, PhaseOfDrive
  <2>3. [s \in Run |-> Life(s)]' = [[s \in Run |-> Life(s)] EXCEPT ![r] = "ended"] /\ Life(r) = "live"
    BY <2>1, <2>2 DEF Life, IInv, TypeOK
  <2>4. CASE ~(p = "failed" /\ DropsClaim(r))
    BY <1>1, <1>2, <2>1, <2>3, <2>4 DEF DropClaimIf, claims, Tree!Next, Tree!End, Tree!Kept
  <2>5. CASE p = "failed" /\ DropsClaim(r)
    <3>1. claim.run = r /\ ~Poisoned(r) /\ claim'.run = Nobody /\ claim'.lease = "lapsed"
      BY <2>1, <2>5 DEF DropsClaim, DropClaimIf, NoClaim
    <3>2. ~Writing(r)
      BY <1>1, <3>1 DEF IInv, Quiet
    <3>3. {s \in Run : Writing(s)} = {}
      BY <3>1, <3>2, OnlyHolderWrites
    <3> QED BY <1>1, <1>2, <2>3, <3>1, <3>3 DEF Tree!Next, Tree!End, Tree!LetGo
  <2> QED BY <2>4, <2>5
<1> QED BY <1>3, <1>4

\* What ends in a slice, and what is killed for the next account, stops.
LEMMA StopMaps ==
  ASSUME IInv, NEW r \in Run, Exit(r) \/ JobEnds(r) \/ NextAccount(r)
  PROVE  Tree!Next \/ UNCHANGED Tree!treeVars
<1>1. UNCHANGED <<phase, claim, head>>
  BY DEF Exit, JobEnds, NextAccount, run, claims, tree
<1>2. \A s \in Run : Life(s)' = Life(s)
  BY <1>1 DEF Life
<1>3. \A s \in Run : Writing(s)' => Writing(s)
  <2>1. CASE Exit(r)
    BY <2>1 DEF Exit, Writing, IInv, TypeOK
  <2>2. CASE JobEnds(r) \/ NextAccount(r)
    BY <2>2 DEF JobEnds, NextAccount, Writing, IInv, TypeOK
  <2> QED BY <2>1, <2>2
<1> QED BY <1>1, <1>2, <1>3, CalmMaps

\* What writes may commit.
LEMMA CommitMaps ==
  ASSUME IInv, NEW r \in Run, Commit(r)
  PROVE  Tree!Next
<1>1. Writing(r) /\ head' = head + 1 /\ UNCHANGED <<phase, proc, job, claim>>
  BY DEF Commit, run, kernel, claims
<1>2. [s \in Run |-> Life(s)]' = [s \in Run |-> Life(s)] /\ {s \in Run : Writing(s)}' = {s \in Run : Writing(s)}
  BY <1>1 DEF Life, Writing
<1> QED BY <1>1, <1>2 DEF Tree!Next, Tree!Commit

\* An admission begins its run, or nothing.
LEMMA AdmissionMaps ==
  ASSUME IInv, NEW r \in Run, Admission(r)
  PROVE  Tree!Next \/ UNCHANGED Tree!treeVars
<1>1. ASSUME NEW i \in Inst, Admit(r, i) PROVE Tree!Next
  <2>1. phase[r] = "none"
    BY <1>1 DEF Admit, IInv, RowsAreAdmitted
  <2> QED BY <1>1, <2>1, AdmittedMaps DEF Admit, tree
<1>2. ASSUME AdmitRed(r), Admits(r) PROVE Tree!Next
  <2>1. phase[r] = "none" /\ owner[r] \in Inst
    BY <1>2 DEF AdmitRed, IInv, RowsAreAdmitted
  <2> QED BY <1>2, <2>1, AdmittedMaps DEF AdmitRed, Admits
<1>3. ASSUME \/ \E i \in Inst, c \in 0..head : BeginRed(r, i, c)
             \/ ReadHead(r)
             \/ AdmitRed(r) /\ ~Admits(r)
      PROVE  Tree!Next \/ UNCHANGED Tree!treeVars
  <2>1. UNCHANGED <<phase, proc, job, claim, head>>
    BY <1>3 DEF BeginRed, ReadHead, AdmitRed, run, kernel, claims
  <2>2. \A s \in Run : Life(s)' = Life(s) /\ Writing(s)' = Writing(s)
    BY <2>1 DEF Life, Writing
  <2> QED BY <2>1, <2>2, CalmMaps
<1> QED BY <1>1, <1>2, <1>3 DEF Admission

\* An instance that dies takes no row with it, and kills at most what it drove.
LEMMA GoneMaps ==
  ASSUME IInv, NEW i \in Inst, Crash(i) \/ Leave(i) \/ GoStale(i)
  PROVE  Tree!Next \/ UNCHANGED Tree!treeVars
<1>1. UNCHANGED <<phase, claim, head>>
  BY DEF Crash, Leave, GoStale, run, claims, tree
<1>2. \A s \in Run : Life(s)' = Life(s)
  BY <1>1 DEF Life
<1>3. \A s \in Run : Writing(s)' => Writing(s)
  <2>1. CASE Crash(i) \/ GoStale(i)
    BY <2>1 DEF Crash, GoStale, Writing, kernel
  <2>2. CASE Leave(i)
    BY <2>2 DEF Leave, Writing
  <2> QED BY <2>1, <2>2
<1> QED BY <1>1, <1>2, <1>3, CalmMaps

\* A lease that lapses says nothing of who has the worktree.
LEMMA LapseMaps ==
  ASSUME IInv, Lapse
  PROVE  Tree!Next \/ UNCHANGED Tree!treeVars
<1>1. UNCHANGED <<phase, proc, job, head>> /\ claim.lease = "live" /\ claim' = [claim EXCEPT !.lease = "lapsed"]
  BY DEF Lapse, run, kernel, tree
<1>2. \A s \in Run : Life(s)' = Life(s) /\ Writing(s)' = Writing(s)
  BY <1>1 DEF Life, Writing
<1>3. claim'.run = claim.run /\ claim'.lease = "lapsed"
  BY <1>1 DEF IInv, TypeOK
<1> QED BY <1>1, <1>2, <1>3, CalmMaps

\* The runs of the lost are lost together: who has the worktree keeps it, and may be fenced.
LEMMA TickMaps ==
  ASSUME IInv, NEW i \in Inst, Tick(i)
  PROVE  Tree!Next
<1> DEFINE orphaned == {r \in Run : phase[r] \in Live /\ owner[r] # i /\ ~row'[owner[r]]}
<1>1. /\ phase' = [r \in Run |-> IF r \in orphaned THEN "orphaned" ELSE phase[r]]
      /\ UNCHANGED <<ident, proc, job, head>>
  BY DEF Tick, kernel, tree
<1>2. \/ claim.run # Nobody /\ FencedOrphan(claim.run, orphaned) /\ PoisonClaim(claim.run)
      \/ DropClaimIf(claim.run # Nobody /\ claim.lease = "lapsed" /\ ~(Custody(claim.run) \/ claim.run \in orphaned))
  BY DEF Tick
<1>3. /\ \A r \in orphaned : r \in Run /\ Life(r) = "live"
      /\ \A r \in Run : Life(r)' = IF r \in orphaned THEN "orphaned" ELSE Life(r)
  BY <1>1 DEF Life
<1> HIDE DEF orphaned
<1>4. \/ claim' = claim
      \/ claim.run # Nobody /\ claim'.run = claim.run /\ claim'.lease = "poisoned"
  <2>1. CASE claim.run # Nobody /\ FencedOrphan(claim.run, orphaned) /\ PoisonClaim(claim.run)
    BY <2>1, PoisonClaimIs DEF IInv, TypeOK
  <2>2. CASE DropClaimIf(/\ claim.run # Nobody /\ claim.lease = "lapsed"
                         /\ ~(Custody(claim.run) \/ claim.run \in orphaned))
    BY <2>2, ClaimedIsHeld DEF DropClaimIf, Held, claims
  <2> QED BY <1>2, <2>1, <2>2
<1>5. {s \in Run : Writing(s)}' = {s \in Run : Writing(s)}
  BY <1>1 DEF Writing
<1>6. [s \in Run |-> Life(s)]' = [s \in Run |-> IF s \in orphaned THEN "orphaned" ELSE Life(s)]
  BY <1>3
<1>7. Tree!Lose(orphaned)
  BY <1>1, <1>3, <1>4, <1>5, <1>6 DEF Tree!Lose, Tree!Kept, Tree!Fenced
<1>8. orphaned \in SUBSET Run
  BY <1>3
<1> QED BY <1>7, <1>8 DEF Tree!Next

\* A close that starts empties the slice, or finds none.
LEMMA StartCloseMaps ==
  ASSUME IInv, NEW i \in Inst, NEW r \in Run, StartClose(i, r)
  PROVE  Tree!Next \/ UNCHANGED Tree!treeVars
<1>1. UNCHANGED <<phase, claim, head>> /\ (Emptied(r) \/ UNCHANGED kernel)
  BY DEF StartClose, Drain, run, claims, tree
<1>2. \A s \in Run : Life(s)' = Life(s)
  BY <1>1 DEF Life
<1>3. \A s \in Run : Writing(s)' => Writing(s)
  <2>1. CASE Emptied(r)
    BY <2>1, EmptiedIs DEF IInv, Writing
  <2>2. CASE UNCHANGED kernel
    BY <2>2 DEF Writing, kernel
  <2> QED BY <1>1, <2>1, <2>2
<1> QED BY <1>1, <1>2, <1>3, CalmMaps

\* A closed run has no claim that its close could still give back.
LEMMA ClosedHasNone ==
  ASSUME IInv, NEW i \in Inst, NEW r \in Run, NEW drained \in BOOLEAN,
         phase[r] = "closed", FinishClosed(i, r, drained)
  PROVE  claim' = claim
BY ConstantsAssumption DEF IInv, ClaimIsKept, FinishClosed, Releases, DropClaimIf, claims

\* What a close kills stops.
LEMMA ProveMaps ==
  ASSUME IInv, NEW i \in Inst, Prove(i)
  PROVE  Tree!Next \/ UNCHANGED Tree!treeVars
<1> DEFINE r == closer[i].run
<1>1. /\ r \in Run /\ closer[i].drained \in BOOLEAN /\ UNCHANGED <<phase, job, head>>
  BY DEF Prove, IInv, TypeOK, CloserHolds, run, tree
<1>2. claim' = claim
  BY <1>1, ClosedHasNone DEF Prove, claims
<1>3. \A s \in Run : Writing(s)' => Writing(s)
  BY <1>1 DEF Prove, Writing, IInv, TypeOK
<1>4. \A s \in Run : Life(s)' = Life(s)
  BY <1>1 DEF Life
<1> QED BY <1>1, <1>2, <1>3, <1>4, CalmMaps

\* A close takes the worktree from its run when nothing of the run is alive, or changes nothing.
LEMMA CommitCloseMaps ==
  ASSUME IInv, NEW i \in Inst, CommitClose(i)
  PROVE  Tree!Next \/ UNCHANGED Tree!treeVars
<1> DEFINE r == closer[i].run
<1>1. /\ r \in Run /\ closer[i].drained \in BOOLEAN /\ phase[r] # "none" /\ ~Writing(r)
      /\ UNCHANGED <<proc, job, head>>
  BY DEF CommitClose, IInv, TypeOK, CloserHolds, kernel, tree
<1>2. {s \in Run : Writing(s)}' = {s \in Run : Writing(s)}
  BY <1>1 DEF Writing
<1>3. CASE Closes(r, closer[i])
  <2>1. phase' = [phase EXCEPT ![r] = "closed"] /\ DropClaimIf(claim.run = r)
    BY <1>3 DEF CommitClose
  <2> HIDE DEF r
  <2>2. [s \in Run |-> Life(s)]' = [s \in Run |-> IF s \in {r} THEN "closed" ELSE Life(s)] /\ Life(r) # "none"
    BY <1>1, <2>1 DEF Life, IInv, TypeOK
  <2>3. CASE claim.run = r
    <3>1. claim'.run = Nobody /\ claim'.lease = "lapsed"
      BY <2>1, <2>3 DEF DropClaimIf, NoClaim
    <3>2. {s \in Run : Writing(s)} = {}
      BY <1>1, <2>3, OnlyHolderWrites
    <3>3. Tree!Close({r})
      BY <1>1, <1>2, <2>2, <2>3, <3>1, <3>2 DEF Tree!Close, Tree!LetGo
    <3> QED BY <1>1, <3>3 DEF Tree!Next
  <2>4. CASE claim.run # r
    <3>1. claim' = claim
      BY <2>1, <2>4 DEF DropClaimIf, claims
    <3>2. Tree!Close({r})
      BY <1>1, <1>2, <2>2, <2>4, <3>1 DEF Tree!Close, Tree!Kept
    <3> QED BY <1>1, <3>2 DEF Tree!Next
  <2> QED BY <2>3, <2>4
<1>4. CASE ~Closes(r, closer[i])
  <2>1. phase' = phase /\ claim' = claim
    BY <1>1, <1>4, ClosedHasNone DEF CommitClose, claims
  <2>2. \A s \in Run : Life(s)' = Life(s) /\ Writing(s)' = Writing(s)
    BY <1>1, <2>1 DEF Life, Writing
  <2> QED BY <1>1, <2>1, <2>2, CalmMaps
<1> QED BY <1>3, <1>4

\* A slice found idle is stopped, and the fence of its run ends with it.
LEMMA ReconcileMaps ==
  ASSUME IInv, NEW i \in Inst, NEW r \in Run, Reconcile(i, r)
  PROVE  Tree!Next \/ UNCHANGED Tree!treeVars
<1>1. /\ phase[r] \in Ended /\ ~Writing(r) /\ DropClaimIf(Poisoned(r))
      /\ UNCHANGED <<phase, proc, job, head>>
  BY DEF Reconcile, Reconciles, run, tree
<1>2. CASE Poisoned(r)
  <2>1. claim.run = r /\ claim.run # Nobody /\ phase[r] \in {"completed", "failed"}
    BY <1>1, <1>2, ConstantsAssumption DEF Poisoned, IInv, ClaimIsKept
  <2>2. claim'.run = Nobody /\ claim'.lease = "lapsed"
    BY <1>1, <1>2 DEF DropClaimIf, NoClaim
  <2> QED BY <1>1, <2>1, <2>2, SettledMaps
<1>3. CASE ~Poisoned(r)
  <2>1. claim' = claim
    BY <1>1, <1>3 DEF DropClaimIf, claims
  <2>2. \A s \in Run : Life(s)' = Life(s) /\ Writing(s)' = Writing(s)
    BY <1>1 DEF Life, Writing
  <2> QED BY <1>1, <2>1, <2>2, CalmMaps
<1> QED BY <1>2, <1>3

\* A worktree nobody has yet.
LEMMA InitMaps == Init => Tree!Init
<1> SUFFICES ASSUME Init PROVE Tree!Init
  OBVIOUS
<1>1. ASSUME NEW r \in Run PROVE ~Writing(r) /\ Life(r) = "none"
  BY DEF Init, Writing, Life
<1> QED BY <1>1 DEF Init, NoClaim, Tree!Init

\* Every step is one of the worktree's, or none.
LEMMA NextMaps ==
  ASSUME IInv, [Next]_vars
  PROVE  Tree!Next \/ UNCHANGED Tree!treeVars
<1>1. CASE UNCHANGED vars
  <2>1. UNCHANGED <<phase, proc, job, claim, head>>
    BY <1>1 DEF vars, run, kernel, claims, tree
  <2>2. \A s \in Run : Life(s)' = Life(s) /\ Writing(s)' = Writing(s)
    BY <2>1 DEF Life, Writing
  <2> QED BY <2>1, <2>2, CalmMaps
<1>2. ASSUME NEW r \in Run, DriverOf(r) PROVE Tree!Next \/ UNCHANGED Tree!treeVars
  BY <1>2, DriveIsCalm, StopMaps, SpawnMaps, PublishMaps, DrainOwnMaps, GiveUpMaps, FinishMaps DEF DriverOf
<1>3. ASSUME NEW r \in Run, Admission(r) \/ Kernel(r) PROVE Tree!Next \/ UNCHANGED Tree!treeVars
  BY <1>3, AdmissionMaps, StopMaps, CommitMaps DEF Kernel
<1>4. ASSUME NEW i \in Inst, Instance(i) PROVE Tree!Next \/ UNCHANGED Tree!treeVars
  BY <1>4, GoneMaps, TickMaps, ProveMaps, CommitCloseMaps, StartCloseMaps, ReconcileMaps DEF Instance
<1> QED BY <1>1, <1>2, <1>3, <1>4, LapseMaps DEF Next

\* Refinement: however supervisors crash, go stale, sweep and close, a worktree has one run at a time,
\* and is let go only while nothing writes in it.
THEOREM Implementation ==
  ASSUME ~SlowLaunch, ~LongStart
  PROVE  Spec => ImplementsWorktree
<1>1. IInv /\ [Next]_vars => [Tree!Next]_(Tree!treeVars)
  BY NextMaps
<1> QED BY <1>1, InitMaps, InvariantHolds, PTL DEF Spec, ImplementsWorktree, Tree!Spec

-----------------------------------------------------------------------------
(* CloseControl: the requests to close a run.                              *)

USE DEF Process, At, Open, Serving

CloseRequests == [pending : BOOLEAN, by : Process \cup {None}, lapsed : BOOLEAN, outcome : Process \cup {None}]

\* A claim keeps the request and puts its own name on it.
LEMMA ClaimedIs ==
  ASSUME CloseTypeOK, NEW p \in Process, Open
  PROVE  /\ Claimed(p) \in CloseRequests /\ Claimed(p).pending /\ Claimed(p).outcome = None
         /\ Claimed(p).by = p /\ ~Claimed(p).lapsed
BY DEF CloseTypeOK, Claimed, CloseRequests

\* Who closes under a living claim is in the way of every other claim.
LEMMA ServerBars ==
  ASSUME CloseIInv, NEW p \in Process, Claimable(p), NEW q \in Process, Serving(q), q \notin excused
  PROVE  q = Driver /\ late
BY RolesApart DEF CloseIInv, ServerHolds, Claimable

\* Closing the run leaves the request alone.
LEMMA CloseRunKeeps ==
  ASSUME CloseIInv, NEW p \in Process, CloseRun(p)
  PROVE  CloseIInv'
<1>1. CloseTypeOK'
  BY RolesApart DEF CloseIInv, CloseRun, CloseTypeOK, driver, ghosts
<1>2. WaitsInCall'
  BY RolesApart DEF CloseIInv, CloseRun, CloseTypeOK, WaitsInCall, driver, ghosts
<1>3. ServerHolds'
  BY RolesApart DEF CloseIInv, CloseRun, CloseTypeOK, ServerHolds, Fresh, driver, ghosts
<1>4. AnswerIsNew'
  BY RolesApart DEF CloseIInv, CloseRun, CloseTypeOK, WaitsInCall, AnswerIsNew, driver, ghosts
<1> QED BY <1>1, <1>2, <1>3, <1>4 DEF CloseIInv

\* Only the claimant of an open request records, and for everybody who has called.
LEMMA CloseRecordKeeps ==
  ASSUME CloseIInv, NEW p \in Process, Record(p)
  PROVE  CloseIInv'
<1>1. CloseTypeOK'
  BY RolesApart DEF CloseIInv, Record, Records, CloseTypeOK, driver, ghosts
<1>2. WaitsInCall'
  BY RolesApart DEF CloseIInv, Record, Records, CloseTypeOK, WaitsInCall, driver, ghosts
<1>3. ServerHolds'
  BY RolesApart DEF CloseIInv, Record, Records, CloseTypeOK, ServerHolds, Fresh, driver, ghosts
<1>4. AnswerIsNew'
  BY RolesApart DEF CloseIInv, Record, Records, CloseTypeOK, WaitsInCall, AnswerIsNew, driver, ghosts
<1> QED BY <1>1, <1>2, <1>3, <1>4 DEF CloseIInv

\* A call is of a process that waited for nothing.
LEMMA CloseCallKeeps ==
  ASSUME CloseIInv, NEW a \in Asker, Call(a)
  PROVE  CloseIInv'
<1>1. CloseTypeOK'
  BY RolesApart DEF CloseIInv, Call, CloseTypeOK, driver, ghosts
<1>2. WaitsInCall'
  BY RolesApart DEF CloseIInv, Call, CloseTypeOK, WaitsInCall, driver, ghosts
<1>3. ServerHolds'
  BY RolesApart DEF CloseIInv, Call, CloseTypeOK, ServerHolds, Fresh, driver, ghosts
<1>4. AnswerIsNew'
  BY RolesApart DEF CloseIInv, Call, CloseTypeOK, WaitsInCall, AnswerIsNew, driver, ghosts
<1> QED BY <1>1, <1>2, <1>3, <1>4 DEF CloseIInv

\* A look changes nothing but where the asker is.
LEMMA CloseLookKeeps ==
  ASSUME CloseIInv, NEW a \in Asker, Look(a)
  PROVE  CloseIInv'
<1>1. CloseTypeOK'
  BY RolesApart DEF CloseIInv, Look, CloseTypeOK, driver, ghosts
<1>2. WaitsInCall'
  BY RolesApart DEF CloseIInv, Look, CloseTypeOK, WaitsInCall, driver, ghosts
<1>3. ServerHolds'
  BY RolesApart DEF CloseIInv, Look, CloseTypeOK, ServerHolds, Fresh, driver, ghosts
<1>4. AnswerIsNew'
  BY RolesApart DEF CloseIInv, Look, CloseTypeOK, WaitsInCall, AnswerIsNew, driver, ghosts
<1> QED BY <1>1, <1>2, <1>3, <1>4 DEF CloseIInv

\* So does the look at the driver's row.
LEMMA CloseCustodyKeeps ==
  ASSUME CloseIInv, NEW a \in Asker, AskCustody(a)
  PROVE  CloseIInv'
<1>1. CloseTypeOK'
  BY RolesApart DEF CloseIInv, AskCustody, CloseTypeOK, driver, ghosts
<1>2. WaitsInCall'
  BY RolesApart DEF CloseIInv, AskCustody, CloseTypeOK, WaitsInCall, driver, ghosts
<1>3. ServerHolds'
  BY RolesApart DEF CloseIInv, AskCustody, CloseTypeOK, ServerHolds, Fresh, driver, ghosts
<1>4. AnswerIsNew'
  BY RolesApart DEF CloseIInv, AskCustody, CloseTypeOK, WaitsInCall, AnswerIsNew, driver, ghosts
<1> QED BY <1>1, <1>2, <1>3, <1>4 DEF CloseIInv

\* A request is a new one, without an outcome, or joins an open one.
LEMMA CloseAskKeeps ==
  ASSUME CloseIInv, NEW a \in Asker, Ask(a)
  PROVE  CloseIInv'
<1>1. CloseTypeOK'
  BY RolesApart DEF CloseIInv, Ask, Requested, Unasked, CloseTypeOK, driver, ghosts
<1>2. WaitsInCall'
  BY RolesApart DEF CloseIInv, Ask, Requested, Unasked, CloseTypeOK, WaitsInCall, driver, ghosts
<1>3. ServerHolds'
  BY RolesApart DEF CloseIInv, Ask, Requested, Unasked, CloseTypeOK, ServerHolds, Fresh, driver, ghosts
<1>4. AnswerIsNew'
  BY RolesApart DEF CloseIInv, Ask, Requested, Unasked, CloseTypeOK, WaitsInCall, AnswerIsNew, driver, ghosts
<1> QED BY <1>1, <1>2, <1>3, <1>4 DEF CloseIInv

\* A claim that is alive and not lapsed is not taken over.
LEMMA CloseClaimKeeps ==
  ASSUME CloseIInv, NEW a \in Asker, Claim(a)
  PROVE  CloseIInv'
<1>1. CloseTypeOK'
  <2>1. CASE Claimable(a) /\ request' = Claimed(a) /\ stage' = [stage EXCEPT ![a] = "won"] /\ awaiting' = awaiting
    BY <2>1, ClaimedIs DEF CloseIInv, Claim, Claimable, CloseTypeOK, CloseRequests, driver, ghosts
  <2>2. CASE request' = request
    BY <2>2 DEF CloseIInv, Claim, CloseTypeOK, driver, ghosts
  <2> QED BY <2>1, <2>2 DEF Claim
<1>2. WaitsInCall'
  BY RolesApart DEF CloseIInv, Claim, Claimable, Claimed, CloseTypeOK, WaitsInCall, driver, ghosts
<1>3. ServerHolds'
  <2> SUFFICES ASSUME NEW p \in Process, Serving(p)', p \notin excused, ~(p = Driver /\ late)
               PROVE  Open' /\ request'.by = p /\ ~request'.lapsed /\ Fresh(p)'
    BY DEF ServerHolds, Claim, ghosts
  <2>1. CASE Claimable(a) /\ request' = Claimed(a) /\ stage' = [stage EXCEPT ![a] = "won"]
    <3>1. p = a
      BY <2>1, ServerBars DEF CloseIInv, CloseTypeOK
    <3> QED BY <2>1, <3>1, ClaimedIs, RolesApart DEF CloseIInv, CloseTypeOK, Claimable, Fresh
  <2>2. CASE request' = request /\ \E step \in {"look", "alone"} : stage' = [stage EXCEPT ![a] = step]
    <3>1. p # a /\ Serving(p) /\ stage[p] = stage'[p]
      BY <2>2 DEF CloseIInv, CloseTypeOK
    <3> QED BY <2>2, <3>1 DEF CloseIInv, ServerHolds, Claim, Fresh, driver
  <2> QED BY <2>1, <2>2 DEF Claim
<1>4. AnswerIsNew'
  BY RolesApart DEF CloseIInv, Claim, Claimable, Claimed, CloseTypeOK, WaitsInCall, AnswerIsNew, driver, ghosts
<1> QED BY <1>1, <1>2, <1>3, <1>4 DEF CloseIInv

\* An asker that has its answer waits no more.
LEMMA CloseToldKeeps ==
  ASSUME CloseIInv, NEW a \in Asker, Told(a)
  PROVE  CloseIInv'
<1>1. CloseTypeOK'
  BY RolesApart DEF CloseIInv, Told, Return, CloseTypeOK, driver, ghosts
<1>2. WaitsInCall'
  BY RolesApart DEF CloseIInv, Told, Return, CloseTypeOK, WaitsInCall, driver, ghosts
<1>3. ServerHolds'
  BY RolesApart DEF CloseIInv, Told, Return, CloseTypeOK, ServerHolds, Fresh, driver, ghosts
<1>4. AnswerIsNew'
  BY RolesApart DEF CloseIInv, Told, Return, CloseTypeOK, WaitsInCall, AnswerIsNew, driver, ghosts
<1> QED BY <1>1, <1>2, <1>3, <1>4 DEF CloseIInv

\* Nor does one that gives up.
LEMMA CloseGiveUpKeeps ==
  ASSUME CloseIInv, NEW a \in Asker, StopWaiting(a)
  PROVE  CloseIInv'
<1>1. CloseTypeOK'
  BY RolesApart DEF CloseIInv, StopWaiting, Return, CloseTypeOK, driver, ghosts
<1>2. WaitsInCall'
  BY RolesApart DEF CloseIInv, StopWaiting, Return, CloseTypeOK, WaitsInCall, driver, ghosts
<1>3. ServerHolds'
  BY RolesApart DEF CloseIInv, StopWaiting, Return, CloseTypeOK, ServerHolds, Fresh, driver, ghosts
<1>4. AnswerIsNew'
  BY RolesApart DEF CloseIInv, StopWaiting, Return, CloseTypeOK, WaitsInCall, AnswerIsNew, driver, ghosts
<1> QED BY <1>1, <1>2, <1>3, <1>4 DEF CloseIInv

\* The driver takes what it may; without its row or its heartbeat it is late or excused.
LEMMA CloseServeKeeps ==
  ASSUME CloseIInv, Serve
  PROVE  CloseIInv'
<1>1. CloseTypeOK'
  <2>1. CASE Claimable(Driver) /\ request' = Claimed(Driver) /\ stage' = [stage EXCEPT ![Driver] = "won"]
    BY <2>1, ClaimedIs DEF CloseIInv, Serve, Claimable, CloseTypeOK, CloseRequests, driver
  <2>2. CASE request' = request
    BY <2>2 DEF CloseIInv, Serve, CloseTypeOK, driver
  <2> QED BY <2>1, <2>2 DEF Serve
<1>2. WaitsInCall'
  BY RolesApart DEF CloseIInv, Serve, Claimable, Claimed, CloseTypeOK, WaitsInCall, driver, ghosts
<1>3. ServerHolds'
  <2> SUFFICES ASSUME NEW p \in Process, Serving(p)', p \notin excused', ~(p = Driver /\ late')
               PROVE  Open' /\ request'.by = p /\ ~request'.lapsed /\ Fresh(p)'
    BY DEF ServerHolds
  <2>1. CASE Claimable(Driver) /\ request' = Claimed(Driver) /\ stage' = [stage EXCEPT ![Driver] = "won"]
    <3>1. p = Driver
      BY <2>1, ServerBars DEF CloseIInv, CloseTypeOK, Serve
    <3>2. present /\ beats
      BY <3>1 DEF Serve, CloseIInv, CloseTypeOK
    <3> QED BY <2>1, <3>1, <3>2, ClaimedIs DEF CloseIInv, CloseTypeOK, Claimable, Serve, Fresh, driver
  <2>2. CASE ~Claimable(Driver) /\ stage[Driver] = "finish" /\ stage' = [stage EXCEPT ![Driver] = "exited"] /\ request' = request
    <3>1. p # Driver /\ stage'[p] = stage[p]
      BY <2>2 DEF CloseIInv, CloseTypeOK
    <3>2. p \notin excused
      BY <3>1 DEF Serve
    <3> QED BY <2>2, <3>1, <3>2 DEF CloseIInv, ServerHolds, Serve, Fresh
  <2> QED BY <2>1, <2>2 DEF Serve
<1>4. AnswerIsNew'
  BY RolesApart DEF CloseIInv, Serve, Claimable, Claimed, CloseTypeOK, WaitsInCall, AnswerIsNew, driver, ghosts
<1> QED BY <1>1, <1>2, <1>3, <1>4 DEF CloseIInv

\* The row of the driver goes when it serves nothing.
LEMMA CloseShutDownKeeps ==
  ASSUME CloseIInv, ShutDown
  PROVE  CloseIInv'
<1>1. CloseTypeOK'
  BY RolesApart DEF CloseIInv, ShutDown, WatcherIdle, CloseTypeOK, driver, ghosts
<1>2. WaitsInCall'
  BY RolesApart DEF CloseIInv, ShutDown, WatcherIdle, CloseTypeOK, WaitsInCall, driver, ghosts
<1>3. ServerHolds'
  BY RolesApart DEF CloseIInv, ShutDown, WatcherIdle, CloseTypeOK, ServerHolds, Fresh, driver, ghosts
<1>4. AnswerIsNew'
  BY RolesApart DEF CloseIInv, ShutDown, WatcherIdle, CloseTypeOK, WaitsInCall, AnswerIsNew, driver, ghosts
<1> QED BY <1>1, <1>2, <1>3, <1>4 DEF CloseIInv

\* What crashes serves nothing and waits for nothing.
LEMMA CloseCrashKeeps ==
  ASSUME CloseIInv, NEW p \in Process, ProcessDies(p)
  PROVE  CloseIInv'
<1>1. CloseTypeOK'
  BY RolesApart DEF CloseIInv, ProcessDies, CloseTypeOK, driver, ghosts
<1>2. WaitsInCall'
  BY RolesApart DEF CloseIInv, ProcessDies, CloseTypeOK, WaitsInCall, driver, ghosts
<1>3. ServerHolds'
  BY RolesApart DEF CloseIInv, ProcessDies, CloseTypeOK, ServerHolds, Fresh, driver, ghosts
<1>4. AnswerIsNew'
  BY RolesApart DEF CloseIInv, ProcessDies, CloseTypeOK, WaitsInCall, AnswerIsNew, driver, ghosts
<1> QED BY <1>1, <1>2, <1>3, <1>4 DEF CloseIInv

\* A heartbeat that stops excuses the close it stopped under.
LEMMA CloseGoStaleKeeps ==
  ASSUME CloseIInv, BeatStops
  PROVE  CloseIInv'
<1>1. CloseTypeOK'
  BY RolesApart DEF CloseIInv, BeatStops, CloseTypeOK, driver, ghosts
<1>2. WaitsInCall'
  BY RolesApart DEF CloseIInv, BeatStops, CloseTypeOK, WaitsInCall, driver, ghosts
<1>3. ServerHolds'
  BY RolesApart DEF CloseIInv, BeatStops, CloseTypeOK, ServerHolds, Fresh, driver, ghosts
<1>4. AnswerIsNew'
  BY RolesApart DEF CloseIInv, BeatStops, CloseTypeOK, WaitsInCall, AnswerIsNew, driver, ghosts
<1> QED BY <1>1, <1>2, <1>3, <1>4 DEF CloseIInv

\* A heartbeat that comes back takes nothing.
LEMMA CloseBeatKeeps ==
  ASSUME CloseIInv, Beat
  PROVE  CloseIInv'
<1>1. CloseTypeOK'
  BY RolesApart DEF CloseIInv, Beat, CloseTypeOK, driver, ghosts
<1>2. WaitsInCall'
  BY RolesApart DEF CloseIInv, Beat, CloseTypeOK, WaitsInCall, driver, ghosts
<1>3. ServerHolds'
  BY RolesApart DEF CloseIInv, Beat, CloseTypeOK, ServerHolds, Fresh, driver, ghosts
<1>4. AnswerIsNew'
  BY RolesApart DEF CloseIInv, Beat, CloseTypeOK, WaitsInCall, AnswerIsNew, driver, ghosts
<1> QED BY <1>1, <1>2, <1>3, <1>4 DEF CloseIInv

\* A lease that lapses excuses its claimant.
LEMMA CloseLapseKeeps ==
  ASSUME CloseIInv, LeaseLapses
  PROVE  CloseIInv'
<1>1. CloseTypeOK'
  <2>1. request' \in CloseRequests /\ request'.outcome = request.outcome /\ request'.by = request.by
    BY DEF CloseIInv, LeaseLapses, CloseTypeOK, CloseRequests
  <2>2. excused' \subseteq Process
    BY DEF CloseIInv, LeaseLapses, CloseTypeOK
  <2> QED BY <2>1, <2>2 DEF CloseIInv, LeaseLapses, CloseTypeOK, CloseRequests, driver
<1>2. WaitsInCall'
  BY RolesApart DEF CloseIInv, LeaseLapses, CloseTypeOK, WaitsInCall, driver, ghosts
<1>3. ServerHolds'
  BY RolesApart DEF CloseIInv, LeaseLapses, CloseTypeOK, ServerHolds, Fresh, driver, ghosts
<1>4. AnswerIsNew'
  BY RolesApart DEF CloseIInv, LeaseLapses, CloseTypeOK, WaitsInCall, AnswerIsNew, driver, ghosts
<1> QED BY <1>1, <1>2, <1>3, <1>4 DEF CloseIInv

\* A step of anybody keeps the invariant.
LEMMA CloseStepKeeps ==
  ASSUME CloseIInv, [CloseNext]_closeVars
  PROVE  CloseIInv'
<1>1. CASE UNCHANGED closeVars
  BY <1>1 DEF closeVars, driver, ghosts, CloseIInv, CloseTypeOK, WaitsInCall, ServerHolds, Fresh, AnswerIsNew
<1>2. ASSUME NEW a \in Asker, Call(a) \/ AskerStep(a) \/ StopWaiting(a) PROVE CloseIInv'
  BY <1>2, CloseCallKeeps, CloseLookKeeps, CloseCustodyKeeps, CloseAskKeeps, CloseClaimKeeps, CloseToldKeeps, CloseRunKeeps, CloseRecordKeeps, CloseGiveUpKeeps
     DEF AskerStep
<1>3. CASE DriverStep
  BY <1>3, CloseServeKeeps, CloseRunKeeps, CloseRecordKeeps DEF DriverStep
<1>4. ASSUME NEW p \in Process, ProcessDies(p) PROVE CloseIInv'
  BY <1>4, CloseCrashKeeps
<1> QED BY <1>1, <1>2, <1>3, <1>4, CloseShutDownKeeps, CloseGoStaleKeeps, CloseBeatKeeps, CloseLapseKeeps DEF CloseNext

\* Nobody has asked at first.
LEMMA CloseInitHolds == CloseInit => CloseIInv
<1> SUFFICES ASSUME CloseInit PROVE CloseIInv
  OBVIOUS
<1>1. CloseTypeOK
  <2>1. 0 \in 0..MaxCloses /\ stage \in [Process -> {"idle"}]
    BY RolesApart DEF CloseInit
  <2>2. request \in CloseRequests /\ request.outcome = None
    BY DEF CloseInit, Unasked, CloseRequests
  <2> QED BY <2>1, <2>2 DEF CloseInit, CloseTypeOK, CloseRequests
<1>2. WaitsInCall /\ ServerHolds /\ AnswerIsNew
  BY DEF CloseInit, Unasked, WaitsInCall, ServerHolds, AnswerIsNew
<1> QED BY <1>1, <1>2 DEF CloseIInv

\* The inductive invariant holds in every reachable state.
THEOREM CloseInvariantHolds == CloseSpec => []CloseIInv
<1>1. CloseIInv /\ [CloseNext]_closeVars => CloseIInv'
  BY CloseStepKeeps
<1> QED BY CloseInitHolds, <1>1, PTL DEF CloseSpec

\* Type correctness of the request, and its outcome is that of its claimant.
THEOREM CloseTypeCorrect == CloseSpec => []CloseTypeOK
<1>1. CloseIInv => CloseTypeOK
  BY DEF CloseIInv
<1> QED BY CloseInvariantHolds, <1>1, PTL

\* Two processes close at once only if the claim of one lapsed, its heartbeat stopped, or it is
\* the driver without its row.
THEOREM OneServes == CloseSpec => []OneServerWhileRegistered
<1>1. CloseIInv => OneServerWhileRegistered
  BY DEF CloseIInv, ServerHolds, OneServerWhileRegistered
<1> QED BY CloseInvariantHolds, <1>1, PTL

\* What an asker reads was recorded after it called.
THEOREM AnswersAreNew == CloseSpec => []AnswerIsNew
<1>1. CloseIInv => AnswerIsNew
  BY DEF CloseIInv
<1> QED BY CloseInvariantHolds, <1>1, PTL
================================================================================
