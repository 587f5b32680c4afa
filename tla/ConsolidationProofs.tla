------------------------- MODULE ConsolidationProofs -------------------------
(***************************************************************************)
(* Proofs about Consolidation, for every set of capsules and every bound:  *)
(* the worker implements TierPolicy, so no plan outlives the facts it was  *)
(* made on; and a cycle it skips had nothing to move.                      *)
(***************************************************************************)
EXTENDS Consolidation, FiniteSetTheorems, TLAPS

USE DEF capsules, tiers, recalls, marks, locals, memory

Times == clock \in 0..MaxTime /\ created \in [Capsule -> 0..MaxTime] /\ now <= clock

\* A recall row has a number, the last one is known, and the mark of a plan was one.
Numbered == mark <= reads /\ \A c \in Capsule : \A s \in served[c] : s <= reads

\* What a plan was made on and cannot change: birth, and the recalls past the mark.
PlanHolds ==
  pc = "lock" =>
    /\ plan \subseteq DOMAIN records
    /\ \A c \in DOMAIN records :
         /\ live[c] # "absent" /\ records[c].created = created[c]
         /\ ~records[c].recalled => \A s \in served[c] : s > mark

Basics == TypeOK /\ Times /\ Numbered /\ PlanHolds

\* The bounds and the policy's constants.
LEMMA Constants ==
  /\ IsFiniteSet(Capsule) /\ Flagged \subseteq Capsule
  /\ \A c \in Capsule : ValidTo[c] \subseteq Nat
  /\ After \in Nat /\ MaxTime \in Nat
BY ConstantsAssumption

\* A planned tier is a tier.
LEMMA PlannedIs ==
  ASSUME NEW c \in Capsule, NEW r \in Record, NEW t
  PROVE  Planned(c, r, t) \in Tiers
BY DEF Planned, Record, Tiers

\* A deadline is an instant.
LEMMA DeadlinesAre ==
  ASSUME NEW c \in Capsule, NEW r \in Record
  PROVE  Deadlines(c, r) \subseteq Nat
BY Constants DEF Deadlines, Record

\* A snapshot holds a record of each live capsule.
LEMMA SnapshotIs ==
  ASSUME TypeOK
  PROVE  /\ DOMAIN Snapshot = Live /\ Live \subseteq Capsule
         /\ \A c \in Live : Snapshot[c] \in Record /\ Snapshot[c].created = created[c]
                            /\ Snapshot[c].recalled = (usage[c] \/ served[c] # {})
BY DEF TypeOK, Snapshot, Live, Record

\* What is applied was planned, for a live capsule.
LEMMA AppliedIs ==
  ASSUME TypeOK
  PROVE  Applied \subseteq plan /\ IsFiniteSet(Applied) /\ Cardinality(Applied) \in Nat
<1>1. Applied \subseteq plan /\ Applied \subseteq Capsule
  BY DEF Applied, TypeOK
<1> QED BY <1>1, Constants, FS_Subset, FS_CardinalityType

\* The other writers' calls.
LEMMA OthersKeep ==
  ASSUME Basics, Others
  PROVE  Basics'
<1>1. CASE Tick
  BY <1>1, Constants DEF Tick, Basics, TypeOK, Times, Numbered, PlanHolds
<1>2. ASSUME NEW c \in Capsule, Capture(c) PROVE Basics'
  BY <1>2, Constants DEF Capture, Canonical, Basics, TypeOK, Times, Numbered, PlanHolds
<1>3. ASSUME NEW c \in Capsule, Forget(c) PROVE Basics'
  BY <1>3 DEF Forget, Canonical, Basics, TypeOK, Times, Numbered, PlanHolds
<1>4. ASSUME NEW c \in Capsule, SetPin(c) PROVE Basics'
  BY <1>4 DEF SetPin, Canonical, Basics, TypeOK, Times, Numbered, PlanHolds
<1>5. ASSUME NEW c \in Capsule, Supersede(c) PROVE Basics'
  BY <1>5 DEF Supersede, Canonical, Basics, TypeOK, Times, Numbered, PlanHolds
<1>6. ASSUME NEW c \in Capsule, RevokeRelation(c) PROVE Basics'
  BY <1>6 DEF RevokeRelation, Canonical, Basics, TypeOK, Times, Numbered, PlanHolds
<1>7. ASSUME NEW c \in Capsule, RecordRecall(c) PROVE Basics'
  BY <1>7 DEF RecordRecall, Canonical, Basics, TypeOK, Times, Numbered, PlanHolds
<1>8. ASSUME NEW c \in Capsule, ServeContext(c) PROVE Basics'
  BY <1>8 DEF ServeContext, Basics, TypeOK, Times, Numbered, PlanHolds
<1> QED BY <1>1, <1>2, <1>3, <1>4, <1>5, <1>6, <1>7, <1>8, Zenon DEF Others

\* A call that returns keeps nothing of its plan.
LEMMA ReturnKeeps ==
  ASSUME Basics, Return, UNCHANGED <<tiers, marks>>, memory' = memory \/ (settled' = Unknown /\ due' = {}),
         crashes' \in Nat
  PROVE  Basics'
<1>1. UNCHANGED <<clock, capsules, tiers, superseded, pinned, recalls, marks, edits>>
  BY DEF Return, Goto
<1>2. pc' = "idle" /\ now' = 0 /\ state' = <<0, 0>> /\ mark' = 0 /\ plan' = {} /\ DOMAIN records' = {}
  BY DEF Return, Goto
<1>3. (settled' = Unknown \/ settled' \in Nat \X Nat) /\ due' \subseteq Nat
  BY DEF Basics, TypeOK
<1>4. TypeOK'
  BY <1>1, <1>2, <1>3 DEF Basics, TypeOK
<1>5. Times' /\ Numbered' /\ PlanHolds'
  BY <1>1, <1>2 DEF Basics, TypeOK, Times, Numbered, PlanHolds
<1> QED BY <1>4, <1>5 DEF Basics

\* The two readings of the worker change where it is and what it saw.
LEMMA ReadsKeep ==
  ASSUME Basics, ReadWatermark \/ ReadGeneration, UNCHANGED crashes
  PROVE  Basics'
<1>1. CASE ReadWatermark
  BY <1>1 DEF ReadWatermark, Goto, Basics, TypeOK, Times, Numbered, PlanHolds
<1>2. CASE ReadGeneration
  <2>1. CASE Return
    BY <1>2, <2>1, ReturnKeeps DEF ReadGeneration, Basics, TypeOK
  <2>2. CASE Goto("collect") /\ state' = <<state[1], generation>> /\ UNCHANGED <<now, mark, plan, records>>
    BY <1>2, <2>2 DEF ReadGeneration, Goto, Basics, TypeOK, Times, Numbered, PlanHolds
  <2> QED BY <1>2, <2>1, <2>2 DEF ReadGeneration
<1> QED BY <1>1, <1>2

\* A plan is made on the snapshot, and the mark is the last recall the snapshot had.
LEMMA CollectKeeps ==
  ASSUME Basics, Collect, UNCHANGED crashes
  PROVE  Basics'
<1>1. CASE Return
  BY <1>1, ReturnKeeps DEF Collect, Basics, TypeOK
<1>2. CASE /\ mark' = reads /\ records' = Snapshot /\ plan' = Moves(Snapshot, now)
           /\ \E step \in {"lock", "settle"} : Goto(step)
           /\ UNCHANGED <<now, state>>
  <2>1. plan' \subseteq Live /\ DOMAIN records' = Live
    BY <1>2, SnapshotIs DEF Basics, Moves
  <2>2. TypeOK'
    BY <1>2, <2>1, SnapshotIs DEF Collect, Goto, Basics, TypeOK
  <2>3. Times' /\ Numbered'
    BY <1>2 DEF Collect, Goto, Basics, TypeOK, Times, Numbered
  <2>4. PlanHolds'
    BY <1>2, <2>1, SnapshotIs DEF Collect, Goto, Basics, TypeOK, PlanHolds, Live
  <2> QED BY <2>2, <2>3, <2>4 DEF Basics
<1> QED BY <1>1, <1>2 DEF Collect

\* Only a capsule that is archived stays bound to its archive.
LEMMA ApplyKeepsBound ==
  ASSUME Basics, Apply
  PROVE  bound' \in [Capsule -> BOOLEAN]
<1>1. bound' = [c \in Capsule |-> IF c \in Applied THEN tier'[c] = "archived" /\ movedAt[c] # now
                                                ELSE bound[c]]
  BY DEF Apply, SetTiers
<1>2. \A c \in Capsule : bound[c] \in BOOLEAN
  BY DEF Basics, TypeOK
<1> QED BY <1>1, <1>2, Zenon

\* The moves of a transaction give tiers.
LEMMA ApplyKeeps ==
  ASSUME Basics, Apply, UNCHANGED crashes
  PROVE  Basics'
<1>1. Applied \subseteq Capsule /\ Cardinality(Applied) \in Nat /\ Applied \subseteq DOMAIN records
  BY AppliedIs DEF Basics, TypeOK, Apply, PlanHolds
<1>2. tier' \in [Capsule -> Tiers]
  BY <1>1, PlannedIs DEF Apply, SetTiers, Basics, TypeOK
<1>3. TypeOK'
  <2>1. movedAt' \in [Capsule -> Int] /\ bound' \in [Capsule -> BOOLEAN]
    BY ApplyKeepsBound DEF Apply, SetTiers, Basics, TypeOK
  <2>2. audit' \in Nat /\ generation' \in Nat /\ state' \in Nat \X Nat
    BY <1>1 DEF Apply, Goto, Basics, TypeOK
  <2>3. UNCHANGED <<clock, capsules, superseded, pinned, recalls, now, mark, records, memory, edits, crashes>>
    BY DEF Apply, Goto
  <2>4. plan' \subseteq Capsule /\ pc' = "settle"
    BY <1>1 DEF Apply, Goto
  <2> QED BY <1>2, <2>1, <2>2, <2>3, <2>4 DEF Basics, TypeOK
<1>4. Times' /\ Numbered' /\ PlanHolds'
  BY DEF Apply, Goto, Basics, TypeOK, Times, Numbered, PlanHolds
<1> QED BY <1>3, <1>4 DEF Basics

\* A settled plan leaves deadlines and the two counters it was made from.
LEMMA SettleKeeps ==
  ASSUME Basics, Settle, UNCHANGED crashes
  PROVE  Basics'
<1>1. due' \subseteq Nat
  BY DeadlinesAre DEF Settle, Basics, TypeOK
<1>2. settled' \in Nat \X Nat
  BY DEF Settle, Basics, TypeOK
<1> QED BY <1>1, <1>2 DEF Settle, Return, Goto, Basics, TypeOK, Times, Numbered, PlanHolds

\* A step of anybody.
LEMMA BasicsKept ==
  ASSUME Basics, [Next]_vars
  PROVE  Basics'
<1>1. CASE UNCHANGED vars
  BY <1>1 DEF vars, Basics, TypeOK, Times, Numbered, PlanHolds
<1>2. CASE Defer /\ UNCHANGED crashes
  BY <1>2, ReturnKeeps DEF Defer, Basics, TypeOK
<1>3. CASE Crash
  BY <1>3, ReturnKeeps DEF Crash, Basics, TypeOK
<1> QED BY <1>1, <1>2, <1>3, OthersKeep, ReadsKeep, CollectKeeps, ApplyKeeps, SettleKeeps DEF Next, Worker

\* Nothing is planned and nothing is due at first.
LEMMA BasicsAtFirst == Init => Basics
BY Constants DEF Init, Basics, TypeOK, Tiers, Times, Numbered, PlanHolds

\* Type correctness of the tiers, of the plan and of the worker's memory.
THEOREM TypeCorrect == Spec => []TypeOK
<1>1. Basics /\ [Next]_vars => Basics'
  BY BasicsKept
<1>2. Basics => TypeOK
  BY DEF Basics
<1> QED BY BasicsAtFirst, <1>1, <1>2, PTL DEF Spec

-----------------------------------------------------------------------------
(* The refinement.                                                         *)

\* A move that is still planned under the lock has its reason in the store.
LEMMA AppliedHasReason ==
  ASSUME Basics, pc = "lock", NEW c \in Applied
  PROVE  /\ live[c] = "live"
         /\ \/ Policy!MayQuarantine(c) /\ Planned(c, records[c], now) = "quarantined"
            \/ Policy!MayRestore(c) /\ Planned(c, records[c], now) = "active"
            \/ Policy!MayArchive(c) /\ Planned(c, records[c], now) = "archived"
<1> DEFINE r == Present(c)
           t == Planned(c, r, now)
<1>1. /\ c \in Capsule /\ c \in DOMAIN records /\ live[c] = "live"
      /\ t # tier[c] /\ Planned(c, records[c], now) = t
  BY AppliedIs DEF Applied, Basics, TypeOK, PlanHolds
<1>2. /\ r.tier = tier[c] /\ r.pinned = pinned[c] /\ r.superseded = superseded[c] /\ r.bound = bound[c]
      /\ r.created = created[c]
      /\ r.recalled = (records[c].recalled \/ usage[c] \/ \E s \in served[c] : s > mark)
  BY <1>1 DEF Present, Basics, PlanHolds
<1>3. CASE c \in Flagged
  BY <1>1, <1>3 DEF Planned, Policy!MayQuarantine
<1>4. CASE c \notin Flagged /\ r.tier = "archived" /\ r.bound /\ ~r.superseded
  <2>1. t = "active"
    BY <1>4 DEF Planned, Deadlines
  <2> QED BY <1>1, <1>2, <1>4, <2>1 DEF Policy!MayRestore
<1>5. CASE c \notin Flagged /\ ~(r.tier = "archived" /\ r.bound /\ ~r.superseded)
  <2>1. PICK d \in Deadlines(c, r) : d < now /\ t = "archived"
    BY <1>1, <1>2, <1>5 DEF Planned
  <2>2. r.tier = "active" /\ ~r.pinned /\ r.superseded
    BY <2>1 DEF Deadlines
  <2>3. now <= clock /\ now \in Int /\ clock \in Int
    BY DEF Basics, Times, TypeOK
  <2>4. CASE d \in ValidTo[c]
    <3>1. d \in Int
      BY <1>1, <2>4, Constants
    <3>2. d < clock
      BY <2>1, <2>3, <3>1
    <3> QED BY <1>1, <1>2, <1>5, <2>1, <2>2, <2>4, <3>2 DEF Policy!MayArchive, Policy!Outlived
  <2>5. CASE ~r.recalled /\ d = r.created + After
    <3>1. created[c] + After < clock
      BY <1>1, <1>2, <2>1, <2>3, <2>5, Constants DEF Basics, TypeOK
    <3>2. served[c] = {}
      <4>1. \A s \in served[c] : s > mark
        BY <1>1, <1>2, <2>5 DEF Basics, PlanHolds
      <4> QED BY <1>2, <2>5, <4>1
    <3>3. ~Recalled(c)
      BY <1>2, <2>5, <3>2 DEF Recalled
    <3> QED BY <1>1, <1>2, <1>5, <2>1, <2>2, <3>1, <3>3 DEF Policy!MayArchive, Policy!Outlived
  <2> QED BY <2>1, <2>4, <2>5 DEF Deadlines
<1> QED BY <1>3, <1>4, <1>5

\* The transaction is one move of the policy.
LEMMA ApplyMoves ==
  ASSUME Basics, Apply
  PROVE  Policy!Move(Applied) /\ Applied \subseteq Capsule
<1>1. pc = "lock"
  BY DEF Apply
<1>2. Applied \subseteq Capsule
  BY AppliedIs DEF Basics, TypeOK
<1>3. \A c \in Applied : /\ live[c] = "live"
                         /\ Policy!MayArchive(c) \/ Policy!MayRestore(c) \/ Policy!MayQuarantine(c)
  BY <1>1, AppliedHasReason
<1>4. tier' = [c \in Capsule |-> IF c \notin Applied THEN tier[c]
                                 ELSE CASE Policy!MayQuarantine(c) -> "quarantined"
                                        [] Policy!MayRestore(c) -> "active"
                                        [] OTHER -> "archived"]
  <2>1. \A c \in Applied : Planned(c, records[c], now) =
          CASE Policy!MayQuarantine(c) -> "quarantined" [] Policy!MayRestore(c) -> "active" [] OTHER -> "archived"
    BY <1>1, AppliedHasReason DEF Policy!MayQuarantine, Policy!MayRestore, Policy!MayArchive
  <2> QED BY <2>1 DEF Apply, SetTiers
<1>5. bound' \in [Capsule -> BOOLEAN]
  BY ApplyKeepsBound
<1>6. \A c \in Capsule : c \notin Applied => bound'[c] = bound[c]
  BY DEF Apply, SetTiers
<1>7. UNCHANGED <<clock, live, created, superseded, pinned, usage, served>>
  BY DEF Apply, Goto
<1>8. [c \in Capsule |-> Recalled(c)]' = [c \in Capsule |-> Recalled(c)]
  BY <1>7 DEF Recalled
<1> QED BY <1>2, <1>3, <1>4, <1>5, <1>6, <1>7, <1>8 DEF Policy!Move

\* The owner's calls touch no tier, and take no recall back.
LEMMA OthersEdit ==
  ASSUME Basics, Basics', Others
  PROVE  Policy!Tick \/ Policy!Edit
<1> DEFINE Edits == /\ UNCHANGED <<clock, tier, bound>>
                    /\ \A c \in Capsule : /\ live[c] # "absent" => live'[c] # "absent" /\ created'[c] = created[c]
                                          /\ usage[c] => usage'[c]
                                          /\ served[c] \subseteq served'[c]
<1>1. CASE Tick
  <2>1. [c \in Capsule |-> Recalled(c)]' = [c \in Capsule |-> Recalled(c)]
    BY <1>1 DEF Tick, Recalled
  <2> QED BY <1>1, <2>1 DEF Tick, Policy!Tick
<1>2. ASSUME NEW c \in Capsule, Capture(c) PROVE Edits
  BY <1>2 DEF Capture, Canonical, Basics, TypeOK
<1>3. ASSUME NEW c \in Capsule, Forget(c) PROVE Edits
  BY <1>3 DEF Forget, Canonical, Basics, TypeOK
<1>4. ASSUME NEW c \in Capsule, SetPin(c) PROVE Edits
  BY <1>4 DEF SetPin, Canonical
<1>5. ASSUME NEW c \in Capsule, Supersede(c) PROVE Edits
  BY <1>5 DEF Supersede, Canonical
<1>6. ASSUME NEW c \in Capsule, RevokeRelation(c) PROVE Edits
  BY <1>6 DEF RevokeRelation, Canonical
<1>7. ASSUME NEW c \in Capsule, RecordRecall(c) PROVE Edits
  BY <1>7 DEF RecordRecall, Canonical, Basics, TypeOK
<1>8. ASSUME NEW c \in Capsule, ServeContext(c) PROVE Edits
  BY <1>8 DEF ServeContext, Basics, TypeOK
<1>9. ASSUME Edits PROVE Policy!Edit
  <2>1. /\ live' \in [Capsule -> {"absent", "live", "forgotten"}] /\ created' \in [Capsule -> 0..MaxTime]
        /\ superseded' \in [Capsule -> BOOLEAN] /\ pinned' \in [Capsule -> BOOLEAN]
    BY DEF Basics, TypeOK, Times
  <2>2. \A c \in Capsule : Recalled(c) => Recalled(c)'
    BY <1>9 DEF Recalled
  <2>3. \A c \in Capsule : Recalled(c)' \in BOOLEAN
    BY Zenon DEF Recalled, Basics, TypeOK
  <2>4. [c \in Capsule |-> Recalled(c)]' \in [Capsule -> BOOLEAN]
    BY <2>3, Zenon
  <2> QED BY <1>9, <2>1, <2>2, <2>4 DEF Policy!Edit
<1> QED BY <1>1, <1>2, <1>3, <1>4, <1>5, <1>6, <1>7, <1>8, <1>9 DEF Others

\* Every step is a step of the policy or none.
LEMMA StepMaps ==
  ASSUME Basics, Basics', [Next]_vars
  PROVE  [Policy!Next]_(Policy!policyVars)
<1> DEFINE Still == UNCHANGED <<clock, live, created, tier, bound, superseded, pinned, usage, served>>
<1>1. CASE Others
  BY <1>1, OthersEdit DEF Policy!Next
<1>2. CASE Apply
  BY <1>2, ApplyMoves DEF Policy!Next
<1>3. ASSUME Still PROVE UNCHANGED Policy!policyVars
  BY <1>3 DEF Policy!policyVars, Recalled
<1>4. CASE UNCHANGED vars
  BY <1>3, <1>4 DEF vars
<1>5. CASE ReadWatermark \/ ReadGeneration \/ Collect \/ Defer \/ Settle \/ Crash
  <2>1. Still
    BY <1>5 DEF ReadWatermark, ReadGeneration, Collect, Defer, Settle, Crash, Return, Goto
  <2> QED BY <1>3, <2>1
<1> QED BY <1>1, <1>2, <1>4, <1>5 DEF Next, Worker

\* The initial tiers are those of the policy.
LEMMA InitMaps == Init => Policy!Init
<1> SUFFICES ASSUME Init PROVE Policy!Init
  OBVIOUS
<1>1. [c \in Capsule |-> Recalled(c)] = [c \in Capsule |-> FALSE]
  BY DEF Init, Recalled
<1> QED BY <1>1 DEF Init, Policy!Init

\* The worker implements the policy: between its snapshot, its lock and its commit others
\* write, and still no tier moves without a reason that holds as it moves.
THEOREM Implementation == Spec => Implements
<1>1. Basics /\ [Next]_vars => Basics'
  BY BasicsKept
<1>2. Basics /\ Basics' /\ [Next]_vars => [Policy!Next]_(Policy!policyVars)
  BY StepMaps
<1> QED BY BasicsAtFirst, InitMaps, <1>1, <1>2, PTL DEF Spec, Implements, Policy!Spec

-----------------------------------------------------------------------------
(* The cycles that are skipped.                                            *)

\* The store plans no move before one of the instants in D is past.
Quiet(D) ==
  \A c \in Live :
    /\ c \in Flagged => tier[c] = "quarantined"
    /\ c \notin Flagged => /\ ~(tier[c] = "archived" /\ bound[c] /\ ~superseded[c])
                           /\ Deadlines(c, Snapshot[c]) \subseteq D

Noted == UNION {Deadlines(c, records[c]) : c \in DOMAIN records \ plan}
Left == state[2] + (IF plan = {} THEN 0 ELSE 1)

\* A generation remembered as settled and not passed since is one at rest.
MemoryHolds ==
  settled # Unknown => settled[2] <= generation /\ (settled[2] = generation => Quiet(due))

SettleHolds == pc = "settle" => Left <= generation /\ (Left = generation => Quiet(Noted))

ReadHolds == pc \in {"collect", "lock"} => state[2] <= generation

\* Up to the recalls, the records of a plan are the store's while its generation stands.
LockHolds ==
  pc = "lock" /\ state[2] = generation =>
    /\ DOMAIN records = Live /\ plan = Moves(records, now)
    /\ \A c \in Live :
         /\ records[c].tier = tier[c] /\ records[c].pinned = pinned[c]
         /\ records[c].superseded = superseded[c] /\ records[c].bound = bound[c]
         /\ records[c].created = created[c]
         /\ records[c].recalled => usage[c] \/ served[c] # {}

Rest == MemoryHolds /\ SettleHolds /\ ReadHolds /\ LockHolds

\* What a snapshot says of one live capsule.
LEMMA SnapshotFields ==
  ASSUME NEW c \in Live
  PROVE  /\ Snapshot[c].tier = tier[c] /\ Snapshot[c].pinned = pinned[c]
         /\ Snapshot[c].superseded = superseded[c] /\ Snapshot[c].bound = bound[c]
         /\ Snapshot[c].created = created[c] /\ Snapshot[c].recalled = (usage[c] \/ served[c] # {})
BY DEF Snapshot

\* A recall takes deadlines away and adds none.
LEMMA FewerDeadlines ==
  ASSUME NEW c \in Capsule, NEW r, NEW s,
         s.tier = r.tier, s.pinned = r.pinned, s.superseded = r.superseded, s.created = r.created,
         r.recalled => s.recalled
  PROVE  Deadlines(c, s) \subseteq Deadlines(c, r)
BY DEF Deadlines

\* A store that gains recalls alone stays quiet.
LEMMA StillQuiet ==
  ASSUME TypeOK, UNCHANGED <<live, tier, bound, superseded, pinned, created>>,
         \A c \in Capsule : (usage[c] => usage'[c]) /\ served[c] \subseteq served'[c]
  PROVE  /\ Live' = Live
         /\ \A c \in Live : Deadlines(c, Snapshot[c])' \subseteq Deadlines(c, Snapshot[c])
<1>1. Live' = Live /\ Live \subseteq Capsule
  BY DEF Live
<1>2. ASSUME NEW c \in Live PROVE Deadlines(c, Snapshot[c])' \subseteq Deadlines(c, Snapshot[c])
  <2>1. /\ Snapshot[c].tier = tier[c] /\ Snapshot[c].pinned = pinned[c]
        /\ Snapshot[c].superseded = superseded[c] /\ Snapshot[c].created = created[c]
        /\ Snapshot[c].recalled = (usage[c] \/ served[c] # {})
    BY SnapshotFields
  <2>2. /\ (Snapshot[c].tier)' = tier[c] /\ (Snapshot[c].pinned)' = pinned[c]
        /\ (Snapshot[c].superseded)' = superseded[c] /\ (Snapshot[c].created)' = created[c]
        /\ (Snapshot[c].recalled)' = (usage'[c] \/ served'[c] # {})
    BY <1>1 DEF Snapshot
  <2>3. (usage[c] \/ served[c] # {}) => (usage'[c] \/ served'[c] # {})
    BY <1>1
  <2> QED BY <1>1, <2>1, <2>2, <2>3 DEF Deadlines
<1> QED BY <1>1, <1>2

\* What moves no capsule leaves a quiet store quiet, under the old deadlines and under those of this cycle.
LEMMA QuietStays ==
  ASSUME TypeOK, Rest, UNCHANGED <<live, tier, bound, superseded, pinned, created>>,
         \A c \in Capsule : (usage[c] => usage'[c]) /\ served[c] \subseteq served'[c]
  PROVE  /\ Quiet(due) /\ due' = due => Quiet(due)'
         /\ Quiet(Noted) /\ UNCHANGED locals => Quiet(Noted)'
         /\ Quiet(Noted) /\ due' = Noted => Quiet(due)'
<1>1. Live' = Live /\ \A c \in Live : Deadlines(c, Snapshot[c])' \subseteq Deadlines(c, Snapshot[c])
  BY StillQuiet
<1>2. UNCHANGED locals => Noted' = Noted
  BY DEF Noted
<1> QED BY <1>1, <1>2 DEF Quiet

\* A recall row, the clock, or nothing.
LEMMA RecallsRest ==
  ASSUME Basics, Rest, UNCHANGED <<generation, pc, locals, memory>>,
         UNCHANGED <<live, tier, bound, superseded, pinned, created>>,
         \A c \in Capsule : (usage[c] => usage'[c]) /\ served[c] \subseteq served'[c]
  PROVE  Rest'
<1>1. MemoryHolds'
  BY QuietStays DEF Basics, Rest, MemoryHolds
<1>2. SettleHolds'
  <2>1. Left' = Left
    BY DEF Left
  <2> QED BY <2>1, QuietStays DEF Basics, Rest, SettleHolds
<1>3. ReadHolds'
  BY DEF Rest, ReadHolds
<1>4. LockHolds'
  <2>1. Live' = Live /\ Live \subseteq Capsule
    BY DEF Live
  <2>2. Moves(records, now)' = Moves(records, now)
    BY DEF Moves
  <2> QED BY <2>1, <2>2 DEF Rest, LockHolds
<1> QED BY <1>1, <1>2, <1>3, <1>4 DEF Rest

\* A generation of another writer leaves every remembered one behind.
LEMMA CanonicalRests ==
  ASSUME Basics, Rest, generation' = generation + 1, UNCHANGED <<pc, locals, memory>>
  PROVE  Rest'
<1>1. generation \in Nat /\ state[2] \in Nat /\ (settled # Unknown => settled[2] \in Nat)
  BY DEF Basics, TypeOK
<1>2. Left' = Left /\ Left \in Nat
  BY <1>1 DEF Left
<1>3. MemoryHolds'
  BY <1>1 DEF Rest, MemoryHolds
<1>4. SettleHolds'
  BY <1>1, <1>2 DEF Rest, SettleHolds
<1>5. ReadHolds' /\ (pc = "lock" => state[2] < generation')
  BY <1>1 DEF Rest, ReadHolds
<1>6. LockHolds'
  BY <1>1, <1>5 DEF LockHolds
<1> QED BY <1>3, <1>4, <1>5, <1>6 DEF Rest

\* The other writers bump the generation or leave the store as quiet as it was.
LEMMA OthersRest ==
  ASSUME Basics, Rest, Others
  PROVE  Rest'
<1>1. CASE Tick
  BY <1>1, RecallsRest DEF Tick
<1>2. ASSUME NEW c \in Capsule, ServeContext(c) PROVE Rest'
  <2>1. \A x \in Capsule : served[x] \subseteq served'[x]
    BY <1>2 DEF ServeContext, Basics, TypeOK
  <2> QED BY <1>2, <2>1, RecallsRest DEF ServeContext
<1>3. ASSUME NEW n, Canonical(n) PROVE Rest'
  BY <1>3, CanonicalRests DEF Canonical
<1> QED BY <1>1, <1>2, <1>3 DEF Others, Capture, Forget, SetPin, Supersede, RevokeRelation, RecordRecall

\* A call that returns leaves the store and, but for a crash, the memory.
LEMMA ReturnRests ==
  ASSUME Basics, Rest, pc' \in {"idle", "watermark"},
         UNCHANGED <<capsules, tiers, superseded, pinned, recalls, marks>>,
         memory' = memory \/ (settled' = Unknown /\ due' = {})
  PROVE  Rest'
<1>1. MemoryHolds'
  <2>1. CASE settled' = Unknown
    BY <2>1 DEF MemoryHolds
  <2>2. CASE memory' = memory
    BY <2>2, QuietStays DEF Basics, Rest, MemoryHolds
  <2> QED BY <2>1, <2>2
<1> QED BY <1>1 DEF Rest, SettleHolds, ReadHolds, LockHolds

\* A record that is planned to stay is neither flagged elsewhere nor to be restored.
LEMMA StaysQuiet ==
  ASSUME NEW c \in Capsule, NEW r, NEW t, r.tier \in Tiers, Planned(c, r, t) = r.tier
  PROVE  /\ c \in Flagged => r.tier = "quarantined"
         /\ c \notin Flagged => ~(r.tier = "archived" /\ r.bound /\ ~r.superseded)
<1>1. CASE c \in Flagged
  BY <1>1 DEF Planned
<1>2. CASE c \notin Flagged /\ r.tier = "archived" /\ r.bound /\ ~r.superseded
  <2>1. Planned(c, r, t) = "active"
    BY <1>2 DEF Planned, Deadlines
  <2> QED BY <1>2, <2>1
<1> QED BY <1>1, <1>2

\* A cycle is begun against the generation that is then read.
LEMMA ReadGenerationRests ==
  ASSUME Basics, Rest, ReadGeneration
  PROVE  Rest'
<1>1. CASE Return
  BY <1>1, ReturnRests DEF ReadGeneration, Return, Goto
<1>2. CASE Goto("collect") /\ state' = <<state[1], generation>> /\ UNCHANGED <<now, mark, plan, records>>
  <2>1. MemoryHolds'
    BY <1>2, QuietStays DEF ReadGeneration, Goto, Basics, Rest, MemoryHolds
  <2>2. ReadHolds'
    BY <1>2 DEF ReadGeneration, Goto, ReadHolds, Basics, TypeOK
  <2> QED BY <1>2, <2>1, <2>2 DEF Goto, Rest, SettleHolds, LockHolds
<1> QED BY <1>1, <1>2 DEF ReadGeneration

\* A snapshot with no move is quiet until one of its deadlines is past.
LEMMA CollectRests ==
  ASSUME Basics, Rest, Collect
  PROVE  Rest'
<1>1. CASE Return
  BY <1>1, ReturnRests DEF Collect, Return, Goto
<1>2. CASE /\ Moves(Snapshot, now) # {} \/ state = marks
           /\ mark' = reads /\ records' = Snapshot /\ plan' = Moves(Snapshot, now)
           /\ Goto(IF Moves(Snapshot, now) = {} THEN "settle" ELSE "lock")
           /\ UNCHANGED <<now, state>>
  <2>0. UNCHANGED <<live, tier, bound, superseded, pinned, created, usage, served, generation, memory>>
    BY <1>2 DEF Collect, Goto
  <2>1. MemoryHolds'
    BY <2>0, QuietStays DEF Basics, Rest, MemoryHolds
  <2>2. state[2] <= generation
    BY DEF Collect, Rest, ReadHolds
  <2>3. ReadHolds'
    BY <1>2, <2>0, <2>2 DEF ReadHolds
  <2>4. Snapshot' = Snapshot /\ Live' = Live /\ DOMAIN Snapshot = Live /\ Live \subseteq Capsule
    BY <2>0 DEF Snapshot, Live
  <2>5. LockHolds'
    <3>1. plan' = Moves(records, now)'
      BY <1>2 DEF Moves
    <3>2. ASSUME NEW c \in Live PROVE
            /\ records'[c].tier = tier'[c] /\ records'[c].pinned = pinned'[c]
            /\ records'[c].superseded = superseded'[c] /\ records'[c].bound = bound'[c]
            /\ records'[c].created = created'[c]
            /\ records'[c].recalled => usage'[c] \/ served'[c] # {}
      BY <1>2, <2>0, SnapshotFields
    <3> QED BY <1>2, <2>4, <3>1, <3>2 DEF LockHolds
  <2>6. SettleHolds'
    <3> SUFFICES ASSUME pc' = "settle" PROVE Left' <= generation' /\ Quiet(Noted)'
      BY DEF SettleHolds
    <3>1. Moves(Snapshot, now) = {} /\ state = marks
      BY <1>2 DEF Goto
    <3>2. Left' = generation'
      BY <1>2, <2>0, <3>1 DEF Left, Basics, TypeOK
    <3>3. Noted' = UNION {Deadlines(c, Snapshot[c]) : c \in Live}
      BY <1>2, <2>4, <3>1 DEF Noted
    <3>4. ASSUME NEW c \in Live PROVE Planned(c, Snapshot[c], now) = Snapshot[c].tier
      BY <2>4, <3>1 DEF Moves
    <3>5. ASSUME NEW c \in Live PROVE
            /\ c \in Flagged => tier[c] = "quarantined"
            /\ c \notin Flagged => ~(tier[c] = "archived" /\ bound[c] /\ ~superseded[c])
      BY <2>4, <3>4, SnapshotFields, StaysQuiet DEF Basics, TypeOK
    <3>6. \A c \in Live : Deadlines(c, Snapshot[c]) \subseteq Noted'
      BY <3>3
    <3>7. Quiet(Noted)'
      BY <2>0, <2>4, <3>5, <3>6 DEF Quiet
    <3> QED BY <2>0, <3>2, <3>7 DEF Basics, TypeOK
  <2> QED BY <2>1, <2>3, <2>5, <2>6 DEF Rest
<1> QED BY <1>1, <1>2 DEF Collect

\* What a plan's transaction leaves of one capsule: it moved, and has nothing to wait for;
\* or it stays, and waits for no more than its record did.
LEMMA AppliedQuiet ==
  ASSUME Basics, Rest, Apply, NEW c \in Live
  PROVE  /\ c \in Flagged => tier'[c] = "quarantined"
         /\ c \notin Flagged => /\ ~(tier'[c] = "archived" /\ bound'[c] /\ ~superseded[c])
                                /\ Deadlines(c, Snapshot[c])' \subseteq Noted'
<1> DEFINE r == records[c]
           s == Present(c)
<1>1. /\ c \in Capsule /\ c \in DOMAIN records /\ r.tier = tier[c] /\ r.pinned = pinned[c]
      /\ r.superseded = superseded[c] /\ r.bound = bound[c] /\ r.created = created[c] /\ r.tier \in Tiers
      /\ (r.recalled => usage[c] \/ served[c] # {}) /\ live[c] = "live"
      /\ (c \in plan <=> Planned(c, r, now) # r.tier)
  BY DEF Apply, Rest, LockHolds, Live, Moves, Basics, TypeOK
<1>2. /\ s.tier = tier[c] /\ s.pinned = pinned[c] /\ s.superseded = superseded[c] /\ s.bound = bound[c]
  BY DEF Present
<1>3. /\ tier'[c] = IF c \in Applied THEN Planned(c, r, now) ELSE tier[c]
      /\ c \notin Applied => bound'[c] = bound[c]
  BY <1>1 DEF Apply, SetTiers
<1>4. /\ (Snapshot[c].tier)' = tier'[c] /\ (Snapshot[c].pinned)' = pinned[c]
      /\ (Snapshot[c].superseded)' = superseded[c] /\ (Snapshot[c].created)' = created[c]
      /\ (Snapshot[c].recalled)' = (usage[c] \/ served[c] # {})
  <2>1. c \in Live'
    BY DEF Apply, Goto, Live
  <2> QED BY <2>1 DEF Snapshot, Apply, Goto
<1>5. Noted' = UNION {Deadlines(x, records[x]) : x \in DOMAIN records \ Applied}
  BY DEF Noted, Apply
<1>6. CASE c \in Flagged
  BY <1>1, <1>2, <1>3, <1>6 DEF Planned, Applied
<1>7. CASE c \notin Flagged /\ r.tier = "archived" /\ r.bound /\ ~r.superseded
  <2>1. Planned(c, r, now) = "active" /\ Planned(c, s, now) = "active"
    BY <1>1, <1>2, <1>7 DEF Planned, Deadlines
  <2>2. c \in Applied
    BY <1>1, <1>7, <2>1 DEF Applied
  <2>3. Deadlines(c, Snapshot[c])' = {}
    BY <1>1, <1>4, <1>7 DEF Deadlines
  <2> QED BY <1>3, <1>7, <2>1, <2>2, <2>3
<1>8. CASE c \notin Flagged /\ ~(r.tier = "archived" /\ r.bound /\ ~r.superseded) /\ c \in Applied
  <2>1. Planned(c, r, now) # r.tier
    BY <1>1, <1>8, AppliedIs DEF Basics
  <2>2. Planned(c, r, now) = "archived" /\ r.superseded
    BY <1>8, <2>1 DEF Planned, Deadlines
  <2>3. Deadlines(c, Snapshot[c])' = {}
    BY <1>3, <1>4, <1>8, <2>2 DEF Deadlines
  <2> QED BY <1>1, <1>3, <1>8, <2>2, <2>3
<1>9. CASE c \notin Flagged /\ ~(r.tier = "archived" /\ r.bound /\ ~r.superseded) /\ c \notin Applied
  <2>1. Deadlines(c, Snapshot[c])' \subseteq Deadlines(c, r)
    BY <1>1, <1>3, <1>4, <1>9 DEF Deadlines
  <2>2. Deadlines(c, r) \subseteq Noted'
    BY <1>1, <1>5, <1>9
  <2> QED BY <1>1, <1>3, <1>9, <2>1, <2>2
<1> QED BY <1>6, <1>7, <1>8, <1>9

\* The transaction leaves a quiet store, and the settled generation is the one it made.
LEMMA ApplyRests ==
  ASSUME Basics, Rest, Apply
  PROVE  Rest'
<1>1. generation \in Nat /\ state[2] = generation /\ Applied \subseteq plan
  BY AppliedIs DEF Basics, TypeOK, Apply
<1>2. /\ generation' = generation + (IF Applied = {} THEN 0 ELSE 1)
      /\ state' = <<audit', generation>> /\ plan' = Applied /\ pc' = "settle"
      /\ UNCHANGED <<live, superseded, pinned, created, usage, served, memory>>
  BY DEF Apply, Goto
<1>3. Left' = generation'
  BY <1>2 DEF Left
<1>4. Live' = Live
  BY <1>2 DEF Live
<1>5. Quiet(Noted)'
  BY <1>2, <1>4, AppliedQuiet DEF Quiet
<1>6. SettleHolds'
  BY <1>1, <1>2, <1>3, <1>5 DEF SettleHolds
<1>7. MemoryHolds'
  <2>1. CASE Applied = {}
    <3>1. UNCHANGED <<tier, bound, generation>>
      BY <1>1, <1>2, <2>1 DEF Apply, SetTiers, Basics, TypeOK
    <3> QED BY <1>2, <3>1, QuietStays DEF Basics, Rest, MemoryHolds
  <2>2. CASE Applied # {}
    <3>1. settled # Unknown => settled[2] \in Nat /\ settled[2] <= generation
      BY DEF Basics, TypeOK, Rest, MemoryHolds
    <3>2. generation' = generation + 1
      BY <1>2, <2>2
    <3> QED BY <1>1, <1>2, <3>1, <3>2 DEF MemoryHolds
  <2> QED BY <2>1, <2>2
<1> QED BY <1>2, <1>6, <1>7 DEF Rest, ReadHolds, LockHolds

\* What is remembered is what the cycle left.
LEMMA SettleRests ==
  ASSUME Basics, Rest, Settle
  PROVE  Rest'
<1>1. /\ settled' = <<state[1], Left>> /\ due' = Noted /\ pc = "settle" /\ pc' = "idle"
      /\ UNCHANGED <<live, tier, bound, superseded, pinned, created, usage, served, generation>>
  BY DEF Settle, Return, Goto, Left, Noted
<1>2. MemoryHolds'
  BY <1>1, QuietStays DEF Basics, Rest, SettleHolds, MemoryHolds
<1> QED BY <1>1, <1>2 DEF Rest, SettleHolds, ReadHolds, LockHolds

\* Every step keeps what the memory of the worker says of the store.
LEMMA RestKept ==
  ASSUME Basics, Rest, [Next]_vars
  PROVE  Rest'
<1>1. CASE UNCHANGED vars
  BY <1>1, RecallsRest DEF vars
<1>2. CASE ReadWatermark
  <2>1. /\ pc' = "watermark" /\ UNCHANGED <<capsules, tiers, superseded, pinned, recalls, marks, memory>>
    BY <1>2 DEF ReadWatermark, Goto
  <2> QED BY <2>1, ReturnRests
<1>3. CASE Defer
  <2>1. /\ pc' = "idle" /\ UNCHANGED <<capsules, tiers, superseded, pinned, recalls, marks, memory>>
    BY <1>3 DEF Defer, Return, Goto
  <2> QED BY <2>1, ReturnRests
<1>4. CASE Crash
  <2>1. /\ pc' = "idle" /\ UNCHANGED <<capsules, tiers, superseded, pinned, recalls, marks>>
        /\ settled' = Unknown /\ due' = {}
    BY <1>4 DEF Crash, Return, Goto
  <2> QED BY <2>1, ReturnRests
<1> QED BY <1>1, <1>2, <1>3, <1>4, OthersRest, ReadGenerationRests, CollectRests, ApplyRests, SettleRests
        DEF Next, Worker

\* A skip is of a store in which nothing is due.
LEMMA RestSkips ==
  ASSUME Basics, Rest
  PROVE  SkipIsSound
<1> SUFFICES ASSUME pc = "watermark", Skips(<<state[1], generation>>, now) PROVE Moves(Snapshot, now) = {}
  BY DEF SkipIsSound
<1>1. settled = <<state[1], generation>> /\ \A d \in due : now <= d
  BY DEF Skips
<1>2. settled # Unknown /\ settled[2] = generation
  BY <1>1, ConstantsAssumption DEF Basics, TypeOK
<1>3. Quiet(due)
  BY <1>2 DEF Rest, MemoryHolds
<1>4. DOMAIN Snapshot = Live /\ now \in Nat /\ due \subseteq Nat
  BY DEF Snapshot, Basics, TypeOK
<1>5. ASSUME NEW c \in Live PROVE Planned(c, Snapshot[c], now) = Snapshot[c].tier
  <2>1. c \notin Flagged => \A d \in Deadlines(c, Snapshot[c]) : d \in due
    BY <1>3 DEF Quiet
  <2>2. c \notin Flagged => \A d \in Deadlines(c, Snapshot[c]) : now <= d
    BY <1>1, <2>1
  <2>3. now \in Int /\ \A d \in due : d \in Int
    BY <1>4
  <2>4. c \notin Flagged => \A d \in Deadlines(c, Snapshot[c]) : ~(d < now)
    <3>1. \A d : d \in Int /\ now <= d => ~(d < now)
      BY <2>3
    <3> QED BY <2>1, <2>2, <2>3, <3>1, Zenon
  <2> QED BY <1>3, <2>4, SnapshotFields DEF Quiet, Planned
<1> QED BY <1>4, <1>5 DEF Moves

\* A cycle that is skipped had nothing to move: whatever the others wrote, and whenever
\* they wrote it, marks the worker remembers and finds again are those of a store at rest.
THEOREM SkipsAreSound == Spec => []SkipIsSound
<1>1. Init => Rest
  BY DEF Init, Rest, MemoryHolds, SettleHolds, ReadHolds, LockHolds
<1>2. Basics /\ [Next]_vars => Basics'
  BY BasicsKept
<1>3. Basics /\ Rest /\ [Next]_vars => Rest'
  BY RestKept
<1>4. Basics /\ Rest => SkipIsSound
  BY RestSkips
<1> QED BY BasicsAtFirst, <1>1, <1>2, <1>3, <1>4, PTL DEF Spec
=============================================================================
