--------------------------- MODULE Consolidation ---------------------------
(***************************************************************************)
(* The embedding worker's consolidation: it reads the store's marks, plans *)
(* the tier moves on one read snapshot, ends that snapshot to take the     *)
(* write lock, checks the marks again, plans every move again as the store *)
(* now stands and applies what is left, then remembers what it settled so  *)
(* that it may skip the next cycles.                                       *)
(*                                                                         *)
(* src/nmemory/embedding_index.py, store.py, consolidate.py,               *)
(* queries/sidecars.py, repositories/tiers.py.                             *)
(*                                                                         *)
(* Other processes capture, forget, pin, supersede, revoke and recall      *)
(* between any two steps.  A write transaction is one step here (the lock  *)
(* itself is WriteAdmission's).  Contents, reasons and the journal's text  *)
(* are left out: bound says whether the journal names the present archive  *)
(* as one made for supersession.                                           *)
(***************************************************************************)
EXTENDS Integers, FiniteSets

CONSTANTS Capsule,
          Flagged,   \* imported, tainted and with scanner findings
          ValidTo,   \* ValidTo[c]: {freshness.valid_to}, or {} when it has none
          After,     \* ARCHIVE_AFTER_DAYS
          MaxTime,   \* bound on the clock
          MaxEdits,  \* bound on the other writers' generations
          MaxReads,  \* bound on the read_traffic rows
          MaxCrashes, \* bound on the owner's deaths
          Unknown    \* _consolidated_state before the first settled cycle

ASSUME ConstantsAssumption ==
  /\ IsFiniteSet(Capsule)
  /\ Flagged \subseteq Capsule
  /\ ValidTo \in [Capsule -> SUBSET Nat]
  /\ \A c \in Capsule : \A s, t \in ValidTo[c] : s = t
  /\ After \in Nat /\ MaxTime \in Nat /\ MaxEdits \in Nat /\ MaxReads \in Nat
  /\ MaxCrashes \in Nat
  /\ Unknown \notin Int \X Int

VARIABLES clock,
          live, created,         \* capsules: the row, and created_at
          tier, movedAt, bound,  \* tiers, the instant of its last tier event, supersession_archives
          superseded, pinned,    \* live supersedes edge; latest pin event
          usage, served, reads,  \* usage.recall_count > 0; ranking rows naming it; max(read_traffic.seq)
          audit, generation,     \* audit_watermark(), get_generation()
          pc, now, state, mark, plan, records,  \* _consolidate's locals
          settled,               \* _consolidated_state
          due,                   \* the deadlines _consolidation_due is the least of
          edits, crashes         \* how many canonical calls the others made; how often the owner died

capsules == <<live, created>>
tiers == <<tier, movedAt, bound>>
recalls == <<usage, served, reads>>
marks == <<audit, generation>>
locals == <<now, state, mark, plan, records>>
memory == <<settled, due>>
vars == <<clock, capsules, tiers, superseded, pinned, recalls, marks, pc, locals, memory, edits, crashes>>

Tiers == {"active", "archived", "quarantined"}
Record == [tier : Tiers, pinned : BOOLEAN, superseded : BOOLEAN, bound : BOOLEAN,
           recalled : BOOLEAN, created : Nat]

-----------------------------------------------------------------------------
(* The planner: pure rules over one record.                                *)

\* Seeded fault: the age is taken off the birth, not added to it.
DeadlinesBackwards(c, r) ==
  IF r.pinned \/ r.tier # "active" \/ ~r.superseded THEN {}
  ELSE ValidTo[c] \cup (IF r.recalled THEN {} ELSE {r.created - After})

\* archive_deadline: the instants after which the record may be archived.
Deadlines(c, r) ==
  IF r.pinned \/ r.tier # "active" \/ ~r.superseded THEN {}
  ELSE ValidTo[c] \cup (IF r.recalled THEN {} ELSE {r.created + After})

\* Seeded fault: an archive outlives the supersession it was made for.
PlannedForEver(c, r, t) ==
  CASE c \in Flagged -> "quarantined"
    [] c \notin Flagged /\ \E d \in Deadlines(c, r) : d < t -> "archived"
    [] OTHER -> r.tier

\* protective_tier_moves for one record: the tier it is moved to, or its own.
Planned(c, r, t) ==
  CASE c \in Flagged -> "quarantined"
    [] c \notin Flagged /\ r.tier = "archived" /\ r.bound /\ ~r.superseded -> "active"
    [] c \notin Flagged /\ \E d \in Deadlines(c, r) : d < t -> "archived"
    [] OTHER -> r.tier

Moves(rs, t) == {c \in DOMAIN rs : Planned(c, rs[c], t) # rs[c].tier}

Live == {c \in Capsule : live[c] = "live"}

\* consolidation_record over digest_sidecars: what one snapshot says of each live capsule.
Snapshot ==
  [c \in Live |-> [tier |-> tier[c], pinned |-> pinned[c], superseded |-> superseded[c],
                   bound |-> bound[c], recalled |-> usage[c] \/ served[c] # {},
                   created |-> created[c]]]

-----------------------------------------------------------------------------
Init ==
  /\ clock = 0
  /\ live \in [Capsule -> {"absent", "live"}] /\ created = [c \in Capsule |-> 0]
  \* An archive older than the journal is nobody's to undo.
  /\ tier \in [Capsule -> {"active", "archived"}]
  /\ \A c \in Capsule : live[c] = "absent" => tier[c] = "active"
  /\ movedAt = [c \in Capsule |-> -1] /\ bound = [c \in Capsule |-> FALSE]
  /\ superseded = [c \in Capsule |-> FALSE] /\ pinned = [c \in Capsule |-> FALSE]
  /\ usage = [c \in Capsule |-> FALSE] /\ served = [c \in Capsule |-> {}] /\ reads = 0
  /\ audit = 0 /\ generation = 1
  /\ pc = "idle" /\ now = 0 /\ state = <<0, 0>> /\ mark = 0 /\ plan = {} /\ records = <<>>
  /\ settled = Unknown /\ due = {}
  /\ edits = 0 /\ crashes = 0

-----------------------------------------------------------------------------
(* The other writers: each canonical call is one generation.               *)

Tick ==
  /\ clock < MaxTime
  /\ clock' = clock + 1
  /\ UNCHANGED <<capsules, tiers, superseded, pinned, recalls, marks, pc, locals, memory, edits, crashes>>

\* n: the audit rows the call appends beside its change.
Canonical(n) ==
  /\ edits < MaxEdits
  /\ edits' = edits + 1
  /\ generation' = generation + 1
  /\ audit' = audit + n
  /\ UNCHANGED <<clock, tiers, pc, locals, memory, crashes>>

Capture(c) ==
  /\ live[c] = "absent"
  /\ live' = [live EXCEPT ![c] = "live"]
  /\ created' = [created EXCEPT ![c] = clock]
  /\ Canonical(0)
  /\ UNCHANGED <<superseded, pinned, recalls>>

Forget(c) ==
  /\ live[c] = "live"
  /\ live' = [live EXCEPT ![c] = "forgotten"]
  /\ Canonical(1)
  /\ UNCHANGED <<created, superseded, pinned, recalls>>

SetPin(c) ==
  /\ live[c] = "live"
  /\ pinned' = [pinned EXCEPT ![c] = ~@]
  /\ Canonical(1)
  /\ UNCHANGED <<capsules, superseded, recalls>>

\* add_relation, and the reassertion of a revoked edge: no audit row.
Supersede(c) ==
  /\ live[c] = "live" /\ ~superseded[c]
  /\ superseded' = [superseded EXCEPT ![c] = TRUE]
  /\ Canonical(0)
  /\ UNCHANGED <<capsules, pinned, recalls>>

RevokeRelation(c) ==
  /\ superseded[c]
  /\ superseded' = [superseded EXCEPT ![c] = FALSE]
  /\ Canonical(1)
  /\ UNCHANGED <<capsules, pinned, recalls>>

\* record_recall, from a retrieve.
RecordRecall(c) ==
  /\ live[c] = "live"
  /\ usage' = [usage EXCEPT ![c] = TRUE]
  /\ Canonical(0)
  /\ UNCHANGED <<capsules, superseded, pinned, served, reads>>

\* A context call's read_traffic row: bookkeeping, so neither mark moves.
ServeContext(c) ==
  /\ reads < MaxReads /\ live[c] = "live"
  /\ reads' = reads + 1
  /\ served' = [served EXCEPT ![c] = @ \cup {reads + 1}]
  /\ UNCHANGED <<clock, capsules, tiers, superseded, pinned, usage, marks, pc, locals, memory, edits,
                 crashes>>

-----------------------------------------------------------------------------
(* The worker.                                                             *)

Goto(step) == pc' = step /\ UNCHANGED <<clock, capsules, superseded, pinned, recalls, edits>>

\* The call returns, and its locals go with it.
Return ==
  /\ Goto("idle")
  /\ now' = 0 /\ state' = <<0, 0>> /\ mark' = 0 /\ plan' = {} /\ records' = <<>>

ReadWatermark ==
  /\ pc = "idle"
  /\ now' = clock
  /\ state' = <<audit, 0>>
  /\ Goto("watermark")
  /\ UNCHANGED <<tiers, marks, mark, plan, records, memory>>

\* Seeded fault: the deadlines it noted are not looked at.
SkipsUnlessMoved(s, t) == s = settled

\* Nothing moved since it settled, and nothing has come due.
Skips(s, t) == s = settled /\ \A d \in due : t <= d

\* The second half of the pair is another connection's read.
ReadGeneration ==
  /\ pc = "watermark"
  /\ LET read == <<state[1], generation>> IN
       \/ Skips(read, now) /\ Return
       \/ ~Skips(read, now) /\ Goto("collect") /\ state' = read
                            /\ UNCHANGED <<now, mark, plan, records>>
  /\ UNCHANGED <<tiers, marks, memory>>

Collect ==
  /\ pc = "collect"
  /\ LET moves == Moves(Snapshot, now) IN
       \/ moves = {} /\ state # marks /\ Return
       \/ /\ moves # {} \/ state = marks
          /\ mark' = reads
          /\ records' = Snapshot
          /\ plan' = moves
          /\ Goto(IF moves = {} THEN "settle" ELSE "lock")
          /\ UNCHANGED <<now, state>>
  /\ UNCHANGED <<tiers, marks, memory>>

\* Seeded fault: only usage is counted again, not the read traffic past the mark.
PresentByUsage(c) ==
  [tier |-> tier[c], pinned |-> pinned[c], superseded |-> superseded[c], bound |-> bound[c],
   recalled |-> records[c].recalled \/ usage[c], created |-> records[c].created]

\* The record as the store holds it under the lock; a recall is one the snapshot had not
\* seen: any usage, or a ranking row past the mark.
Present(c) ==
  [tier |-> tier[c], pinned |-> pinned[c], superseded |-> superseded[c], bound |-> bound[c],
   recalled |-> records[c].recalled \/ usage[c] \/ \E s \in served[c] : s > mark,
   created |-> records[c].created]

\* The moves the store still plans.
Applied ==
  {c \in plan : /\ live[c] = "live"
                /\ Planned(c, Present(c), now) # tier[c]
                /\ Planned(c, Present(c), now) = Planned(c, records[c], now)}

\* A tier event that shares its instant with the one before it binds no reason.
SetTiers(S) ==
  /\ tier' = [c \in Capsule |-> IF c \in S THEN Planned(c, records[c], now) ELSE tier[c]]
  /\ bound' = [c \in Capsule |-> IF c \in S THEN tier'[c] = "archived" /\ movedAt[c] # now
                                 ELSE bound[c]]
  /\ movedAt' = [c \in Capsule |-> IF c \in S THEN now ELSE movedAt[c]]

\* begin_write, the second look at the marks and apply_tier_moves: one transaction.
Apply ==
  /\ pc = "lock" /\ state = marks
  /\ SetTiers(Applied)
  /\ audit' = audit + Cardinality(Applied)
  /\ generation' = generation + (IF Applied = {} THEN 0 ELSE 1)
  /\ state' = <<audit', generation>>
  /\ plan' = Applied
  /\ Goto("settle")
  /\ UNCHANGED <<now, mark, records, memory>>

\* _ConsolidationDeferred, or a lock that never came: the boundary rolls back.
Defer ==
  /\ pc = "lock"
  /\ Return
  /\ UNCHANGED <<tiers, marks, memory>>

\* Seeded fault: the marks are read again after the commit.
SettleOnPresent ==
  /\ pc = "settle"
  /\ settled' = marks
  /\ due' = UNION {Deadlines(c, records[c]) : c \in DOMAIN records \ plan}
  /\ Return
  /\ UNCHANGED <<tiers, marks>>

\* After the commit: the marks it left, computed and not read again.
Settle ==
  /\ pc = "settle"
  /\ settled' = <<state[1], state[2] + (IF plan = {} THEN 0 ELSE 1)>>
  /\ due' = UNION {Deadlines(c, records[c]) : c \in DOMAIN records \ plan}
  /\ Return
  /\ UNCHANGED <<tiers, marks>>

\* The owner of the election dies; another process's worker starts with no memory.
Crash ==
  /\ crashes < MaxCrashes
  /\ crashes' = crashes + 1
  /\ settled' = Unknown
  /\ due' = {}
  /\ Return
  /\ UNCHANGED <<tiers, marks>>

-----------------------------------------------------------------------------
Others ==
  \/ Tick
  \/ \E c \in Capsule : \/ Capture(c) \/ Forget(c) \/ SetPin(c) \/ Supersede(c)
                        \/ RevokeRelation(c) \/ RecordRecall(c) \/ ServeContext(c)

Worker == (ReadWatermark \/ ReadGeneration \/ Collect \/ Apply \/ Defer \/ Settle) /\ UNCHANGED crashes

Next == Others \/ Worker \/ Crash

Spec == Init /\ [][Next]_vars

\* The elected worker's loop runs on, and a lock it may have is not refused for ever.
FairSpec ==
  /\ Spec
  /\ WF_vars(Worker)
  /\ SF_vars(Apply /\ UNCHANGED crashes)

-----------------------------------------------------------------------------
TypeOK ==
  /\ clock \in Nat
  /\ live \in [Capsule -> {"absent", "live", "forgotten"}] /\ created \in [Capsule -> Nat]
  /\ tier \in [Capsule -> Tiers] /\ movedAt \in [Capsule -> Int] /\ bound \in [Capsule -> BOOLEAN]
  /\ superseded \in [Capsule -> BOOLEAN] /\ pinned \in [Capsule -> BOOLEAN]
  /\ usage \in [Capsule -> BOOLEAN] /\ served \in [Capsule -> SUBSET Nat] /\ reads \in Nat
  /\ audit \in Nat /\ generation \in Nat
  /\ pc \in {"idle", "watermark", "collect", "lock", "settle"}
  /\ now \in Nat /\ state \in Nat \X Nat /\ mark \in Nat /\ plan \subseteq Capsule
  /\ DOMAIN records \subseteq Capsule /\ \A c \in DOMAIN records : records[c] \in Record
  /\ settled = Unknown \/ settled \in Nat \X Nat
  /\ due \subseteq Nat
  /\ edits \in Nat /\ crashes \in Nat

\* Skipping is sound: whenever the marks the worker read answer its memory and nothing it
\* noted has come due, the store as it stands plans no move at all.
SkipIsSound ==
  pc = "watermark" /\ Skips(<<state[1], generation>>, now) => Moves(Snapshot, now) = {}

Recalled(c) == usage[c] \/ served[c] # {}
Policy == INSTANCE TierPolicy WITH recalled <- [c \in Capsule |-> Recalled(c)]

\* Whatever the worker read, planned and settled along the way, each tier it moves has
\* its reason in the store at the instant it moves: no plan outlives the facts it was made on.
Implements == Policy!Spec

Due(c) == live[c] = "live" /\ Policy!MayArchive(c)
Revoked(c) == live[c] = "live" /\ Policy!MayRestore(c)

\* Nothing that is due is skipped or deferred for ever.
OutlivedIsArchived == \A c \in Capsule \ Flagged : Due(c) ~> ~Due(c)

\* A supersession archive ends with the supersession.
RevokedIsRestored == \A c \in Capsule \ Flagged : Revoked(c) ~> ~Revoked(c)
=============================================================================
