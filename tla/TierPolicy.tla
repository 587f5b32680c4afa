----------------------------- MODULE TierPolicy -----------------------------
(***************************************************************************)
(* What consolidation promises of the tiers, with no worker, snapshot or   *)
(* lock in sight: whenever a tier moves, the reason for the move holds at  *)
(* that very instant of the store.                                         *)
(*                                                                         *)
(* src/nmemory/consolidate.py: an archive is of a superseded, unpinned     *)
(* record that expired or that nothing ever recalled; a supersession       *)
(* archive ends with the supersession; flagged imports are quarantined.    *)
(***************************************************************************)
EXTENDS Integers

CONSTANTS Capsule,
          Flagged,   \* imported, tainted and with scanner findings
          ValidTo,   \* ValidTo[c]: {the end of its validity}, or {}
          After,     \* ARCHIVE_AFTER_DAYS
          MaxTime    \* bound on the clock

VARIABLES clock, live, created, tier, bound, superseded, pinned, recalled

policyVars == <<clock, live, created, tier, bound, superseded, pinned, recalled>>

\* The record may be put away now: expired, or stale with no recall at all.
Outlived(c) ==
  \/ \E end \in ValidTo[c] : end < clock
  \/ ~recalled[c] /\ created[c] + After < clock

MayArchive(c) == c \notin Flagged /\ tier[c] = "active" /\ superseded[c] /\ ~pinned[c] /\ Outlived(c)
MayRestore(c) == c \notin Flagged /\ tier[c] = "archived" /\ bound[c] /\ ~superseded[c]
MayQuarantine(c) == c \in Flagged /\ tier[c] # "quarantined"

-----------------------------------------------------------------------------
Init ==
  /\ clock = 0
  /\ live \in [Capsule -> {"absent", "live"}]
  /\ created = [c \in Capsule |-> 0]
  /\ tier \in [Capsule -> {"active", "archived"}]
  /\ bound = [c \in Capsule |-> FALSE]
  /\ superseded = [c \in Capsule |-> FALSE]
  /\ pinned = [c \in Capsule |-> FALSE]
  /\ recalled = [c \in Capsule |-> FALSE]

\* Any set of live records moves at once, each for a reason that holds as it moves.
Move(S) ==
  /\ \A c \in S : live[c] = "live" /\ (MayArchive(c) \/ MayRestore(c) \/ MayQuarantine(c))
  /\ tier' = [c \in Capsule |-> IF c \notin S THEN tier[c]
                                ELSE CASE MayQuarantine(c) -> "quarantined"
                                       [] MayRestore(c) -> "active"
                                       [] OTHER -> "archived"]
  /\ bound' \in [Capsule -> BOOLEAN]
  /\ \A c \in Capsule : c \notin S => bound'[c] = bound[c]
  /\ UNCHANGED <<clock, live, created, superseded, pinned, recalled>>

Tick == clock < MaxTime /\ clock' = clock + 1
        /\ UNCHANGED <<live, created, tier, bound, superseded, pinned, recalled>>

\* The owner's calls: they never touch a tier, and a recall is never taken back.
Edit ==
  /\ live' \in [Capsule -> {"absent", "live", "forgotten"}]
  /\ created' \in [Capsule -> 0..MaxTime]
  /\ \A c \in Capsule : live[c] # "absent" => live'[c] # "absent" /\ created'[c] = created[c]
  /\ superseded' \in [Capsule -> BOOLEAN]
  /\ pinned' \in [Capsule -> BOOLEAN]
  /\ recalled' \in [Capsule -> BOOLEAN]
  /\ \A c \in Capsule : recalled[c] => recalled'[c]
  /\ UNCHANGED <<clock, tier, bound>>

Next == (\E S \in SUBSET Capsule : Move(S)) \/ Tick \/ Edit

Spec == Init /\ [][Next]_policyVars
=============================================================================
