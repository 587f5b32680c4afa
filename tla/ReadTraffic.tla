---------------------------- MODULE ReadTraffic ----------------------------
(***************************************************************************)
(* The traffic of reads and the two tables derived from it: served, how    *)
(* many live rows list each capsule, kept by triggers; and last_read, when *)
(* each capsule was last read, moved along by whoever appends rows and     *)
(* (re)built in chunks by whoever opens the store.                         *)
(*                                                                         *)
(* src/nmemory/database.py.                                                *)
(*                                                                         *)
(* Nobody is elected: every process that opens the store may build, and    *)
(* appends run between its chunks.  Older builds append rows without       *)
(* last_read; rows are revoked, changed and deleted by any statement, and  *)
(* only the triggers notice.  Every action is one transaction.             *)
(***************************************************************************)
EXTENDS Integers, FiniteSets

CONSTANTS Process, Capsule,
          Chunk,       \* LAST_READ_CHUNK_SIZE
          MaxSeq,      \* bound on the sequence numbers in use
          MaxTime,     \* bound on the times of reads
          OldRows,     \* bound on the rows of a store written before either table
          MaxBatch,    \* bound on the rows of one append
          MaxChanges   \* bound on crashes and on the statements of others

ASSUME ConstantsAssumption ==
  /\ IsFiniteSet(Capsule)
  /\ Chunk \in Nat \ {0} /\ MaxBatch \in Nat \ {0}
  /\ MaxSeq \in Nat /\ OldRows \in 0..MaxSeq /\ MaxTime \in Nat /\ MaxChanges \in Nat

VARIABLES rows,      \* read_traffic, by seq
          kept,      \* the served table and its triggers exist
          counts,    \* served.n
          intact,    \* the last_read tables and triggers exist as this build writes them
          last,      \* last_read.at; Never for a capsule without a row
          covered,   \* last_read_state.covered_seq
          valid,     \* last_read_state.valid: 0 invalid, 1 complete, 2 being built
          pc,        \* where each process is in opening the store
          seen,      \* the covered number an opener read of a complete aggregate
          changes    \* crashes and statements of others so far

served == <<kept, counts>>
lastRead == <<intact, last, covered, valid>>
vars == <<rows, served, lastRead, pc, seen, changes>>

Never == 0
Unreadable == 0   \* the at of a row last_read cannot account for
Unseen == -1
Time == 1..MaxTime
Rows == [ids : SUBSET Capsule, at : Time \cup {Unreadable}, live : BOOLEAN]
Reads == {r \in Rows : r.at # Unreadable /\ r.live}
Places == {"down", "served", "last", "newest", "first", "next", "up"}

-----------------------------------------------------------------------------
(* The traffic, and what a scan of it would say. *)

Latest(S) == CHOOSE x \in S : \A y \in S : y <= x

\* Sequence numbers are max + 1: that of a deleted last row is used again.
Newest(R) == Latest({0} \cup DOMAIN R)

\* The rows of the sequence numbers in S that list the capsule and are not revoked.
Listing(R, S, c) == {s \in S : R[s].live /\ c \in R[s].ids}

\* The live rows in (lo, hi], and whether last_read can account for all of them.
Between(R, lo, hi) == {s \in DOMAIN R : lo < s /\ s <= hi}
Readable(R, lo, hi) == \A s \in Between(R, lo, hi) : R[s].live => R[s].at # Unreadable

Times(R, lo, hi, c) == {R[s].at : s \in Listing(R, Between(R, lo, hi), c)}

\* The upsert keeps the later of two times.
Upserted(L, R, lo, hi) == [c \in Capsule |-> Latest({L[c]} \cup Times(R, lo, hi, c))]

Empty == [c \in Capsule |-> Never]

\* The full scan.
Scan(R) == Upserted(Empty, R, 0, Newest(R))

\* The rows after a statement that takes away the rows in gone and writes those of come.
After(gone, come) ==
  [s \in (DOMAIN rows \ gone) \cup DOMAIN come |-> IF s \in DOMAIN come THEN come[s] ELSE rows[s]]

\* Seeded fault: the update trigger adds what a row lists and forgets what it listed.
CountedAdds(gone, come) ==
  counts' = IF kept
            THEN [c \in Capsule |-> counts[c] + Cardinality(Listing(come, DOMAIN come, c))
                    - (IF DOMAIN come = {} THEN Cardinality(Listing(rows, gone, c)) ELSE 0)]
            ELSE counts

\* The served triggers subtract what the rows listed and add what they list now.
Counted(gone, come) ==
  counts' = IF kept
            THEN [c \in Capsule |-> counts[c] + Cardinality(Listing(come, DOMAIN come, c))
                                              - Cardinality(Listing(rows, gone, c))]
            ELSE counts

-----------------------------------------------------------------------------
(* Opening the store: _add_served and _add_last_read. *)

Open(p) ==
  /\ pc[p] = "down"
  /\ pc' = [pc EXCEPT ![p] = "served"]
  /\ UNCHANGED <<rows, served, lastRead, seen, changes>>

AddServed(p) ==
  /\ pc[p] = "served"
  /\ kept' = TRUE
  /\ counts' = IF kept THEN counts ELSE [c \in Capsule |-> Cardinality(Listing(rows, DOMAIN rows, c))]
  /\ pc' = [pc EXCEPT ![p] = "last"]
  /\ UNCHANGED <<rows, lastRead, seen, changes>>

\* state == (maximum, 1): a reader may answer from the aggregate.
Complete(R) == intact /\ valid = 1 /\ covered = Newest(R)

\* Before the first chunk no lock is held: the state is read, then the newest number.
ReadState(p) ==
  /\ pc[p] = "last"
  /\ seen' = [seen EXCEPT ![p] = IF intact /\ valid = 1 THEN covered ELSE Unseen]
  /\ pc' = [pc EXCEPT ![p] = "newest"]
  /\ UNCHANGED <<rows, served, lastRead, changes>>

ReadNewest(p) ==
  /\ pc[p] = "newest"
  /\ seen' = [seen EXCEPT ![p] = Unseen]
  /\ pc' = [pc EXCEPT ![p] = IF seen[p] = Newest(rows) THEN "up" ELSE "first"]
  /\ UNCHANGED <<rows, served, lastRead, changes>>

\* Seeded fault: an invalid aggregate is taken up where it was left.
StaleResumed(first) == ~intact \/ covered > Newest(rows) \/ (first /\ valid = 2)

\* Seeded fault: whoever finds a build under way starts it over, at every chunk.
StaleAgain(first) == ~intact \/ valid \in {0, 2} \/ covered > Newest(rows)

\* The aggregate is started over, also when another process was building it.
Stale(first) == ~intact \/ valid = 0 \/ covered > Newest(rows) \/ (first /\ valid = 2)

\* Seeded fault: the chunk ends one row late.
ChunkEndLate(from) ==
  LET next == {s \in DOMAIN rows : s > from} IN
  CHOOSE e \in 0..MaxSeq + 1 :
    e = IF next = {} THEN Newest(rows)
        ELSE 1 + Latest({s \in next : Cardinality({r \in next : r <= s}) <= Chunk})

\* The last of the first Chunk rows above from.
ChunkEnd(from) ==
  LET next == {s \in DOMAIN rows : s > from} IN
  IF next = {} THEN Newest(rows) ELSE Latest({s \in next : Cardinality({r \in next : r <= s}) <= Chunk})

\* One chunk: a row that cannot be read ends the build and leaves the refusal.
BuildChunk(p) ==
  LET stale == Stale(pc[p] = "first")
      from == IF stale THEN 0 ELSE covered
      to == ChunkEnd(from)
      base == IF stale THEN Empty ELSE last
  IN
  /\ pc[p] \in {"first", "next"} /\ ~Complete(rows)
  /\ intact' = TRUE
  /\ \/ /\ ~Readable(rows, from, to)
        /\ last' = base /\ covered' = from /\ valid' = 0
        /\ pc' = [pc EXCEPT ![p] = "up"]
     \/ /\ Readable(rows, from, to)
        /\ last' = Upserted(base, rows, from, to) /\ covered' = to
        /\ IF to = Newest(rows) THEN valid' = 1 /\ pc' = [pc EXCEPT ![p] = "up"]
                                ELSE valid' = 2 /\ pc' = [pc EXCEPT ![p] = "next"]
  /\ UNCHANGED <<rows, served, seen, changes>>

\* Seeded fault: an aggregate that once was complete is complete.
BuildDoneOnce(p) ==
  /\ pc[p] \in {"first", "next"} /\ intact /\ valid = 1
  /\ pc' = [pc EXCEPT ![p] = "up"]
  /\ UNCHANGED <<rows, served, lastRead, seen, changes>>

\* Somebody else has built it since.
BuildDone(p) ==
  /\ pc[p] \in {"first", "next"} /\ Complete(rows)
  /\ pc' = [pc EXCEPT ![p] = "up"]
  /\ UNCHANGED <<rows, served, lastRead, seen, changes>>

-----------------------------------------------------------------------------
(* Appending: _write_traffic. *)

\* Seeded fault: rows an older build appended are taken for covered.
CoversAlways(next) == next

\* Rows an older build appended stay uncovered.
Covers(next) == IF covered = Newest(rows) THEN next ELSE covered

\* The rows of one call in one transaction; a complete aggregate moves along.
Append(p, n, batch) ==
  LET previous == Newest(rows)
      come == [s \in previous + 1 .. previous + n |-> batch[s - previous]]
  IN
  /\ pc[p] = "up" /\ previous + n <= MaxSeq
  /\ rows' = After({}, come)
  /\ Counted({}, come)
  /\ IF intact /\ valid = 1
     THEN /\ last' = Upserted(last, rows', previous, previous + n)
          /\ covered' = Covers(previous + n)
     ELSE UNCHANGED <<last, covered>>
  /\ UNCHANGED <<kept, intact, valid, pc, seen, changes>>

-----------------------------------------------------------------------------
(* Crashes and the statements of others. *)

Changed == changes < MaxChanges /\ changes' = changes + 1

Crash(p) ==
  /\ pc[p] # "down" /\ Changed
  /\ pc' = [pc EXCEPT ![p] = "down"]
  /\ seen' = [seen EXCEPT ![p] = Unseen]
  /\ UNCHANGED <<rows, served, lastRead>>

\* An older build, or a shell, appends a row.
OtherAppend(row) ==
  LET come == [s \in {Newest(rows) + 1} |-> row] IN
  /\ Newest(rows) < MaxSeq /\ Changed
  /\ rows' = After({}, come)
  /\ Counted({}, come)
  /\ UNCHANGED <<kept, lastRead, pc, seen>>

\* A row is revoked, restored or rewritten: the trigger marks the aggregate invalid.
OtherUpdate(s, row) ==
  LET come == [x \in {s} |-> row] IN
  /\ s \in DOMAIN rows /\ Changed
  /\ rows' = After({s}, come)
  /\ Counted({s}, come)
  /\ valid' = 0
  /\ UNCHANGED <<kept, intact, last, covered, pc, seen>>

OtherDelete(s) ==
  LET come == [x \in {} |-> 0] IN
  /\ s \in DOMAIN rows /\ Changed
  /\ rows' = After({s}, come)
  /\ Counted({s}, come)
  /\ valid' = 0
  /\ UNCHANGED <<kept, intact, last, covered, pc, seen>>

\* A build with other definitions drops or changes the objects of last_read.
OtherDrop ==
  /\ intact /\ Changed
  /\ intact' = FALSE
  /\ UNCHANGED <<rows, served, last, covered, valid, pc, seen>>

-----------------------------------------------------------------------------
\* A new store, or one written before either table.
Init ==
  /\ kept \in BOOLEAN /\ intact = kept /\ valid = (IF intact THEN 1 ELSE 0)
  /\ \E n \in (IF kept THEN {0} ELSE 0..OldRows) : rows \in [1..n -> Rows]
  /\ counts = Empty /\ last = Empty /\ covered = 0
  /\ pc = [p \in Process |-> "down"]
  /\ seen = [p \in Process |-> Unseen]
  /\ changes = 0

BuildStep(p) == AddServed(p) \/ ReadState(p) \/ ReadNewest(p) \/ BuildChunk(p) \/ BuildDone(p)

Next ==
  \/ \E p \in Process :
       \/ Open(p) \/ BuildStep(p) \/ Crash(p)
       \/ \E n \in 1..MaxBatch : \E batch \in [1..n -> Reads] : Append(p, n, batch)
  \/ \E row \in Rows : OtherAppend(row) \/ \E s \in 1..MaxSeq : OtherUpdate(s, row)
  \/ \E s \in 1..MaxSeq : OtherDelete(s)
  \/ OtherDrop

Spec == Init /\ [][Next]_vars

\* A process that opens the store runs on.
FairSpec == Spec /\ \A p \in Process : WF_vars(BuildStep(p))

-----------------------------------------------------------------------------
(* Properties. *)

TypeOK ==
  /\ DOMAIN rows \subseteq 1..MaxSeq /\ \A s \in DOMAIN rows : rows[s] \in Rows
  /\ kept \in BOOLEAN /\ counts \in [Capsule -> 0..MaxSeq]
  /\ intact \in BOOLEAN /\ last \in [Capsule -> 0..MaxTime] /\ covered \in 0..MaxSeq /\ valid \in 0..2
  /\ pc \in [Process -> Places] /\ seen \in [Process -> {Unseen} \cup 0..MaxSeq] /\ changes \in 0..MaxChanges

\* Whoever answers from the aggregate answers what the full scan would: a row appended by an
\* older build, revoked in the middle of a build or deleted with its number used again is
\* never missed, and no row the aggregate cannot account for is taken for covered.
LastReadExact == Complete(rows) => last = Scan(rows) /\ Readable(rows, 0, Newest(rows))

\* A build under way holds no time of a revoked, changed or deleted row: the later time would
\* win for ever.
BuildHoldsNoStaleTime ==
  intact /\ valid # 0 =>
    \A c \in Capsule : last[c] # Never => last[c] \in Times(rows, 0, Newest(rows), c)

\* The served counts are what a scan would count, whoever wrote, revoked or deleted the rows.
ServedExact == kept => \A c \in Capsule : counts[c] = Cardinality(Listing(rows, DOMAIN rows, c))

\* A builder leaves a complete aggregate, unless a live row cannot be read.
BuilderLeavesComplete ==
  [][\A p \in Process :
       pc[p] \in {"first", "next"} /\ pc'[p] = "up" =>
         Complete(rows)' \/ ~Readable(rows, 0, Newest(rows))]_vars

\* Builders that start one another's work over still end.
BuilderEnds == \A p \in Process : pc[p] = "first" ~> pc[p] \in {"up", "down"}
=============================================================================
