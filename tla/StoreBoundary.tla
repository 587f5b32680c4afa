--------------------------- MODULE StoreBoundary ---------------------------
(***************************************************************************)
(* The tool boundary of nmemory's store: one transaction per call, a read  *)
(* snapshot until the call declares a write and the write lock from then   *)
(* on; the generation that counts canonical commits; the read traffic that *)
(* is written after the call, whatever became of it; and the work cursor   *)
(* that a changed generation refuses.                                      *)
(*                                                                         *)
(* src/nmemory/database.py, queries/work.py, repositories/capsules.py.     *)
(*                                                                         *)
(* Each caller is one thread of one process.  Rows are canonical records   *)
(* with an identity that dedups them; bookkeeping tables are a counter.    *)
(* How the lock is waited for is WriteAdmission's.                         *)
(***************************************************************************)
EXTENDS Integers

CONSTANTS Caller, Row,
          MaxNotes,    \* bound on bookkeeping writes
          MaxTraffic,  \* bound on recorded traffic rows
          Nobody, None

VARIABLES rows, notes, generation, traffic,  \* the store: copies of each row, ...
          lock,                              \* who holds its write lock
          pc, kind, defer,                   \* each caller: where it is, and what call
          snap, seen,                        \* its read snapshot; the rows it has read there
          began, bump, work, noted,          \* _State.began and .bump; what its transaction changed
          pending, deferred,                 \* _State.traffic and .deferred
          page, cursor,                      \* a page's generation; the cursor the client keeps
          recorded, dropped                  \* traffic recorded, and lost

store == <<rows, notes, generation>>
call == <<kind, defer, snap, seen, began, bump, work, noted, page>>
vars == <<store, traffic, lock, pc, call, pending, deferred, cursor, recorded, dropped>>

Traffic == 1..MaxTraffic
\* A page's cursor: the generation it is bound to, and the rows that page was cut from.
Cursors == [generation : Nat, rows : SUBSET Row]

ASSUME ConstantsAssumption ==
  /\ MaxNotes \in Nat /\ MaxTraffic \in Nat
  /\ Nobody \notin Caller /\ None \notin Cursors

Init ==
  /\ rows = [r \in Row |-> 0] /\ notes = 0 /\ generation = 1 /\ traffic = [i \in Traffic |-> 0]
  /\ lock = Nobody
  /\ pc = [c \in Caller |-> "out"]
  /\ kind = [c \in Caller |-> "tool"] /\ defer = [c \in Caller |-> FALSE]
  /\ snap = [c \in Caller |-> None] /\ seen = [c \in Caller |-> {}]
  /\ began = [c \in Caller |-> FALSE] /\ bump = [c \in Caller |-> FALSE]
  /\ work = [c \in Caller |-> {}] /\ noted = [c \in Caller |-> FALSE]
  /\ pending = [c \in Caller |-> {}] /\ deferred = [c \in Caller |-> {}]
  /\ page = [c \in Caller |-> None] /\ cursor = [c \in Caller |-> None]
  /\ recorded = {} /\ dropped = {}

-----------------------------------------------------------------------------
(* Entry, and reads.                                                       *)

Present == [generation |-> generation, rows |-> {r \in Row : rows[r] > 0}]

\* Seeded fault: every read before the write is a read of its own.
ReadsAnew(c) == Present

\* A deferred BEGIN: the first read fixes the snapshot of the whole call.
Reads(c) == IF snap[c] = None THEN Present ELSE snap[c]

\* What the call reads: its snapshot, or under the lock the store and its own changes.
View(c) == IF began[c] THEN [Present EXCEPT !.rows = @ \cup work[c]] ELSE Reads(c)

Enter(c, k, d) ==
  /\ pc[c] = "out" /\ deferred[c] = {}
  /\ pc' = [pc EXCEPT ![c] = IF k = "page" THEN "page" ELSE "in"]
  /\ kind' = [kind EXCEPT ![c] = k]
  /\ defer' = [defer EXCEPT ![c] = d]
  /\ snap' = [snap EXCEPT ![c] = None] /\ seen' = [seen EXCEPT ![c] = {}]
  /\ began' = [began EXCEPT ![c] = FALSE] /\ bump' = [bump EXCEPT ![c] = FALSE]
  /\ work' = [work EXCEPT ![c] = {}] /\ noted' = [noted EXCEPT ![c] = FALSE]
  /\ pending' = [pending EXCEPT ![c] = {}]
  /\ page' = [page EXCEPT ![c] = None]
  /\ UNCHANGED <<store, traffic, lock, deferred, cursor, recorded, dropped>>

\* A handler looks the rows up before it declares a write.
Look(c) ==
  /\ pc[c] = "in" /\ ~began[c] /\ snap[c] = None
  /\ snap' = [snap EXCEPT ![c] = Reads(c)]
  /\ seen' = [seen EXCEPT ![c] = Reads(c).rows]
  /\ UNCHANGED <<store, traffic, lock, pc, kind, defer, began, bump, work, noted, page,
                 pending, deferred, cursor, recorded, dropped>>

\* work_page: the generation first; a cursor of another one is refused.
PageGeneration(c) ==
  /\ pc[c] = "page" /\ page[c] = None
  /\ snap' = [snap EXCEPT ![c] = Reads(c)]
  /\ IF cursor[c] # None /\ cursor[c].generation # View(c).generation
     THEN /\ pc' = [pc EXCEPT ![c] = "failed"]
          /\ cursor' = [cursor EXCEPT ![c] = None]
          /\ UNCHANGED page
     ELSE /\ page' = [page EXCEPT ![c] = View(c).generation]
          /\ UNCHANGED <<pc, cursor>>
  /\ UNCHANGED <<store, traffic, lock, kind, defer, seen, began, bump, work, noted,
                 pending, deferred, recorded, dropped>>

\* Seeded fault: the rows do not wait for the generation they are bound to.
PageRowsFirst(c) ==
  /\ pc[c] = "page"
  /\ cursor' = [cursor EXCEPT ![c] = [generation |-> page[c], rows |-> View(c).rows]]
  /\ pc' = [pc EXCEPT ![c] = "in"]
  /\ UNCHANGED <<store, traffic, lock, call, pending, deferred, recorded, dropped>>

PageRows(c) ==
  /\ pc[c] = "page" /\ page[c] # None
  /\ cursor' = [cursor EXCEPT ![c] = [generation |-> page[c], rows |-> View(c).rows]]
  /\ pc' = [pc EXCEPT ![c] = "in"]
  /\ UNCHANGED <<store, traffic, lock, call, pending, deferred, recorded, dropped>>

\* record_traffic, inside a boundary.
Record(c) ==
  /\ pc[c] = "in"
  /\ \E i \in Traffic \ recorded :
       /\ \A j \in Traffic \ recorded : i <= j
       /\ recorded' = recorded \cup {i}
       /\ pending' = [pending EXCEPT ![c] = @ \cup {i}]
  /\ UNCHANGED <<store, traffic, lock, pc, call, deferred, cursor, dropped>>

-----------------------------------------------------------------------------
(* Writes.                                                                 *)

\* begin_write, the first of the boundary: the read snapshot ends where the wait begins.
BeginWrite(c, canonical) ==
  /\ pc[c] = "in" /\ kind[c] = "tool" /\ ~began[c]
  /\ snap' = [snap EXCEPT ![c] = None]
  /\ bump' = [bump EXCEPT ![c] = canonical]
  /\ pc' = [pc EXCEPT ![c] = "wait"]
  /\ UNCHANGED <<store, traffic, lock, kind, defer, seen, began, work, noted, page,
                 pending, deferred, cursor, recorded, dropped>>

\* A writer called inside: the lock is taken once, the bump is declared each time.
JoinWrite(c, canonical) ==
  /\ pc[c] = "in" /\ began[c]
  /\ bump' = [bump EXCEPT ![c] = @ \/ canonical]
  /\ UNCHANGED <<store, traffic, lock, pc, kind, defer, snap, seen, began, work, noted, page,
                 pending, deferred, cursor, recorded, dropped>>

Acquire(c) ==
  /\ pc[c] = "wait" /\ lock = Nobody
  /\ lock' = c
  /\ began' = [began EXCEPT ![c] = TRUE]
  /\ pc' = [pc EXCEPT ![c] = "in"]
  /\ UNCHANGED <<store, traffic, kind, defer, snap, seen, bump, work, noted, page,
                 pending, deferred, cursor, recorded, dropped>>

\* BusyError out of begin_write: the call fails.
Busy(c) ==
  /\ pc[c] = "wait"
  /\ pc' = [pc EXCEPT ![c] = "failed"]
  /\ UNCHANGED <<store, traffic, lock, call, pending, deferred, cursor, recorded, dropped>>

\* Seeded fault: the writer trusts the look it took before the lock.
FoundBefore(c, r) == r \in seen[c] \cup work[c]

\* A canonical writer (@writes) looks for its row again under the lock.
Found(c, r) == r \in View(c).rows

Insert(c, r) ==
  /\ pc[c] = "in" /\ began[c] /\ bump[c]
  /\ ~Found(c, r)
  /\ work' = [work EXCEPT ![c] = @ \cup {r}]
  /\ UNCHANGED <<store, traffic, lock, pc, kind, defer, snap, seen, began, bump, noted, page,
                 pending, deferred, cursor, recorded, dropped>>

\* A bookkeeping row (an observation, a verification).
Note(c) ==
  /\ pc[c] = "in" /\ began[c] /\ notes < MaxNotes
  /\ noted' = [noted EXCEPT ![c] = TRUE]
  /\ UNCHANGED <<store, traffic, lock, pc, kind, defer, snap, seen, began, bump, work, page,
                 pending, deferred, cursor, recorded, dropped>>

-----------------------------------------------------------------------------
(* The end of the boundary, and the traffic after it.                      *)

Changed(c) == work[c] # {} \/ noted[c]

\* ok: the block returned; a domain error, an isError result or an exception is not ok.
\* A generation that cannot be moved rolls back like a raise.
Commits(c, ok) == began[c] /\ ok

\* Seeded fault: a rollback takes the recorded traffic with it.
OwedIfCommitted(c, ok) == IF ok THEN pending[c] ELSE {}

\* The traffic a call leaves behind: also the call that rolled back.
Owed(c, ok) == pending[c]

Leave(c, ok) ==
  /\ pc[c] \in (IF ok THEN {"in"} ELSE {"in", "page", "failed"})
  /\ IF Commits(c, ok)
     THEN /\ rows' = [r \in Row |-> IF r \in work[c] THEN rows[r] + 1 ELSE rows[r]]
          /\ notes' = IF noted[c] THEN notes + 1 ELSE notes
          /\ generation' = IF bump[c] /\ Changed(c) THEN generation + 1 ELSE generation
     ELSE UNCHANGED store
  /\ lock' = IF began[c] THEN Nobody ELSE lock
  /\ began' = [began EXCEPT ![c] = FALSE] /\ bump' = [bump EXCEPT ![c] = FALSE]
  /\ snap' = [snap EXCEPT ![c] = None] /\ seen' = [seen EXCEPT ![c] = {}]
  /\ work' = [work EXCEPT ![c] = {}] /\ noted' = [noted EXCEPT ![c] = FALSE]
  /\ page' = [page EXCEPT ![c] = None]
  /\ IF defer[c]
     THEN /\ deferred' = [deferred EXCEPT ![c] = Owed(c, ok)]
          /\ pending' = [pending EXCEPT ![c] = {}]
          /\ pc' = [pc EXCEPT ![c] = "out"]
     ELSE /\ pending' = [pending EXCEPT ![c] = Owed(c, ok)]
          /\ pc' = [pc EXCEPT ![c] = IF Owed(c, ok) = {} THEN "out" ELSE "post"]
          /\ UNCHANGED deferred
  /\ UNCHANGED <<traffic, kind, defer, cursor, recorded, dropped>>

\* Seeded fault: the write waits for the lock however long it is held.
WrittenWhenFree(ids, ok) ==
  /\ lock = Nobody
  /\ traffic' = [i \in Traffic |-> IF i \in ids THEN traffic[i] + 1 ELSE traffic[i]]
  /\ UNCHANGED dropped

\* _write_traffic: its own short write; an error is swallowed and the rows are gone.
Written(ids, ok) ==
  /\ ok => lock = Nobody
  /\ IF ok THEN traffic' = [i \in Traffic |-> IF i \in ids THEN traffic[i] + 1 ELSE traffic[i]]
                /\ UNCHANGED dropped
           ELSE dropped' = dropped \cup ids /\ UNCHANGED traffic

WriteTraffic(c, ok) ==
  /\ pc[c] = "post"
  /\ Written(pending[c], ok)
  /\ pending' = [pending EXCEPT ![c] = {}]
  /\ pc' = [pc EXCEPT ![c] = "out"]
  /\ UNCHANGED <<store, lock, call, deferred, cursor, recorded>>

\* flush_traffic: after the answer is on the wire, or before the next call.
FlushTraffic(c, ok) ==
  /\ pc[c] = "out" /\ deferred[c] # {}
  /\ Written(deferred[c], ok)
  /\ deferred' = [deferred EXCEPT ![c] = {}]
  /\ UNCHANGED <<store, lock, pc, call, pending, cursor, recorded>>

\* The process dies: SQLite rolls its transaction back, the client keeps its cursor.
Crash(c) ==
  /\ pc[c] # "out" \/ deferred[c] # {}
  /\ dropped' = dropped \cup pending[c] \cup deferred[c]
  /\ lock' = IF lock = c THEN Nobody ELSE lock
  /\ pc' = [pc EXCEPT ![c] = "out"]
  /\ began' = [began EXCEPT ![c] = FALSE] /\ bump' = [bump EXCEPT ![c] = FALSE]
  /\ snap' = [snap EXCEPT ![c] = None] /\ seen' = [seen EXCEPT ![c] = {}]
  /\ work' = [work EXCEPT ![c] = {}] /\ noted' = [noted EXCEPT ![c] = FALSE]
  /\ page' = [page EXCEPT ![c] = None]
  /\ pending' = [pending EXCEPT ![c] = {}] /\ deferred' = [deferred EXCEPT ![c] = {}]
  /\ UNCHANGED <<store, traffic, kind, defer, cursor, recorded>>

-----------------------------------------------------------------------------
Steps(c) ==
  \/ Look(c) \/ PageGeneration(c) \/ PageRows(c) \/ Record(c)
  \/ \E canonical \in BOOLEAN : BeginWrite(c, canonical) \/ JoinWrite(c, canonical)
  \/ Acquire(c) \/ Busy(c) \/ Note(c)
  \/ \E r \in Row : Insert(c, r)

Ends(c) == \E ok \in BOOLEAN : Leave(c, ok) \/ WriteTraffic(c, ok) \/ FlushTraffic(c, ok)

Next ==
  \E c \in Caller :
    \/ \E k \in {"tool", "page"}, d \in BOOLEAN : Enter(c, k, d)
    \/ Steps(c) \/ Ends(c) \/ Crash(c)

Spec == Init /\ [][Next]_vars

\* A handler returns, and the stdio server flushes after each answer.
FairSpec == Spec /\ \A c \in Caller : WF_vars(Acquire(c) \/ Busy(c) \/ Ends(c))

-----------------------------------------------------------------------------
TypeOK ==
  /\ rows \in [Row -> Nat] /\ notes \in Nat /\ generation \in Nat /\ traffic \in [Traffic -> Nat]
  /\ lock \in Caller \cup {Nobody}
  /\ pc \in [Caller -> {"out", "in", "page", "wait", "failed", "post"}]
  /\ kind \in [Caller -> {"tool", "page"}] /\ defer \in [Caller -> BOOLEAN]
  /\ snap \in [Caller -> Cursors \cup {None}] /\ seen \in [Caller -> SUBSET Row]
  /\ began \in [Caller -> BOOLEAN] /\ bump \in [Caller -> BOOLEAN]
  /\ work \in [Caller -> SUBSET Row] /\ noted \in [Caller -> BOOLEAN]
  /\ pending \in [Caller -> SUBSET Traffic] /\ deferred \in [Caller -> SUBSET Traffic]
  /\ page \in [Caller -> Nat \cup {None}] /\ cursor \in [Caller -> Cursors \cup {None}]
  /\ recorded \subseteq Traffic /\ dropped \subseteq Traffic

\* A race of two writers of one record ends with one row: whatever a call read before it
\* declared its write, it decides again under the lock.
OneRowEach == \A r \in Row : rows[r] <= 1

\* A generation names one state of the canonical rows: a cursor still accepted was cut from
\* the rows that are there, and two cursors of one generation from the same rows.  No
\* canonical change goes by without its generation, and no page mixes two states.
CursorsAgree ==
  /\ \A c \in Caller :
       cursor[c] # None /\ cursor[c].generation = generation => cursor[c].rows = Present.rows
  /\ \A c, d \in Caller :
       cursor[c] # None /\ cursor[d] # None /\ cursor[c].generation = cursor[d].generation
         => cursor[c].rows = cursor[d].rows

\* Every traffic row is written once, or still held, or was lost to a failed write or a
\* crash; a call that rolls back loses none of its rows.
Held == UNION {pending[c] \cup deferred[c] : c \in Caller}

TrafficAccounted ==
  /\ \A i \in Traffic : traffic[i] = IF i \in recorded \ (Held \cup dropped) THEN 1 ELSE 0
  /\ Held \cap dropped = {}

\* A recorded row does not wait for ever.
TrafficSettles == \A i \in Traffic : i \in Held ~> i \notin Held
=============================================================================
