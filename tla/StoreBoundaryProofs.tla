------------------------- MODULE StoreBoundaryProofs -------------------------
(***************************************************************************)
(* Proofs about StoreBoundary, for every set of callers and rows: IInv is  *)
(* an inductive invariant, so a record is written once, a generation names *)
(* one state of the rows, and no traffic row is lost with a rollback or    *)
(* written twice.                                                          *)
(***************************************************************************)
EXTENDS StoreBoundary, TLAPS

\* Who holds the lock is in a call that began its write; only such a call has work, and it
\* declared the change.  A page never writes.
Boundary ==
  \A c \in Caller :
    /\ began[c] => pc[c] = "in" /\ lock = c
    /\ lock = c => began[c]
    /\ work[c] # {} => began[c] /\ bump[c]
    /\ \A r \in work[c] : rows[r] = 0
    /\ pc[c] = "page" /\ page[c] # None => snap[c] # None /\ page[c] = snap[c].generation

\* The states of the rows that somebody has: the store, a snapshot, a cursor.
Known(v) == v # None /\ (v = Present \/ \E c \in Caller : v = snap[c] \/ v = cursor[c])

\* None of them is of a generation to come, and those of one generation have the same rows.
OneStateEach ==
  \A v \in Cursors : Known(v) =>
    /\ v.generation <= generation
    /\ \A w \in Cursors : Known(w) /\ w.generation = v.generation => w.rows = v.rows

\* A traffic row is held by one call at most, and by one that has not returned or deferred it.
HeldOnce ==
  /\ dropped \subseteq recorded
  /\ \A c \in Caller :
       /\ pending[c] \cup deferred[c] \subseteq recorded
       /\ pending[c] # {} => pc[c] # "out"
       /\ deferred[c] # {} => pc[c] = "out"
       /\ \A d \in Caller \ {c} :
            (pending[c] \cup deferred[c]) \cap (pending[d] \cup deferred[d]) = {}

IInv == TypeOK /\ Boundary /\ OneStateEach /\ HeldOnce /\ OneRowEach /\ TrafficAccounted

\* A row is held when some call has it.
LEMMA HeldBy == \A i : i \in Held <=> \E c \in Caller : i \in pending[c] \cup deferred[c]
BY DEF Held

\* The present state is one of those a cursor may name.
LEMMA PresentIs == TypeOK => Present \in Cursors /\ Present # None /\ Present.generation = generation
BY ConstantsAssumption DEF TypeOK, Present, Cursors

\* What a call reads is such a state too, and so is what it reads under its lock.
LEMMA ReadsIs ==
  ASSUME TypeOK, NEW c \in Caller
  PROVE  /\ Reads(c) \in Cursors /\ View(c) \in Cursors
         /\ Reads(c).generation \in Nat /\ Reads(c).rows \subseteq Row
         /\ View(c).generation \in Nat /\ View(c).rows \subseteq Row
<1>1. Present \in Cursors
  BY PresentIs
<1>2. Reads(c) \in Cursors
  BY <1>1 DEF TypeOK, Reads
<1>3. View(c) \in Cursors
  BY <1>1, <1>2 DEF TypeOK, View, Cursors
<1> QED BY <1>2, <1>3 DEF Cursors

\* A step that adds at most the new present state, and moves the generation when the rows
\* change, leaves one state to each generation.
LEMMA KnownGrows ==
  ASSUME TypeOK, TypeOK', OneStateEach,
         \A v \in Cursors : Known(v)' => Known(v) \/ v = Present',
         Present' = Present \/ generation' > generation, generation' >= generation
  PROVE  OneStateEach'
<1>1. Present \in Cursors /\ Present # None /\ Present.generation = generation
  BY PresentIs
<1>2. Present' \in Cursors /\ Present' # None /\ Present'.generation = generation'
  BY PresentIs, ConstantsAssumption DEF TypeOK, Present, Cursors
<1>3. Known(Present)
  BY <1>1 DEF Known
<1>4. generation \in Nat /\ generation' \in Nat /\ \A v \in Cursors : v.generation \in Nat
  BY DEF TypeOK, Cursors
<1>5. \A v \in Cursors : Known(v)' => v.generation <= generation'
  BY <1>2, <1>4 DEF OneStateEach
<1>6. ASSUME NEW v \in Cursors, Known(v)', NEW w \in Cursors, Known(w)', w.generation = v.generation
      PROVE  w.rows = v.rows
  <2>1. CASE Known(v) /\ Known(w)
    BY <1>6, <2>1 DEF OneStateEach
  <2>2. CASE Present' = Present
    BY <1>1, <1>3, <1>6, <2>2 DEF OneStateEach
  <2>3. CASE generation' > generation
    BY <1>2, <1>4, <1>6, <2>3 DEF OneStateEach
  <2> QED BY <1>6, <2>1, <2>2, <2>3
<1> QED BY <1>5, <1>6 DEF OneStateEach

\* A call begins with nothing of its own.
LEMMA EnterKeeps ==
  ASSUME IInv, NEW c \in Caller, NEW k \in {"tool", "page"}, NEW d \in BOOLEAN, Enter(c, k, d)
  PROVE  IInv'
<1>1. TypeOK'
  BY ConstantsAssumption, PresentIs DEF IInv, Enter, TypeOK, store, call
<1>2. Boundary'
  BY ConstantsAssumption, PresentIs DEF IInv, Enter, TypeOK, Boundary, store, call, Present
<1>3. OneStateEach'
  <2>1. Present' = Present \/ generation' > generation
    BY DEF Enter, Present, store, IInv, TypeOK, Boundary
  <2>2. \A v \in Cursors : Known(v)' => Known(v) \/ v = Present'
    BY ConstantsAssumption DEF IInv, TypeOK, Enter, Known, store, call, Present
  <2>3. generation' >= generation
    BY DEF Enter, store, IInv, TypeOK
  <2> QED BY <1>1, <2>1, <2>2, <2>3, KnownGrows DEF IInv
<1>4. HeldOnce'
  BY DEF IInv, Enter, TypeOK, HeldOnce
<1>5. OneRowEach'
  BY DEF IInv, Enter, TypeOK, Boundary, OneRowEach, store
<1>6. TrafficAccounted'
  BY <1>1, HeldBy DEF IInv, Enter, TypeOK, HeldOnce, TrafficAccounted, Held
<1> QED BY <1>1, <1>2, <1>3, <1>4, <1>5, <1>6 DEF IInv

\* A look takes the snapshot of the call, which is the store if it is the first read.
LEMMA LookKeeps ==
  ASSUME IInv, NEW c \in Caller, Look(c)
  PROVE  IInv'
<1>1. TypeOK'
  BY ReadsIs DEF IInv, Look, TypeOK, store, call
<1>2. Boundary'
  BY ConstantsAssumption, PresentIs DEF IInv, Look, Reads, TypeOK, Boundary, store, call, Present
<1>3. OneStateEach'
  <2>1. Present' = Present \/ generation' > generation
    BY DEF Look, Reads, Present, store, IInv, TypeOK, Boundary
  <2>2. \A v \in Cursors : Known(v)' => Known(v) \/ v = Present'
    BY ConstantsAssumption DEF IInv, TypeOK, Look, Reads, Known, store, call, Present
  <2>3. generation' >= generation
    BY DEF Look, Reads, store, IInv, TypeOK
  <2> QED BY <1>1, <2>1, <2>2, <2>3, KnownGrows DEF IInv
<1>4. HeldOnce'
  BY DEF IInv, Look, Reads, TypeOK, HeldOnce
<1>5. OneRowEach'
  BY DEF IInv, Look, Reads, TypeOK, Boundary, OneRowEach, store
<1>6. TrafficAccounted'
  BY <1>1, HeldBy DEF IInv, Look, Reads, TypeOK, HeldOnce, TrafficAccounted, Held
<1> QED BY <1>1, <1>2, <1>3, <1>4, <1>5, <1>6 DEF IInv

\* A page takes the generation of its snapshot.
LEMMA PageGenerationKeeps ==
  ASSUME IInv, NEW c \in Caller, PageGeneration(c)
  PROVE  IInv'
<1>1. TypeOK'
  BY ReadsIs DEF IInv, PageGeneration, TypeOK, store, call
<1>2. Boundary'
  BY ConstantsAssumption, PresentIs DEF IInv, PageGeneration, Reads, View, TypeOK, Boundary, store, call, Present
<1>3. OneStateEach'
  <2>1. Present' = Present \/ generation' > generation
    BY DEF PageGeneration, Reads, View, Present, store, IInv, TypeOK, Boundary
  <2>2. \A v \in Cursors : Known(v)' => Known(v) \/ v = Present'
    BY ConstantsAssumption DEF IInv, TypeOK, PageGeneration, Reads, View, Known, store, call, Present
  <2>3. generation' >= generation
    BY DEF PageGeneration, Reads, View, store, IInv, TypeOK
  <2> QED BY <1>1, <2>1, <2>2, <2>3, KnownGrows DEF IInv
<1>4. HeldOnce'
  BY DEF IInv, PageGeneration, Reads, View, TypeOK, HeldOnce
<1>5. OneRowEach'
  BY DEF IInv, PageGeneration, Reads, View, TypeOK, Boundary, OneRowEach, store
<1>6. TrafficAccounted'
  BY <1>1, HeldBy DEF IInv, PageGeneration, Reads, View, TypeOK, HeldOnce, TrafficAccounted, Held
<1> QED BY <1>1, <1>2, <1>3, <1>4, <1>5, <1>6 DEF IInv

\* A cursor is the snapshot the page was read from.
LEMMA PageRowsKeeps ==
  ASSUME IInv, NEW c \in Caller, PageRows(c)
  PROVE  IInv'
<1>1. snap[c] # None /\ snap[c] \in Cursors /\ page[c] = snap[c].generation /\ View(c) = snap[c]
  BY DEF IInv, PageRows, TypeOK, Boundary, View, Reads
<1>2. [generation |-> page[c], rows |-> View(c).rows] = snap[c]
  BY <1>1 DEF Cursors
<1>3. cursor' = [cursor EXCEPT ![c] = snap[c]]
  BY <1>2 DEF PageRows
<1>4. TypeOK'
  BY <1>1, <1>3 DEF IInv, PageRows, TypeOK, store, call
<1>5. Boundary'
  BY DEF IInv, PageRows, TypeOK, Boundary, store, call
<1>6. OneStateEach'
  <2>1. Present' = Present
    BY DEF PageRows, Present, store
  <2>2. \A v \in Cursors : Known(v)' => Known(v)
    BY <1>3, <2>1 DEF IInv, TypeOK, PageRows, Known, store, call
  <2>3. generation' = generation /\ generation \in Nat
    BY DEF PageRows, store, IInv, TypeOK
  <2> QED BY <1>4, <2>1, <2>2, <2>3, KnownGrows DEF IInv
<1>7. HeldOnce'
  BY DEF IInv, PageRows, TypeOK, HeldOnce
<1>8. OneRowEach'
  BY DEF IInv, PageRows, OneRowEach, store
<1>9. TrafficAccounted'
  BY DEF IInv, PageRows, TrafficAccounted, Held
<1> QED BY <1>4, <1>5, <1>6, <1>7, <1>8, <1>9 DEF IInv

\* A row that is recorded was not held by anybody before.
LEMMA RecordKeeps ==
  ASSUME IInv, NEW c \in Caller, Record(c)
  PROVE  IInv'
<1>1. TypeOK'
  BY ConstantsAssumption, PresentIs DEF IInv, Record, TypeOK, store, call
<1>2. Boundary'
  BY ConstantsAssumption, PresentIs DEF IInv, Record, TypeOK, Boundary, store, call, Present
<1>3. OneStateEach'
  <2>1. Present' = Present \/ generation' > generation
    BY DEF Record, Present, store, IInv, TypeOK, Boundary
  <2>2. \A v \in Cursors : Known(v)' => Known(v) \/ v = Present'
    BY ConstantsAssumption DEF IInv, TypeOK, Record, Known, store, call, Present
  <2>3. generation' >= generation
    BY DEF Record, store, IInv, TypeOK
  <2> QED BY <1>1, <2>1, <2>2, <2>3, KnownGrows DEF IInv
<1>4. HeldOnce'
  BY DEF IInv, Record, TypeOK, HeldOnce
<1>5. OneRowEach'
  BY DEF IInv, Record, TypeOK, Boundary, OneRowEach, store
<1>6. TrafficAccounted'
  BY <1>1, HeldBy DEF IInv, Record, TypeOK, HeldOnce, TrafficAccounted, Held
<1> QED BY <1>1, <1>2, <1>3, <1>4, <1>5, <1>6 DEF IInv

\* A write that is declared has changed nothing yet.
LEMMA BeginWriteKeeps ==
  ASSUME IInv, NEW c \in Caller, NEW canonical \in BOOLEAN, BeginWrite(c, canonical)
  PROVE  IInv'
<1>1. TypeOK'
  BY ConstantsAssumption, PresentIs DEF IInv, BeginWrite, TypeOK, store, call
<1>2. Boundary'
  BY ConstantsAssumption, PresentIs DEF IInv, BeginWrite, TypeOK, Boundary, store, call, Present
<1>3. OneStateEach'
  <2>1. Present' = Present \/ generation' > generation
    BY DEF BeginWrite, Present, store, IInv, TypeOK, Boundary
  <2>2. \A v \in Cursors : Known(v)' => Known(v) \/ v = Present'
    BY ConstantsAssumption DEF IInv, TypeOK, BeginWrite, Known, store, call, Present
  <2>3. generation' >= generation
    BY DEF BeginWrite, store, IInv, TypeOK
  <2> QED BY <1>1, <2>1, <2>2, <2>3, KnownGrows DEF IInv
<1>4. HeldOnce'
  BY DEF IInv, BeginWrite, TypeOK, HeldOnce
<1>5. OneRowEach'
  BY DEF IInv, BeginWrite, TypeOK, Boundary, OneRowEach, store
<1>6. TrafficAccounted'
  BY <1>1, HeldBy DEF IInv, BeginWrite, TypeOK, HeldOnce, TrafficAccounted, Held
<1> QED BY <1>1, <1>2, <1>3, <1>4, <1>5, <1>6 DEF IInv

\* A further declaration adds to the first.
LEMMA JoinWriteKeeps ==
  ASSUME IInv, NEW c \in Caller, NEW canonical \in BOOLEAN, JoinWrite(c, canonical)
  PROVE  IInv'
<1>1. TypeOK'
  BY ConstantsAssumption, PresentIs DEF IInv, JoinWrite, TypeOK, store, call
<1>2. Boundary'
  BY ConstantsAssumption, PresentIs DEF IInv, JoinWrite, TypeOK, Boundary, store, call, Present
<1>3. OneStateEach'
  <2>1. Present' = Present \/ generation' > generation
    BY DEF JoinWrite, Present, store, IInv, TypeOK, Boundary
  <2>2. \A v \in Cursors : Known(v)' => Known(v) \/ v = Present'
    BY ConstantsAssumption DEF IInv, TypeOK, JoinWrite, Known, store, call, Present
  <2>3. generation' >= generation
    BY DEF JoinWrite, store, IInv, TypeOK
  <2> QED BY <1>1, <2>1, <2>2, <2>3, KnownGrows DEF IInv
<1>4. HeldOnce'
  BY DEF IInv, JoinWrite, TypeOK, HeldOnce
<1>5. OneRowEach'
  BY DEF IInv, JoinWrite, TypeOK, Boundary, OneRowEach, store
<1>6. TrafficAccounted'
  BY <1>1, HeldBy DEF IInv, JoinWrite, TypeOK, HeldOnce, TrafficAccounted, Held
<1> QED BY <1>1, <1>2, <1>3, <1>4, <1>5, <1>6 DEF IInv

\* The lock is taken from nobody.
LEMMA AcquireKeeps ==
  ASSUME IInv, NEW c \in Caller, Acquire(c)
  PROVE  IInv'
<1>1. TypeOK'
  BY ConstantsAssumption, PresentIs DEF IInv, Acquire, TypeOK, store, call
<1>2. Boundary'
  BY ConstantsAssumption, PresentIs DEF IInv, Acquire, TypeOK, Boundary, store, call, Present
<1>3. OneStateEach'
  <2>1. Present' = Present \/ generation' > generation
    BY DEF Acquire, Present, store, IInv, TypeOK, Boundary
  <2>2. \A v \in Cursors : Known(v)' => Known(v) \/ v = Present'
    BY ConstantsAssumption DEF IInv, TypeOK, Acquire, Known, store, call, Present
  <2>3. generation' >= generation
    BY DEF Acquire, store, IInv, TypeOK
  <2> QED BY <1>1, <2>1, <2>2, <2>3, KnownGrows DEF IInv
<1>4. HeldOnce'
  BY DEF IInv, Acquire, TypeOK, HeldOnce
<1>5. OneRowEach'
  BY DEF IInv, Acquire, TypeOK, Boundary, OneRowEach, store
<1>6. TrafficAccounted'
  BY <1>1, HeldBy DEF IInv, Acquire, TypeOK, HeldOnce, TrafficAccounted, Held
<1> QED BY <1>1, <1>2, <1>3, <1>4, <1>5, <1>6 DEF IInv

\* A call that gets no lock changes nothing.
LEMMA BusyKeeps ==
  ASSUME IInv, NEW c \in Caller, Busy(c)
  PROVE  IInv'
<1>1. TypeOK'
  BY ConstantsAssumption, PresentIs DEF IInv, Busy, TypeOK, store, call
<1>2. Boundary'
  BY ConstantsAssumption, PresentIs DEF IInv, Busy, TypeOK, Boundary, store, call, Present
<1>3. OneStateEach'
  <2>1. Present' = Present \/ generation' > generation
    BY DEF Busy, Present, store, IInv, TypeOK, Boundary
  <2>2. \A v \in Cursors : Known(v)' => Known(v) \/ v = Present'
    BY ConstantsAssumption DEF IInv, TypeOK, Busy, Known, store, call, Present
  <2>3. generation' >= generation
    BY DEF Busy, store, IInv, TypeOK
  <2> QED BY <1>1, <2>1, <2>2, <2>3, KnownGrows DEF IInv
<1>4. HeldOnce'
  BY DEF IInv, Busy, TypeOK, HeldOnce
<1>5. OneRowEach'
  BY DEF IInv, Busy, TypeOK, Boundary, OneRowEach, store
<1>6. TrafficAccounted'
  BY <1>1, HeldBy DEF IInv, Busy, TypeOK, HeldOnce, TrafficAccounted, Held
<1> QED BY <1>1, <1>2, <1>3, <1>4, <1>5, <1>6 DEF IInv

\* A bookkeeping row leaves the canonical rows alone.
LEMMA NoteKeeps ==
  ASSUME IInv, NEW c \in Caller, Note(c)
  PROVE  IInv'
<1>1. TypeOK'
  BY ConstantsAssumption, PresentIs DEF IInv, Note, TypeOK, store, call
<1>2. Boundary'
  BY ConstantsAssumption, PresentIs DEF IInv, Note, TypeOK, Boundary, store, call, Present
<1>3. OneStateEach'
  <2>1. Present' = Present \/ generation' > generation
    BY DEF Note, Present, store, IInv, TypeOK, Boundary
  <2>2. \A v \in Cursors : Known(v)' => Known(v) \/ v = Present'
    BY ConstantsAssumption DEF IInv, TypeOK, Note, Known, store, call, Present
  <2>3. generation' >= generation
    BY DEF Note, store, IInv, TypeOK
  <2> QED BY <1>1, <2>1, <2>2, <2>3, KnownGrows DEF IInv
<1>4. HeldOnce'
  BY DEF IInv, Note, TypeOK, HeldOnce
<1>5. OneRowEach'
  BY DEF IInv, Note, TypeOK, Boundary, OneRowEach, store
<1>6. TrafficAccounted'
  BY <1>1, HeldBy DEF IInv, Note, TypeOK, HeldOnce, TrafficAccounted, Held
<1> QED BY <1>1, <1>2, <1>3, <1>4, <1>5, <1>6 DEF IInv

\* A row that is inserted was looked for under the lock.
LEMMA InsertKeeps ==
  ASSUME IInv, NEW c \in Caller, NEW r \in Row, Insert(c, r)
  PROVE  IInv'
<1>1. TypeOK'
  BY ConstantsAssumption, PresentIs DEF IInv, Insert, Found, View, TypeOK, store, call
<1>2. Boundary'
  BY ConstantsAssumption, PresentIs DEF IInv, Insert, Found, View, TypeOK, Boundary, store, call, Present
<1>3. OneStateEach'
  <2>1. Present' = Present \/ generation' > generation
    BY DEF Insert, Found, View, Present, store, IInv, TypeOK, Boundary
  <2>2. \A v \in Cursors : Known(v)' => Known(v) \/ v = Present'
    BY ConstantsAssumption DEF IInv, TypeOK, Insert, Found, View, Known, store, call, Present
  <2>3. generation' >= generation
    BY DEF Insert, Found, View, store, IInv, TypeOK
  <2> QED BY <1>1, <2>1, <2>2, <2>3, KnownGrows DEF IInv
<1>4. HeldOnce'
  BY DEF IInv, Insert, Found, View, TypeOK, HeldOnce
<1>5. OneRowEach'
  BY DEF IInv, Insert, Found, View, TypeOK, Boundary, OneRowEach, store
<1>6. TrafficAccounted'
  BY <1>1, HeldBy DEF IInv, Insert, Found, View, TypeOK, HeldOnce, TrafficAccounted, Held
<1> QED BY <1>1, <1>2, <1>3, <1>4, <1>5, <1>6 DEF IInv

\* A commit that changes rows moves the generation; what was recorded is owed.
LEMMA LeaveKeeps ==
  ASSUME IInv, NEW c \in Caller, NEW ok \in BOOLEAN, Leave(c, ok)
  PROVE  IInv'
<1>1. TypeOK'
  <2>1. rows' \in [Row -> Nat] /\ notes' \in Nat /\ generation' \in Nat
    BY DEF IInv, Leave, Commits, TypeOK, store
  <2>2. pending' \in [Caller -> SUBSET Traffic] /\ deferred' \in [Caller -> SUBSET Traffic]
    <3>1. pending[c] \in SUBSET Traffic
      BY DEF IInv, TypeOK
    <3>2. CASE defer[c]
      BY <3>1, <3>2 DEF IInv, Leave, Owed, TypeOK
    <3>3. CASE ~defer[c]
      BY <3>1, <3>3 DEF IInv, Leave, Owed, TypeOK
    <3> QED BY <3>2, <3>3
  <2>3. pc' \in [Caller -> {"out", "in", "page", "wait", "failed", "post"}]
    BY DEF IInv, Leave, TypeOK
  <2> QED BY <2>1, <2>2, <2>3 DEF IInv, Leave, TypeOK
<1>2. Boundary'
  BY ConstantsAssumption, PresentIs DEF IInv, Leave, Commits, Owed, Changed, TypeOK, Boundary, store, call, Present
<1>3. OneStateEach'
  <2>1. Present' = Present \/ generation' > generation
    <3>1. CASE Commits(c, ok) /\ work[c] # {}
      BY <3>1 DEF Leave, Changed, IInv, TypeOK, Boundary
    <3>2. CASE Commits(c, ok) /\ work[c] = {}
      <4>1. rows' = rows
        BY <3>2 DEF Leave, IInv, TypeOK
      <4>2. generation' = generation \/ generation' > generation
        BY <3>2 DEF Leave, IInv, TypeOK
      <4> QED BY <4>1, <4>2 DEF Present
    <3>3. CASE ~Commits(c, ok)
      BY <3>3 DEF Leave, store, Present
    <3> QED BY <3>1, <3>2, <3>3
  <2>2. \A v \in Cursors : Known(v)' => Known(v) \/ v = Present'
    BY ConstantsAssumption DEF IInv, TypeOK, Leave, Commits, Owed, Changed, Known, store, call, Present
  <2>3. generation' >= generation
    BY DEF Leave, Commits, Owed, Changed, store, IInv, TypeOK
  <2> QED BY <1>1, <2>1, <2>2, <2>3, KnownGrows DEF IInv
<1>4. HeldOnce'
  BY DEF IInv, Leave, Commits, Owed, Changed, TypeOK, HeldOnce
<1>5. OneRowEach'
  BY DEF IInv, Leave, Commits, Owed, Changed, TypeOK, Boundary, OneRowEach, store
<1>6. TrafficAccounted'
  <2>1. \A d \in Caller : pending'[d] \cup deferred'[d] = pending[d] \cup deferred[d]
    BY DEF IInv, Leave, Owed, TypeOK, HeldOnce
  <2>2. Held' = Held
    BY <2>1 DEF Held
  <2> QED BY <2>2 DEF IInv, Leave, TrafficAccounted
<1> QED BY <1>1, <1>2, <1>3, <1>4, <1>5, <1>6 DEF IInv

\* Traffic that is written leaves the hands of its call.
LEMMA WriteTrafficKeeps ==
  ASSUME IInv, NEW c \in Caller, NEW ok \in BOOLEAN, WriteTraffic(c, ok)
  PROVE  IInv'
<1>1. TypeOK'
  BY ConstantsAssumption, PresentIs DEF IInv, WriteTraffic, Written, TypeOK, store, call
<1>2. Boundary'
  BY ConstantsAssumption, PresentIs DEF IInv, WriteTraffic, Written, TypeOK, Boundary, store, call, Present
<1>3. OneStateEach'
  <2>1. Present' = Present \/ generation' > generation
    BY DEF WriteTraffic, Written, Present, store, IInv, TypeOK, Boundary
  <2>2. \A v \in Cursors : Known(v)' => Known(v) \/ v = Present'
    BY ConstantsAssumption DEF IInv, TypeOK, WriteTraffic, Written, Known, store, call, Present
  <2>3. generation' >= generation
    BY DEF WriteTraffic, Written, store, IInv, TypeOK
  <2> QED BY <1>1, <2>1, <2>2, <2>3, KnownGrows DEF IInv
<1>4. HeldOnce'
  BY DEF IInv, WriteTraffic, Written, TypeOK, HeldOnce
<1>5. OneRowEach'
  BY DEF IInv, WriteTraffic, Written, TypeOK, Boundary, OneRowEach, store
<1>6. TrafficAccounted'
  <2>1. \A i : i \in Held' <=> i \in Held /\ i \notin pending[c]
    BY <1>1, HeldBy DEF IInv, WriteTraffic, TypeOK, HeldOnce, Held
  <2>2. pending[c] \subseteq Held /\ pending[c] \subseteq recorded
    BY HeldBy DEF IInv, HeldOnce
  <2> QED BY <2>1, <2>2 DEF IInv, WriteTraffic, Written, TypeOK, TrafficAccounted
<1> QED BY <1>1, <1>2, <1>3, <1>4, <1>5, <1>6 DEF IInv

\* So does traffic that is flushed.
LEMMA FlushTrafficKeeps ==
  ASSUME IInv, NEW c \in Caller, NEW ok \in BOOLEAN, FlushTraffic(c, ok)
  PROVE  IInv'
<1>1. TypeOK'
  BY ConstantsAssumption, PresentIs DEF IInv, FlushTraffic, Written, TypeOK, store, call
<1>2. Boundary'
  BY ConstantsAssumption, PresentIs DEF IInv, FlushTraffic, Written, TypeOK, Boundary, store, call, Present
<1>3. OneStateEach'
  <2>1. Present' = Present \/ generation' > generation
    BY DEF FlushTraffic, Written, Present, store, IInv, TypeOK, Boundary
  <2>2. \A v \in Cursors : Known(v)' => Known(v) \/ v = Present'
    BY ConstantsAssumption DEF IInv, TypeOK, FlushTraffic, Written, Known, store, call, Present
  <2>3. generation' >= generation
    BY DEF FlushTraffic, Written, store, IInv, TypeOK
  <2> QED BY <1>1, <2>1, <2>2, <2>3, KnownGrows DEF IInv
<1>4. HeldOnce'
  BY DEF IInv, FlushTraffic, Written, TypeOK, HeldOnce
<1>5. OneRowEach'
  BY DEF IInv, FlushTraffic, Written, TypeOK, Boundary, OneRowEach, store
<1>6. TrafficAccounted'
  BY <1>1, HeldBy DEF IInv, FlushTraffic, Written, TypeOK, HeldOnce, TrafficAccounted, Held
<1> QED BY <1>1, <1>2, <1>3, <1>4, <1>5, <1>6 DEF IInv

\* A process that dies loses what it held and gives the lock back.
LEMMA CrashKeeps ==
  ASSUME IInv, NEW c \in Caller, Crash(c)
  PROVE  IInv'
<1>1. TypeOK'
  BY ConstantsAssumption, PresentIs DEF IInv, Crash, TypeOK, store, call
<1>2. Boundary'
  BY ConstantsAssumption, PresentIs DEF IInv, Crash, TypeOK, Boundary, store, call, Present
<1>3. OneStateEach'
  <2>1. Present' = Present \/ generation' > generation
    BY DEF Crash, Present, store, IInv, TypeOK, Boundary
  <2>2. \A v \in Cursors : Known(v)' => Known(v) \/ v = Present'
    BY ConstantsAssumption DEF IInv, TypeOK, Crash, Known, store, call, Present
  <2>3. generation' >= generation
    BY DEF Crash, store, IInv, TypeOK
  <2> QED BY <1>1, <2>1, <2>2, <2>3, KnownGrows DEF IInv
<1>4. HeldOnce'
  BY DEF IInv, Crash, TypeOK, HeldOnce
<1>5. OneRowEach'
  BY DEF IInv, Crash, TypeOK, Boundary, OneRowEach, store
<1>6. TrafficAccounted'
  BY <1>1, HeldBy DEF IInv, Crash, TypeOK, HeldOnce, TrafficAccounted, Held
<1> QED BY <1>1, <1>2, <1>3, <1>4, <1>5, <1>6 DEF IInv

\* A step of anybody keeps the invariant.
LEMMA StepKeeps ==
  ASSUME IInv, [Next]_vars
  PROVE  IInv'
<1>1. CASE UNCHANGED vars
  BY <1>1 DEF vars, store, call, IInv, TypeOK, Boundary, OneStateEach, Known, Present, HeldOnce, OneRowEach,
     TrafficAccounted, Held
<1>2. ASSUME NEW c \in Caller, NEW k \in {"tool", "page"}, NEW d \in BOOLEAN, Enter(c, k, d) PROVE IInv'
  BY <1>2, EnterKeeps
<1>3. ASSUME NEW c \in Caller, Steps(c) PROVE IInv'
  BY <1>3, LookKeeps, PageGenerationKeeps, PageRowsKeeps, RecordKeeps, BeginWriteKeeps, JoinWriteKeeps, AcquireKeeps,
     BusyKeeps, NoteKeeps, InsertKeeps, Zenon DEF Steps
<1>4. ASSUME NEW c \in Caller, Ends(c) PROVE IInv'
  BY <1>4, LeaveKeeps, WriteTrafficKeeps, FlushTrafficKeeps, Zenon DEF Ends
<1>5. ASSUME NEW c \in Caller, Crash(c) PROVE IInv'
  BY <1>5, CrashKeeps
<1> QED BY <1>1, <1>2, <1>3, <1>4, <1>5, Zenon DEF Next

\* At first there is one state, and nobody has traffic.
LEMMA InitHolds == Init => IInv
<1> SUFFICES ASSUME Init PROVE IInv
  OBVIOUS
<1>1. TypeOK
  BY ConstantsAssumption DEF Init, TypeOK, Traffic
<1>2. Boundary
  BY ConstantsAssumption DEF Init, Boundary
<1>3. OneStateEach
  <2>1. \A v \in Cursors : Known(v) => v = Present
    BY DEF Init, Known
  <2>2. Present.generation = 1 /\ generation = 1
    BY DEF Init, Present
  <2> QED BY <2>1, <2>2 DEF OneStateEach
<1>4. HeldOnce
  BY DEF Init, HeldOnce
<1>5. OneRowEach
  BY DEF Init, OneRowEach
<1>6. TrafficAccounted
  BY HeldBy DEF Init, TrafficAccounted
<1> QED BY <1>1, <1>2, <1>3, <1>4, <1>5, <1>6 DEF IInv

\* The inductive invariant holds in every reachable state.
THEOREM InvariantHolds == Spec => []IInv
<1>1. IInv /\ [Next]_vars => IInv'
  BY StepKeeps
<1> QED BY InitHolds, <1>1, PTL DEF Spec

\* Type correctness of the store and of what its callers hold.
THEOREM TypeCorrect == Spec => []TypeOK
<1>1. IInv => TypeOK
  BY DEF IInv
<1> QED BY InvariantHolds, <1>1, PTL

\* Writers of one record race to one row, whatever they read before they had the lock.
THEOREM OneRowForEach == Spec => []OneRowEach
<1>1. IInv => OneRowEach
  BY DEF IInv
<1> QED BY InvariantHolds, <1>1, PTL

\* A cursor that is accepted was cut from the rows that are there; cursors of one generation
\* agree.
THEOREM CursorsNameOneState == Spec => []CursorsAgree
<1>1. IInv => CursorsAgree
  <2> SUFFICES ASSUME IInv PROVE CursorsAgree
    OBVIOUS
  <2>1. Present \in Cursors /\ Present.generation = generation /\ Known(Present)
    BY PresentIs DEF IInv, Known
  <2>2. \A c \in Caller : cursor[c] # None => cursor[c] \in Cursors /\ Known(cursor[c])
    BY DEF IInv, TypeOK, Known
  <2> QED BY <2>1, <2>2 DEF IInv, OneStateEach, CursorsAgree
<1> QED BY InvariantHolds, <1>1, PTL

\* Every traffic row is written once, held, or lost to a failed write or a crash.
THEOREM TrafficIsAccounted == Spec => []TrafficAccounted
<1>1. IInv => TrafficAccounted
  BY DEF IInv
<1> QED BY InvariantHolds, <1>1, PTL
=============================================================================
