------------------------- MODULE ReadTrafficProofs -------------------------
(***************************************************************************)
(* Proofs about ReadTraffic, for every set of processes and capsules and   *)
(* every chunk: the served counts are exact, a complete aggregate is the   *)
(* full scan, and a builder leaves a complete one.                         *)
(***************************************************************************)
EXTENDS ReadTraffic, FiniteSetTheorems, WellFoundedInduction, TLAPS

USE DEF served, lastRead, Never, Unreadable, Unseen, Time, Rows, Reads, Places

\* What the aggregate knows while it is not invalid: it holds only times of live rows, and
\* none later than its own among the rows it has covered.
Sound ==
  intact /\ valid # 0 =>
    /\ \A c \in Capsule :
         /\ last[c] # Never => \E s \in DOMAIN rows : rows[s].live /\ c \in rows[s].ids /\ rows[s].at = last[c]
         /\ \A s \in DOMAIN rows : s <= covered /\ rows[s].live /\ c \in rows[s].ids => rows[s].at <= last[c]
    /\ \A s \in DOMAIN rows : s <= covered /\ rows[s].live => rows[s].at # Unreadable
    /\ covered <= Newest(rows)

IInv == TypeOK /\ Sound /\ ServedExact

\* The numbers and rows of a table.
Table(R) == DOMAIN R \subseteq 1..MaxSeq /\ \A s \in DOMAIN R : R[s] \in Rows

-----------------------------------------------------------------------------
(* The operators. *)

\* A nonempty set of numbers has a least one.
LEMMA LeastOf ==
  ASSUME NEW S \in SUBSET Nat, S # {}
  PROVE  \E x \in S : \A y \in S : x <= y
<1>1. PICK x \in S : \A y \in S : ~(<<y, x>> \in OpToRel(<, Nat))
  BY NatLessThanWellFounded, WFMin
<1>2. \A y \in S : ~(y < x)
  BY <1>1 DEF OpToRel
<1>3. \A y, z \in Nat : y < z \/ z <= y
  OBVIOUS
<1> QED BY <1>2, <1>3

\* A nonempty set of numbers up to a bound has a latest.
LEMMA LatestOf ==
  ASSUME NEW n \in Nat, NEW S \in SUBSET 0..n, S # {}
  PROVE  Latest(S) \in S /\ \A y \in S : y <= Latest(S)
<1> DEFINE T == {n - s : s \in S}
<1>1. T \in SUBSET Nat /\ T # {}
  <2>1. \A s \in S : n - s \in Nat
    OBVIOUS
  <2>2. PICK s \in S : TRUE
    OBVIOUS
  <2>3. n - s \in T
    OBVIOUS
  <2> QED BY <2>1, <2>3
<1>2. PICK t \in T : \A y \in T : t <= y
  <2> HIDE DEF T
  <2> QED BY <1>1, LeastOf
<1>3. PICK x \in S : t = n - x
  OBVIOUS
<1>4. \A y \in S : n - y \in T
  OBVIOUS
<1>5. \A y \in S : y <= x
  <2> HIDE DEF T
  <2> QED BY <1>2, <1>3, <1>4
<1> QED BY <1>5 DEF Latest

\* The newest number is at least every number of the table, and one of them unless it is 0.
LEMMA NewestIs ==
  ASSUME NEW R, Table(R)
  PROVE  /\ Newest(R) \in 0..MaxSeq
         /\ \A s \in DOMAIN R : s <= Newest(R)
         /\ Newest(R) # 0 => Newest(R) \in DOMAIN R
<1> DEFINE S == {0} \cup DOMAIN R
<1>1. S \in SUBSET 0..MaxSeq /\ S # {}
  BY ConstantsAssumption DEF Table
<1>2. Latest(S) \in S /\ \A y \in S : y <= Latest(S)
  <2> HIDE DEF S
  <2>1. MaxSeq \in Nat
    BY ConstantsAssumption
  <2> QED BY <1>1, <2>1, LatestOf
<1>3. Newest(R) = Latest(S)
  BY DEF Newest
<1>4. Newest(R) \in 0..MaxSeq /\ \A s \in DOMAIN R : s <= Newest(R)
  <2> HIDE DEF S
  <2>1. \A s \in DOMAIN R : s \in S
    BY DEF S
  <2> QED BY <1>1, <1>2, <1>3, <2>1
<1>5. Newest(R) # 0 => Newest(R) \in DOMAIN R
  BY <1>2, <1>3
<1> QED BY <1>4, <1>5

\* An upsert keeps what is later: it is what was there or a time of the rows, and no less.
LEMMA UpsertedIs ==
  ASSUME NEW R, Table(R), NEW L \in [Capsule -> 0..MaxTime], NEW lo, NEW hi, NEW c \in Capsule
  PROVE  LET u == Upserted(L, R, lo, hi)[c] IN
         /\ u \in 0..MaxTime /\ L[c] <= u
         /\ \A t \in Times(R, lo, hi, c) : t <= u
         /\ u = L[c] \/ u \in Times(R, lo, hi, c)
<1> DEFINE S == {L[c]} \cup Times(R, lo, hi, c)
<1>1. Times(R, lo, hi, c) \subseteq 0..MaxTime
  BY ConstantsAssumption DEF Table, Times, Listing, Between
<1>2. S \in SUBSET 0..MaxTime /\ S # {}
  BY <1>1
<1>3. Latest(S) \in S /\ \A y \in S : y <= Latest(S)
  <2> HIDE DEF S
  <2> QED BY <1>2, LatestOf, ConstantsAssumption
<1>4. Upserted(L, R, lo, hi)[c] = Latest(S)
  BY DEF Upserted
<1> QED BY <1>2, <1>3, <1>4

\* A chunk ends at a row above its beginning, or at the newest row when there is none.
LEMMA ChunkEndIs ==
  ASSUME Table(rows), NEW from \in 0..MaxSeq
  PROVE  LET next == {s \in DOMAIN rows : s > from} IN
         ChunkEnd(from) = Newest(rows) \/ ChunkEnd(from) \in next
<1> DEFINE next == {s \in DOMAIN rows : s > from}
           S == {s \in next : Cardinality({r \in next : r <= s}) <= Chunk}
<1>1. CASE next = {}
  BY <1>1 DEF ChunkEnd
<1>2. CASE next # {}
  <2>1. next \in SUBSET 0..MaxSeq /\ S \in SUBSET 0..MaxSeq
    BY ConstantsAssumption DEF Table
  <2>2. PICK m \in next : \A s \in next : m <= s
    <3> HIDE DEF next
    <3>1. MaxSeq \in Nat
      BY ConstantsAssumption
    <3> QED BY <1>2, <2>1, <3>1, LeastOf
  <2>3. {r \in next : r <= m} = {m}
    BY <2>1, <2>2
  <2>4. Cardinality({m}) = 1
    BY FS_Singleton
  <2>5. m \in S
    <3> HIDE DEF next
    <3> QED BY <2>2, <2>3, <2>4, ConstantsAssumption
  <2>6. Latest(S) \in S
    <3> HIDE DEF S
    <3> QED BY <2>1, <2>5, LatestOf, ConstantsAssumption
  <2> QED BY <1>2, <2>6 DEF ChunkEnd
<1> QED BY <1>1, <1>2

\* A statement changes the number of rows that list a capsule by what it writes and what it
\* takes away.
LEMMA ListingAfter ==
  ASSUME Table(rows), NEW gone \in SUBSET DOMAIN rows, NEW come, Table(come),
         DOMAIN come \cap (DOMAIN rows \ gone) = {}, NEW c \in Capsule
  PROVE  LET R == After(gone, come) IN
         /\ Cardinality(Listing(R, DOMAIN R, c)) \in 0..MaxSeq
         /\ Cardinality(Listing(R, DOMAIN R, c)) =
              Cardinality(Listing(rows, DOMAIN rows, c)) + Cardinality(Listing(come, DOMAIN come, c))
                - Cardinality(Listing(rows, gone, c))
<1> DEFINE R == After(gone, come)
           A == Listing(rows, DOMAIN rows \ gone, c)
           B == Listing(come, DOMAIN come, c)
           G == Listing(rows, gone, c)
           T == Listing(rows, DOMAIN rows, c)
           N == Listing(R, DOMAIN R, c)
<1>1. N = A \cup B /\ A \cap B = {}
  BY DEF Listing, After
<1>2. T = A \cup G /\ A \cap G = {}
  BY DEF Listing
<1>3. /\ A \in SUBSET 1..MaxSeq /\ B \in SUBSET 1..MaxSeq /\ G \in SUBSET 1..MaxSeq
      /\ N \in SUBSET 1..MaxSeq /\ T \in SUBSET 1..MaxSeq
  BY <1>1, <1>2 DEF Listing, Table
<1> HIDE DEF A, B, G, T, N
<1>4. IsFiniteSet(1..MaxSeq) /\ Cardinality(1..MaxSeq) = MaxSeq
  BY FS_Interval, ConstantsAssumption
<1>5. IsFiniteSet(A) /\ IsFiniteSet(B) /\ IsFiniteSet(G) /\ IsFiniteSet(N) /\ Cardinality(N) <= MaxSeq
  <2>1. IsFiniteSet(A) /\ IsFiniteSet(B)
    BY <1>3, <1>4, FS_Subset
  <2>2. IsFiniteSet(G)
    BY <1>3, <1>4, FS_Subset
  <2>3. IsFiniteSet(N) /\ Cardinality(N) <= Cardinality(1..MaxSeq)
    BY <1>3, <1>4, FS_Subset
  <2> QED BY <1>4, <2>1, <2>2, <2>3
<1>6. Cardinality(N) = Cardinality(A) + Cardinality(B) - Cardinality({})
  BY <1>1, <1>5, FS_Union
<1>7. Cardinality(T) = Cardinality(A) + Cardinality(G) - Cardinality({})
  BY <1>2, <1>5, FS_Union
<1>8. /\ Cardinality(A) \in Nat /\ Cardinality(B) \in Nat /\ Cardinality(G) \in Nat /\ Cardinality(N) \in Nat
      /\ Cardinality({}) = 0
  BY <1>5, FS_CardinalityType, FS_EmptySet
<1>9. Cardinality(N) \in 0..MaxSeq /\ Cardinality(N) = Cardinality(T) + Cardinality(B) - Cardinality(G)
  BY <1>5, <1>6, <1>7, <1>8, ConstantsAssumption
<1> QED BY <1>9 DEF N, T, B, G

-----------------------------------------------------------------------------
(* The statements on the traffic. *)

\* Any statement keeps the counts exact through the triggers.
LEMMA CountedKeeps ==
  ASSUME TypeOK, ServedExact, NEW gone \in SUBSET DOMAIN rows, NEW come, Table(come),
         DOMAIN come \cap (DOMAIN rows \ gone) = {},
         rows' = After(gone, come), Counted(gone, come), UNCHANGED kept
  PROVE  Table(rows') /\ counts' \in [Capsule -> 0..MaxSeq] /\ ServedExact'
<1>1. Table(rows) /\ Table(rows')
  BY DEF TypeOK, Table, After
<1>2. ASSUME kept, NEW c \in Capsule
      PROVE  counts'[c] \in 0..MaxSeq /\ counts'[c] = Cardinality(Listing(rows', DOMAIN rows', c))
  <2>1. counts[c] = Cardinality(Listing(rows, DOMAIN rows, c))
    BY <1>2 DEF ServedExact
  <2>2. counts'[c] = counts[c] + Cardinality(Listing(come, DOMAIN come, c)) - Cardinality(Listing(rows, gone, c))
    BY <1>2 DEF Counted
  <2> QED BY <1>1, <2>1, <2>2, ListingAfter
<1>3. counts' \in [Capsule -> 0..MaxSeq]
  <2>1. CASE kept
    BY <1>2, <2>1 DEF Counted
  <2>2. CASE ~kept
    BY <2>2 DEF Counted, TypeOK
  <2> QED BY <2>1, <2>2 DEF TypeOK
<1> QED BY <1>1, <1>2, <1>3 DEF ServedExact

\* Rows come above every other; a complete aggregate takes them in.
LEMMA AppendKeeps ==
  ASSUME IInv, NEW p \in Process, NEW n \in 1..MaxBatch, NEW batch \in [1..n -> Reads], Append(p, n, batch)
  PROVE  IInv'
<1> DEFINE previous == Newest(rows)
           come == [s \in previous + 1 .. previous + n |-> batch[s - previous]]
<1>1. Table(rows) /\ n \in Nat \ {0}
  BY ConstantsAssumption DEF IInv, TypeOK, Table
<1>2. /\ previous \in 0..MaxSeq /\ previous + n <= MaxSeq
      /\ \A s \in DOMAIN rows : s <= previous
  BY <1>1, NewestIs DEF Append
<1>3. Table(come) /\ DOMAIN come \cap (DOMAIN rows \ {}) = {}
  <2> HIDE DEF previous
  <2>1. DOMAIN come = previous + 1 .. previous + n
    OBVIOUS
  <2>2. DOMAIN come \subseteq 1..MaxSeq /\ DOMAIN come \cap (DOMAIN rows \ {}) = {}
    BY <1>1, <1>2, <2>1, ConstantsAssumption DEF Table
  <2>3. ASSUME NEW s \in previous + 1 .. previous + n PROVE come[s] \in Rows
    <3>1. s - previous \in 1..n
      BY <1>1, <1>2
    <3>2. come[s] = batch[s - previous] /\ batch[s - previous] \in Reads
      BY <3>1
    <3> QED BY <3>2
  <2> HIDE DEF come
  <2> QED BY <2>1, <2>2, <2>3 DEF Table
<1>4. rows' = After({}, come) /\ Counted({}, come) /\ UNCHANGED <<kept, intact, valid, pc, seen, changes>>
  BY DEF Append
<1>5. Table(rows') /\ counts' \in [Capsule -> 0..MaxSeq] /\ ServedExact'
  <2> HIDE DEF come
  <2> QED BY <1>3, <1>4, CountedKeeps DEF IInv
<1>6. /\ DOMAIN rows' = DOMAIN rows \cup (previous + 1 .. previous + n)
      /\ \A s \in DOMAIN rows : rows'[s] = rows[s]
      /\ \A s \in previous + 1 .. previous + n : rows'[s] \in Reads
  BY <1>1, <1>2, <1>4 DEF After
<1>7. Newest(rows') = previous + n
  <2>1. /\ Newest(rows') \in 0..MaxSeq /\ \A s \in DOMAIN rows' : s <= Newest(rows')
        /\ Newest(rows') # 0 => Newest(rows') \in DOMAIN rows'
    BY <1>5, NewestIs
  <2> HIDE DEF previous, come
  <2>2. previous + n \in DOMAIN rows'
    BY <1>1, <1>2, <1>6
  <2>3. previous + n <= Newest(rows') /\ Newest(rows') \in DOMAIN rows'
    BY <1>1, <1>2, <2>1, <2>2
  <2>4. \A s \in DOMAIN rows' : s <= previous + n
    BY <1>1, <1>2, <1>6 DEF Table
  <2> QED BY <1>1, <1>2, <2>1, <2>3, <2>4
<1> HIDE DEF come
<1>8. CASE ~(intact /\ valid = 1)
  <2>1. UNCHANGED <<last, covered>>
    BY <1>8 DEF Append
  <2>2. TypeOK'
    BY <1>4, <1>5, <2>1 DEF IInv, TypeOK, Table
  <2>3. ASSUME intact, valid # 0 PROVE \A s \in DOMAIN rows' : s <= covered => s \in DOMAIN rows
    <3>1. covered <= previous /\ covered \in Int
      BY <2>3 DEF IInv, Sound, TypeOK
    <3> HIDE DEF previous
    <3> QED BY <1>1, <1>2, <1>6, <3>1
  <2>4. ASSUME intact, valid # 0 PROVE covered <= previous + n
    <3>1. covered <= previous /\ covered \in Int
      BY <2>4 DEF IInv, Sound, TypeOK
    <3> HIDE DEF previous
    <3> QED BY <1>1, <1>2, <3>1
  <2>5. Sound'
    <3> HIDE DEF previous
    <3> QED BY <1>4, <1>6, <1>7, <2>1, <2>3, <2>4 DEF IInv, Sound
  <2> QED BY <1>5, <2>2, <2>5 DEF IInv
<1>9. CASE intact /\ valid = 1
  <2>1. last' = Upserted(last, rows', previous, previous + n) /\ covered' = Covers(previous + n)
    BY <1>9 DEF Append
  <2>2. \A c \in Capsule :
          /\ last'[c] \in 0..MaxTime /\ last[c] <= last'[c]
          /\ \A t \in Times(rows', previous, previous + n, c) : t <= last'[c]
          /\ last'[c] = last[c] \/ last'[c] \in Times(rows', previous, previous + n, c)
    BY <1>5, <2>1, UpsertedIs DEF IInv, TypeOK
  <2>3. last' \in [Capsule -> 0..MaxTime] /\ covered' \in 0..MaxSeq /\ covered' <= previous + n
    <3>1. last' \in [Capsule -> 0..MaxTime]
      BY <2>1, <2>2 DEF Upserted
    <3>2. covered' \in {previous + n, covered} /\ covered \in 0..MaxSeq /\ covered <= previous
      BY <1>9, <2>1 DEF Covers, IInv, TypeOK, Sound
    <3> HIDE DEF previous
    <3> QED BY <1>1, <1>2, <3>1, <3>2, ConstantsAssumption
  <2>4. TypeOK'
    BY <1>4, <1>5, <2>3 DEF IInv, TypeOK, Table
  <2>5. covered' = covered \/ covered = previous
    BY <2>1 DEF Covers
  <2>6. ASSUME NEW s \in DOMAIN rows', s <= covered', rows'[s].live
        PROVE  rows'[s].at # Unreadable /\ \A c \in rows'[s].ids : rows'[s].at <= last'[c]
    <3>1. CASE s \in DOMAIN rows
      <4>1. s <= covered /\ rows'[s] = rows[s] /\ rows[s] \in Rows
        BY <1>1, <1>2, <1>6, <2>5, <2>6, <3>1 DEF Table
      <4>2. rows[s].at # Unreadable /\ \A c \in rows[s].ids : rows[s].at <= last[c]
        BY <1>9, <2>6, <3>1, <4>1 DEF IInv, Sound
      <4>3. \A c \in rows[s].ids :
              /\ c \in Capsule /\ last[c] <= last'[c]
              /\ last[c] \in Int /\ last'[c] \in Int /\ rows[s].at \in Int
        BY <2>2, <4>1, ConstantsAssumption DEF IInv, TypeOK
      <4> QED BY <4>1, <4>2, <4>3
    <3>2. CASE s \notin DOMAIN rows
      <4>1. s \in previous + 1 .. previous + n /\ rows'[s] \in Reads
        BY <1>6, <3>2
      <4>2. \A c \in rows'[s].ids : c \in Capsule /\ rows'[s].at \in Times(rows', previous, previous + n, c)
        BY <1>2, <2>6, <4>1 DEF Times, Listing, Between
      <4> QED BY <2>2, <4>1, <4>2
    <3> QED BY <3>1, <3>2
  <2>7. ASSUME NEW c \in Capsule, last'[c] # Never
        PROVE  \E s \in DOMAIN rows' : rows'[s].live /\ c \in rows'[s].ids /\ rows'[s].at = last'[c]
    <3>1. CASE last'[c] = last[c]
      BY <1>6, <1>9, <2>7, <3>1 DEF IInv, Sound
    <3>2. CASE last'[c] \in Times(rows', previous, previous + n, c)
      BY <3>2 DEF Times, Listing, Between
    <3> QED BY <2>2, <3>1, <3>2
  <2>8. Sound'
    BY <1>7, <2>3, <2>6, <2>7 DEF Sound
  <2> QED BY <1>5, <2>4, <2>8 DEF IInv
<1> QED BY <1>8, <1>9

\* A row of an older build stays above what is covered.
LEMMA OtherAppendKeeps ==
  ASSUME IInv, NEW row \in Rows, OtherAppend(row)
  PROVE  IInv'
<1> DEFINE come == [s \in {Newest(rows) + 1} |-> row]
<1>1. Table(rows)
  BY DEF IInv, TypeOK, Table
<1>2. /\ Newest(rows) \in 0..MaxSeq /\ Newest(rows) < MaxSeq
      /\ \A s \in DOMAIN rows : s <= Newest(rows)
  BY <1>1, NewestIs DEF OtherAppend
<1>3. Table(come) /\ DOMAIN come \cap (DOMAIN rows \ {}) = {}
  BY <1>1, <1>2, ConstantsAssumption DEF Table
<1>4. rows' = After({}, come) /\ Counted({}, come) /\ UNCHANGED <<kept, lastRead, pc, seen>> /\ Changed
  BY DEF OtherAppend
<1>5. Table(rows') /\ counts' \in [Capsule -> 0..MaxSeq] /\ ServedExact'
  <2> HIDE DEF come
  <2> QED BY <1>3, <1>4, CountedKeeps DEF IInv
<1>6. /\ DOMAIN rows' = DOMAIN rows \cup {Newest(rows) + 1}
      /\ \A s \in DOMAIN rows : rows'[s] = rows[s]
  BY <1>1, <1>2, <1>4 DEF After
<1>7. Newest(rows) <= Newest(rows')
  BY <1>1, <1>2, <1>5, <1>6, NewestIs, ConstantsAssumption
<1>8. TypeOK'
  BY <1>4, <1>5, ConstantsAssumption DEF IInv, TypeOK, Table, Changed
<1>9. Newest(rows') \in Int
  BY <1>5, NewestIs
<1> HIDE DEF come
<1>10. Sound'
  BY <1>1, <1>2, <1>4, <1>6, <1>7, <1>9 DEF IInv, TypeOK, Sound
<1> QED BY <1>5, <1>8, <1>10 DEF IInv

\* A row that is rewritten or deleted makes the aggregate invalid.
LEMMA RewriteKeeps ==
  ASSUME IInv, NEW s \in 1..MaxSeq,
         OtherDelete(s) \/ \E row \in Rows : OtherUpdate(s, row)
  PROVE  IInv'
<1>1. PICK come : /\ Table(come) /\ DOMAIN come \subseteq {s} /\ s \in DOMAIN rows
                  /\ rows' = After({s}, come) /\ Counted({s}, come)
  <2>1. CASE OtherDelete(s)
    <3> DEFINE come == [x \in {} |-> 0]
    <3>1. Table(come) /\ DOMAIN come \subseteq {s}
      BY DEF Table
    <3>2. s \in DOMAIN rows /\ rows' = After({s}, come) /\ Counted({s}, come)
      BY <2>1, Zenon DEF OtherDelete
    <3> QED BY <3>1, <3>2
  <2>2. ASSUME NEW row \in Rows, OtherUpdate(s, row)
        PROVE  \E come : /\ Table(come) /\ DOMAIN come \subseteq {s} /\ s \in DOMAIN rows
                         /\ rows' = After({s}, come) /\ Counted({s}, come)
    <3> DEFINE come == [x \in {s} |-> row]
    <3>1. Table(come) /\ DOMAIN come \subseteq {s}
      BY DEF Table
    <3>2. s \in DOMAIN rows /\ rows' = After({s}, come) /\ Counted({s}, come)
      BY <2>2, Zenon DEF OtherUpdate
    <3> QED BY <3>1, <3>2
  <2> QED BY <2>1, <2>2
<1>2. valid' = 0 /\ UNCHANGED <<kept, intact, last, covered, pc, seen>> /\ Changed
  BY DEF OtherDelete, OtherUpdate
<1>3. {s} \in SUBSET DOMAIN rows /\ DOMAIN come \cap (DOMAIN rows \ {s}) = {}
  BY <1>1
<1>4. Table(rows') /\ counts' \in [Capsule -> 0..MaxSeq] /\ ServedExact'
  BY <1>1, <1>2, <1>3, CountedKeeps DEF IInv
<1>5. TypeOK'
  BY <1>2, <1>4, ConstantsAssumption DEF IInv, TypeOK, Table, Changed
<1> QED BY <1>2, <1>4, <1>5 DEF IInv, Sound

-----------------------------------------------------------------------------
(* Opening the store. *)

\* The back-fill counts the live rows.
LEMMA AddServedKeeps ==
  ASSUME IInv, NEW p \in Process, AddServed(p)
  PROVE  IInv'
<1>1. Table(rows)
  BY DEF IInv, TypeOK, Table
<1>2. \A c \in Capsule : Cardinality(Listing(rows, DOMAIN rows, c)) \in 0..MaxSeq
  <2> SUFFICES ASSUME NEW c \in Capsule PROVE Cardinality(Listing(rows, DOMAIN rows, c)) \in 0..MaxSeq
    OBVIOUS
  <2>1. Listing(rows, DOMAIN rows, c) \in SUBSET 1..MaxSeq
    BY <1>1 DEF Listing, Table
  <2>2. IsFiniteSet(1..MaxSeq) /\ Cardinality(1..MaxSeq) = MaxSeq
    BY FS_Interval, ConstantsAssumption
  <2>3. /\ IsFiniteSet(Listing(rows, DOMAIN rows, c))
        /\ Cardinality(Listing(rows, DOMAIN rows, c)) <= MaxSeq
    BY <2>1, <2>2, FS_Subset
  <2>4. Cardinality(Listing(rows, DOMAIN rows, c)) \in Nat
    BY <2>3, FS_CardinalityType
  <2> QED BY <2>3, <2>4, ConstantsAssumption
<1>3. counts' \in [Capsule -> 0..MaxSeq]
  BY <1>2 DEF AddServed, IInv, TypeOK
<1>4. TypeOK'
  BY <1>3 DEF AddServed, IInv, TypeOK
<1>5. ServedExact'
  BY DEF AddServed, IInv, ServedExact
<1>6. Sound'
  BY DEF AddServed, IInv, Sound
<1> QED BY <1>4, <1>5, <1>6 DEF IInv

\* A chunk adds the rows it covers to an aggregate that is sound or started over.
LEMMA BuildChunkKeeps ==
  ASSUME IInv, NEW p \in Process, BuildChunk(p)
  PROVE  IInv'
<1> DEFINE stale == Stale(pc[p] = "first")
           from == IF stale THEN 0 ELSE covered
           to == ChunkEnd(from)
           base == IF stale THEN Empty ELSE last
<1>1. Table(rows) /\ Empty \in [Capsule -> 0..MaxTime]
  BY ConstantsAssumption DEF IInv, TypeOK, Table, Empty
<1>2. /\ Newest(rows) \in 0..MaxSeq
      /\ \A s \in DOMAIN rows : s <= Newest(rows)
  BY <1>1, NewestIs
<1>3. from \in 0..MaxSeq /\ from <= Newest(rows) /\ base \in [Capsule -> 0..MaxTime]
  BY <1>1, <1>2, ConstantsAssumption DEF IInv, TypeOK, Stale, Sound
<1>4. to \in 0..MaxSeq /\ to <= Newest(rows)
  <2> HIDE DEF from
  <2>1. to = Newest(rows) \/ to \in {s \in DOMAIN rows : s > from}
    BY <1>1, <1>3, ChunkEndIs
  <2> QED BY <1>1, <1>2, <2>1 DEF Table
<1>5. UNCHANGED <<rows, served, seen, changes>> /\ intact' = TRUE
  BY DEF BuildChunk
<1>6. ServedExact'
  BY <1>5 DEF IInv, ServedExact
<1>7. /\ \A c \in Capsule :
           /\ base[c] # Never => \E s \in DOMAIN rows : rows[s].live /\ c \in rows[s].ids /\ rows[s].at = base[c]
           /\ \A s \in DOMAIN rows : s <= from /\ rows[s].live /\ c \in rows[s].ids => rows[s].at <= base[c]
      /\ \A s \in DOMAIN rows : s <= from /\ rows[s].live => rows[s].at # Unreadable
  <2>1. CASE stale
    BY <1>1, <2>1 DEF Empty, Table
  <2>2. CASE ~stale
    BY <2>2 DEF IInv, Sound, Stale
  <2> QED BY <2>1, <2>2
<1>8. CASE /\ ~Readable(rows, from, to)
           /\ last' = base /\ covered' = from /\ valid' = 0
           /\ pc' = [pc EXCEPT ![p] = "up"]
  <2>1. TypeOK'
    <3> HIDE DEF from, base
    <3> QED BY <1>3, <1>5, <1>8 DEF IInv, TypeOK
  <2>2. Sound'
    BY <1>8 DEF Sound
  <2> QED BY <1>6, <2>1, <2>2 DEF IInv
<1>9. CASE /\ Readable(rows, from, to)
           /\ last' = Upserted(base, rows, from, to) /\ covered' = to
           /\ IF to = Newest(rows) THEN valid' = 1 /\ pc' = [pc EXCEPT ![p] = "up"]
                                   ELSE valid' = 2 /\ pc' = [pc EXCEPT ![p] = "next"]
  <2> HIDE DEF from, to, base
  <2>1. \A c \in Capsule :
          /\ last'[c] \in 0..MaxTime /\ base[c] <= last'[c]
          /\ \A t \in Times(rows, from, to, c) : t <= last'[c]
          /\ last'[c] = base[c] \/ last'[c] \in Times(rows, from, to, c)
    BY <1>1, <1>3, <1>9, UpsertedIs
  <2>2. last' \in [Capsule -> 0..MaxTime]
    BY <1>9, <2>1 DEF Upserted
  <2>3. TypeOK'
    BY <1>4, <1>5, <1>9, <2>2 DEF IInv, TypeOK
  <2>4. ASSUME NEW s \in DOMAIN rows, s <= to, rows[s].live
        PROVE  rows[s].at # Unreadable /\ \A c \in rows[s].ids : rows[s].at <= last'[c]
    <3>1. rows[s] \in Rows /\ s \in Int
      BY <1>1 DEF Table
    <3>2. CASE s <= from
      <4>1. rows[s].at # Unreadable
        BY <1>7, <2>4, <3>2
      <4>2. ASSUME NEW c \in rows[s].ids PROVE rows[s].at <= last'[c]
        <5>1. c \in Capsule
          BY <3>1
        <5>2. rows[s].at <= base[c]
          BY <1>7, <2>4, <3>2, <5>1
        <5>3. base[c] <= last'[c] /\ base[c] \in Int /\ last'[c] \in Int
          BY <1>3, <2>1, <5>1
        <5>4. rows[s].at \in Int
          BY <3>1, ConstantsAssumption
        <5> QED BY <5>2, <5>3, <5>4
      <4> QED BY <4>1, <4>2
    <3>3. CASE ~(s <= from)
      <4>1. s \in Between(rows, from, to)
        BY <1>3, <2>4, <3>1, <3>3 DEF Between
      <4>2. \A c \in rows[s].ids : c \in Capsule /\ rows[s].at \in Times(rows, from, to, c)
        BY <2>4, <3>1, <4>1 DEF Times, Listing
      <4> QED BY <1>9, <2>1, <2>4, <4>1, <4>2 DEF Readable
    <3> QED BY <3>2, <3>3
  <2>5. ASSUME NEW c \in Capsule, last'[c] # Never
        PROVE  \E s \in DOMAIN rows : rows[s].live /\ c \in rows[s].ids /\ rows[s].at = last'[c]
    <3>1. CASE last'[c] = base[c]
      BY <1>7, <2>5, <3>1
    <3>2. CASE last'[c] \in Times(rows, from, to, c)
      BY <3>2 DEF Times, Listing, Between
    <3> QED BY <2>1, <3>1, <3>2
  <2>6. Sound'
    BY <1>4, <1>5, <1>9, <2>4, <2>5 DEF Sound
  <2> QED BY <1>6, <2>3, <2>6 DEF IInv
<1> QED BY <1>8, <1>9, Zenon DEF BuildChunk

\* Steps that only move a process, or drop the objects of last_read.
LEMMA QuietKeeps ==
  ASSUME IInv, NEW p \in Process,
         Open(p) \/ ReadState(p) \/ ReadNewest(p) \/ BuildDone(p) \/ Crash(p)
  PROVE  IInv'
<1>1. UNCHANGED <<rows, served, last, covered, valid>> /\ intact' = intact
  BY DEF Open, ReadState, ReadNewest, BuildDone, Crash, IInv, TypeOK
<1>2. pc' \in [Process -> Places] /\ seen' \in [Process -> {Unseen} \cup 0..MaxSeq]
  BY DEF Open, ReadState, ReadNewest, BuildDone, Crash, IInv, TypeOK
<1>3. changes' \in 0..MaxChanges
  <2>1. changes' = changes \/ Changed
    BY DEF Open, ReadState, ReadNewest, BuildDone, Crash
  <2> QED BY <2>1, ConstantsAssumption DEF Changed, IInv, TypeOK
<1>4. TypeOK'
  BY <1>1, <1>2, <1>3 DEF IInv, TypeOK
<1>5. Sound'
  BY <1>1 DEF IInv, Sound
<1>6. ServedExact'
  BY <1>1 DEF IInv, ServedExact
<1> QED BY <1>4, <1>5, <1>6 DEF IInv

-----------------------------------------------------------------------------
(* The theorems. *)

\* A new store has no rows, and an old one neither table.
LEMMA InitHolds == Init => IInv
<1> SUFFICES ASSUME Init PROVE IInv
  OBVIOUS
<1>1. PICK n \in (IF kept THEN {0} ELSE 0..OldRows) : rows \in [1..n -> Rows]
  BY DEF Init
<1>2. DOMAIN rows \subseteq 1..MaxSeq /\ \A s \in DOMAIN rows : rows[s] \in Rows
  BY <1>1, ConstantsAssumption
<1>3. counts \in [Capsule -> 0..MaxSeq] /\ last \in [Capsule -> 0..MaxTime]
  BY ConstantsAssumption DEF Init, Empty
<1>4. pc \in [Process -> Places] /\ seen \in [Process -> {Unseen} \cup 0..MaxSeq]
  BY DEF Init
<1>5. covered \in 0..MaxSeq /\ changes \in 0..MaxChanges /\ valid \in 0..2
  BY ConstantsAssumption DEF Init
<1>6. kept \in BOOLEAN /\ intact \in BOOLEAN
  BY Zenon DEF Init
<1>7. TypeOK
  BY <1>2, <1>3, <1>4, <1>5, <1>6 DEF TypeOK
<1>8. covered = 0 /\ \A c \in Capsule : last[c] = 0 /\ counts[c] = 0
  BY DEF Init, Empty
<1>9. 0 <= Newest(rows) /\ \A s \in DOMAIN rows : ~(s <= 0)
  <2>1. Table(rows)
    BY <1>2 DEF Table
  <2> QED BY <2>1, NewestIs DEF Table
<1>10. Sound
  BY <1>8, <1>9 DEF Sound
<1>11. ServedExact
  <2> SUFFICES ASSUME kept, NEW c \in Capsule
               PROVE  counts[c] = Cardinality(Listing(rows, DOMAIN rows, c))
    BY DEF ServedExact
  <2>1. DOMAIN rows = {}
    BY <1>1
  <2>2. Listing(rows, DOMAIN rows, c) = {}
    BY <2>1 DEF Listing
  <2> QED BY <1>8, <2>2, FS_EmptySet
<1> QED BY <1>7, <1>10, <1>11 DEF IInv

\* A step of anybody keeps the invariant.
LEMMA StepKeeps ==
  ASSUME IInv, [Next]_vars
  PROVE  IInv'
<1>1. CASE UNCHANGED vars
  BY <1>1 DEF vars, IInv, TypeOK, Sound, ServedExact
<1>2. ASSUME NEW p \in Process,
             Open(p) \/ BuildStep(p) \/ Crash(p)
             \/ \E n \in 1..MaxBatch : \E batch \in [1..n -> Reads] : Append(p, n, batch)
      PROVE  IInv'
  BY <1>2, QuietKeeps, AddServedKeeps, BuildChunkKeeps, AppendKeeps, Zenon DEF BuildStep
<1>3. ASSUME NEW row \in Rows, OtherAppend(row) PROVE IInv'
  BY <1>3, OtherAppendKeeps
<1>4. ASSUME NEW s \in 1..MaxSeq, OtherDelete(s) \/ \E row \in Rows : OtherUpdate(s, row) PROVE IInv'
  BY <1>4, RewriteKeeps
<1>5. CASE OtherDrop
  <2>1. changes' \in 0..MaxChanges
    BY <1>5, ConstantsAssumption DEF OtherDrop, Changed, IInv, TypeOK
  <2>2. TypeOK'
    BY <1>5, <2>1 DEF OtherDrop, IInv, TypeOK
  <2> QED BY <1>5, <2>2 DEF OtherDrop, IInv, Sound, ServedExact
<1> QED BY <1>1, <1>2, <1>3, <1>4, <1>5, Zenon DEF Next

\* The inductive invariant holds in every reachable state.
THEOREM InvariantHolds == Spec => []IInv
<1>1. IInv /\ [Next]_vars => IInv'
  BY StepKeeps
<1> QED BY InitHolds, <1>1, PTL DEF Spec

\* Type correctness: the counts, the sequence numbers and the times stay in their bounds.
THEOREM TypeCorrect == Spec => []TypeOK
<1>1. IInv => TypeOK
  BY DEF IInv
<1> QED BY InvariantHolds, <1>1, PTL

\* The served counts are what a scan would count.
THEOREM ServedIsExact == Spec => []ServedExact
<1>1. IInv => ServedExact
  BY DEF IInv
<1> QED BY InvariantHolds, <1>1, PTL

\* An aggregate being built holds no time of a row that is revoked, changed or gone.
THEOREM NoTimeIsStale == Spec => []BuildHoldsNoStaleTime
<1>1. IInv => BuildHoldsNoStaleTime
  <2> SUFFICES ASSUME IInv, intact, valid # 0, NEW c \in Capsule, last[c] # Never
               PROVE  last[c] \in Times(rows, 0, Newest(rows), c)
    BY DEF BuildHoldsNoStaleTime
  <2>1. PICK s \in DOMAIN rows : rows[s].live /\ c \in rows[s].ids /\ rows[s].at = last[c]
    BY DEF IInv, Sound
  <2>2. Table(rows)
    BY DEF IInv, TypeOK, Table
  <2>3. s \in 1..MaxSeq /\ s <= Newest(rows)
    BY <2>2, NewestIs DEF Table
  <2> QED BY <2>1, <2>3 DEF Times, Listing, Between
<1> QED BY InvariantHolds, <1>1, PTL

\* A reader that trusts the aggregate reads what the full scan would say, of readable rows.
THEOREM LastReadIsExact == Spec => []LastReadExact
<1>1. IInv => LastReadExact
  <2> SUFFICES ASSUME IInv, Complete(rows)
               PROVE  last = Scan(rows) /\ Readable(rows, 0, Newest(rows))
    BY DEF LastReadExact
  <2>1. Table(rows) /\ Empty \in [Capsule -> 0..MaxTime]
    BY ConstantsAssumption DEF IInv, TypeOK, Table, Empty
  <2>2. Readable(rows, 0, Newest(rows))
    BY DEF IInv, Sound, Complete, Readable, Between
  <2>3. ASSUME NEW c \in Capsule PROVE Scan(rows)[c] = last[c]
    <3> DEFINE u == Scan(rows)[c]
               T == Times(rows, 0, Newest(rows), c)
    <3>1. u \in 0..MaxTime /\ (\A t \in T : t <= u) /\ (u = 0 \/ u \in T)
      BY <2>1, UpsertedIs DEF Scan, Empty
    <3>2. \A t \in T : t \in Int /\ t <= last[c]
      BY <2>1, ConstantsAssumption DEF Times, Listing, Between, Table, IInv, Sound, Complete
    <3>3. last[c] # 0 => last[c] \in T
      <4>1. \A s \in DOMAIN rows : s \in 1..MaxSeq /\ s <= Newest(rows)
        BY <2>1, NewestIs DEF Table
      <4> QED BY <4>1 DEF IInv, Sound, Complete, Times, Listing, Between
    <3>4. last[c] \in 0..MaxTime
      BY DEF IInv, TypeOK
    <3> HIDE DEF u, T
    <3>5. u = last[c]
      BY <3>1, <3>2, <3>3, <3>4, ConstantsAssumption
    <3> QED BY <3>5 DEF u
  <2>4. Scan(rows) = [c \in Capsule |-> Scan(rows)[c]] /\ last = [c \in Capsule |-> last[c]]
    BY DEF Scan, Upserted, IInv, TypeOK
  <2> QED BY <2>2, <2>3, <2>4
<1> QED BY InvariantHolds, <1>1, PTL

\* A builder that leaves by itself leaves a complete aggregate or a row that cannot be read.
THEOREM BuilderLeavesIt == Spec => BuilderLeavesComplete
<1>1. IInv /\ [Next]_vars =>
        [\A p \in Process :
           pc[p] \in {"first", "next"} /\ pc'[p] = "up" =>
             Complete(rows)' \/ ~Readable(rows, 0, Newest(rows))]_vars
  <2> SUFFICES ASSUME IInv, [Next]_vars, NEW p \in Process,
                      pc[p] \in {"first", "next"}, pc'[p] = "up"
               PROVE  Complete(rows)' \/ ~Readable(rows, 0, Newest(rows))
    OBVIOUS
  <2>1. BuildDone(p) \/ BuildChunk(p)
    <3>1. ASSUME UNCHANGED pc PROVE FALSE
      BY <3>1
    <3>2. ASSUME NEW r \in Process, Open(r) \/ AddServed(r) \/ ReadState(r) \/ ReadNewest(r) \/ Crash(r)
          PROVE  FALSE
      BY <3>2 DEF Open, AddServed, ReadState, ReadNewest, Crash, IInv, TypeOK
    <3>3. ASSUME NEW r \in Process, BuildDone(r) \/ BuildChunk(r) PROVE r = p
      BY <3>3 DEF BuildDone, BuildChunk, IInv, TypeOK
    <3>4. /\ \A r \in Process, n \in 1..MaxBatch : \A batch \in [1..n -> Reads] :
               Append(r, n, batch) => UNCHANGED pc
          /\ \A row \in Rows : OtherAppend(row) => UNCHANGED pc
          /\ \A row \in Rows, s \in 1..MaxSeq : OtherUpdate(s, row) => UNCHANGED pc
          /\ \A s \in 1..MaxSeq : OtherDelete(s) => UNCHANGED pc
          /\ OtherDrop => UNCHANGED pc
          /\ UNCHANGED vars => UNCHANGED pc
      BY DEF Append, OtherAppend, OtherUpdate, OtherDelete, OtherDrop, vars
    <3> QED BY <3>1, <3>2, <3>3, <3>4, Zenon DEF Next, BuildStep
  <2>2. CASE BuildDone(p)
    <3>1. Complete(rows) /\ UNCHANGED <<rows, lastRead>>
      BY <2>2 DEF BuildDone, IInv, TypeOK
    <3> QED BY <3>1 DEF Complete
  <2>3. CASE BuildChunk(p)
    <3> DEFINE from == IF Stale(pc[p] = "first") THEN 0 ELSE covered
               to == ChunkEnd(from)
    <3>1. Table(rows)
      BY DEF IInv, TypeOK, Table
    <3>2. Newest(rows) \in 0..MaxSeq /\ \A s \in DOMAIN rows : s <= Newest(rows)
      BY <3>1, NewestIs
    <3>3. from \in 0..MaxSeq
      BY ConstantsAssumption DEF IInv, TypeOK
    <3>4. to <= Newest(rows) /\ to \in Int
      <4> HIDE DEF from
      <4>1. to = Newest(rows) \/ to \in {s \in DOMAIN rows : s > from}
        BY <3>1, <3>3, ChunkEndIs
      <4> QED BY <3>1, <3>2, <4>1 DEF Table
    <3>5. CASE ~Readable(rows, from, to)
      <4> HIDE DEF from, to
      <4>1. PICK s \in DOMAIN rows : from < s /\ s <= to /\ rows[s].live /\ rows[s].at = Unreadable
        BY <3>5 DEF Readable, Between
      <4>2. s \in 1..MaxSeq
        BY <3>1 DEF Table
      <4> QED BY <3>2, <3>4, <4>1, <4>2 DEF Readable, Between
    <3>6. CASE Readable(rows, from, to)
      <4>1. intact' /\ valid' = 1 /\ covered' = Newest(rows) /\ rows' = rows
        BY <2>3, <3>6 DEF BuildChunk, IInv, TypeOK
      <4> QED BY <4>1 DEF Complete
    <3> QED BY <3>5, <3>6
  <2> QED BY <2>1, <2>2, <2>3
<1> QED BY InvariantHolds, <1>1, PTL DEF Spec, BuilderLeavesComplete
=============================================================================
