-------------------------- MODULE TermIndexProofs --------------------------
(***************************************************************************)
(* Proofs about TermIndex, for every set of processes, builds, texts and   *)
(* words and every slice: IInv is an inductive invariant, so the index is  *)
(* exact whenever it is used.                                              *)
(***************************************************************************)
EXTENDS TermIndex, FiniteSetTheorems, WellFoundedInduction, TLAPS

USE DEF Seqs, Origin

-----------------------------------------------------------------------------
(* Finite sets and strict orders.                                          *)

\* A finite nonempty set has a maximal element in every strict order.  (The
\* sets of the elements above each element are well-founded by inclusion.)
LEMMA FiniteSetHasMaximal ==
  ASSUME NEW S, IsFiniteSet(S), S # {},
         NEW R,
         \A a \in S : <<a, a>> \notin R,
         \A a, b, c \in S : <<a, b>> \in R /\ <<b, c>> \in R => <<a, c>> \in R
  PROVE  \E a \in S : \A b \in S : <<a, b>> \notin R
<1> DEFINE Above(a) == {b \in S : <<a, b>> \in R}
           T == {Above(a) : a \in S}
<1>1. T \subseteq FiniteSubsetsOf(S) /\ T # {}
  <2>1. FiniteSubsetsOf(S) = SUBSET S
    BY FS_FiniteSubsetsOfFinite
  <2>2. \A a \in S : Above(a) \in SUBSET S
    OBVIOUS
  <2>3. T # {}
    <3>1. PICK a : a \in S
      OBVIOUS
    <3>2. Above(a) \in T
      BY <3>1
    <3> QED BY <3>2
  <2>4. T \subseteq SUBSET S
    <3> HIDE DEF Above
    <3> QED BY <2>2
  <2> QED BY <2>1, <2>3, <2>4
<1>2. IsWellFoundedOn(StrictSubsetOrdering(S), FiniteSubsetsOf(S))
  BY FS_StrictSubsetOrderingWellFounded
<1>3. PICK X \in T : \A Y \in T : ~(<<Y, X>> \in StrictSubsetOrdering(S))
  <2> HIDE DEF T
  <2> QED BY <1>1, <1>2, WFMin
<1>4. PICK a \in S : X = Above(a)
  OBVIOUS
<1>5. ASSUME NEW b \in S, <<a, b>> \in R PROVE FALSE
  <2>1. Above(b) \subseteq Above(a)
    BY <1>5
  <2>2. b \in Above(a) /\ b \notin Above(b)
    BY <1>5
  <2>3. <<Above(b), Above(a)>> \in StrictSubsetOrdering(S)
    <3> HIDE DEF Above
    <3>1. Above(a) \in SUBSET S /\ Above(b) \in SUBSET S
      BY DEF Above
    <3> QED BY <3>1, <2>1, <2>2 DEF StrictSubsetOrdering
  <2> QED BY <1>3, <1>4, <2>3
<1> QED BY <1>5

\* A finite nonempty set of integers has a largest and a smallest member.
THEOREM FiniteIntSetHasMax ==
  ASSUME NEW S \in SUBSET Int, IsFiniteSet(S), S # {}
  PROVE  \E a \in S : \A b \in S : b <= a
<1> DEFINE R == {p \in S \X S : p[1] < p[2]}
<1>1. \A a \in S : <<a, a>> \notin R
  OBVIOUS
<1>2. \A a, b, c \in S : <<a, b>> \in R /\ <<b, c>> \in R => <<a, c>> \in R
  OBVIOUS
<1>3. PICK a \in S : \A b \in S : <<a, b>> \notin R
  <2> HIDE DEF R
  <2> QED BY <1>1, <1>2, FiniteSetHasMaximal
<1>4. \A b \in S : ~(a < b)
  BY <1>3
<1> QED BY <1>4

\* A finite nonempty set of integers has a least element.
THEOREM FiniteIntSetHasMin ==
  ASSUME NEW S \in SUBSET Int, IsFiniteSet(S), S # {}
  PROVE  \E a \in S : \A b \in S : a <= b
<1> DEFINE R == {p \in S \X S : p[2] < p[1]}
<1>1. \A a \in S : <<a, a>> \notin R
  OBVIOUS
<1>2. \A a, b, c \in S : <<a, b>> \in R /\ <<b, c>> \in R => <<a, c>> \in R
  OBVIOUS
<1>3. PICK a \in S : \A b \in S : <<a, b>> \notin R
  <2> HIDE DEF R
  <2> QED BY <1>1, <1>2, FiniteSetHasMaximal
<1>4. \A b \in S : ~(b < a)
  BY <1>3
<1> QED BY <1>4

-----------------------------------------------------------------------------
(* The index's orders.                                                      *)

\* There are finitely many sequence numbers, all of them positive.
LEMMA SeqsFinite == IsFiniteSet(Seqs) /\ Seqs \subseteq Nat \ {0}
<1>1. MaxSeq \in Nat
  BY ConstantsAssumption
<1> QED BY <1>1, FS_Interval

\* There are finitely many postings.
LEMMA RowFinite == IsFiniteSet(Row)
BY SeqsFinite, WordIsFinite, FS_Product DEF Row

\* Before, the order of the postings' primary key, is a strict total order above the origin.
LEMMA BeforeIsStrictOrder ==
  /\ \A a \in Cursor : ~Before(a, a)
  /\ \A a, b, c \in Cursor : Before(a, b) /\ Before(b, c) => Before(a, c)
  /\ \A a, b \in Cursor : a = b \/ Before(a, b) \/ Before(b, a)
  /\ \A a \in Row : Before(Origin, a) /\ a # Origin
<1>1. Word \subseteq Nat \ {0} /\ Seqs \subseteq Nat \ {0}
  BY ConstantsAssumption
<1>2. ASSUME NEW a \in Row
      PROVE  a[1] \in Nat \ {0} /\ a[2] \in Nat \ {0} /\ a = <<a[1], a[2]>>
  <2>1. PICK w \in Word, s \in Seqs : a = <<w, s>>
    BY DEF Row
  <2>2. w \in Nat \ {0} /\ s \in Nat \ {0}
    BY <1>1
  <2> QED BY <2>1, <2>2
<1>3. \A a \in Cursor : a[1] \in Nat /\ a[2] \in Nat /\ a = <<a[1], a[2]>>
  BY <1>2 DEF Cursor
<1>4. \A a \in Cursor : ~Before(a, a)
  BY <1>3 DEF Before
<1>5. \A a, b, c \in Cursor : Before(a, b) /\ Before(b, c) => Before(a, c)
  BY <1>3 DEF Before
<1>6. ASSUME NEW a \in Cursor, NEW b \in Cursor
      PROVE  a = b \/ Before(a, b) \/ Before(b, a)
  BY <1>3 DEF Before
<1>7. \A a \in Row : Before(Origin, a) /\ a # Origin
  BY <1>2 DEF Before
<1> QED BY <1>4, <1>5, <1>6, <1>7

\* The newest of a set of sequence numbers is its largest member.
LEMMA NewestIsMax ==
  ASSUME NEW S \in SUBSET Seqs
  PROVE  /\ Newest(S) \in 0..MaxSeq
         /\ \A s \in S : s <= Newest(S)
         /\ S # {} => Newest(S) \in S
<1>1. CASE S = {}
  BY <1>1, ConstantsAssumption DEF Newest
<1>2. CASE S # {}
  <2>1. IsFiniteSet(S)
    BY SeqsFinite, FS_Subset
  <2>2. \E s \in S : \A other \in S : other <= s
    BY <2>1, <1>2, FiniteIntSetHasMax, SeqsFinite
  <2>3. Newest(S) \in S /\ \A other \in S : other <= Newest(S)
    BY <2>2, <1>2 DEF Newest
  <2>4. MaxSeq \in Nat
    BY ConstantsAssumption
  <2>5. Newest(S) \in Seqs
    BY <2>3
  <2>6. Newest(S) \in 0..MaxSeq
    BY <2>4, <2>5
  <2> QED BY <2>3, <2>6
<1> QED BY <1>1, <1>2

\* A chunk of sequence numbers is a part of the set, closed downwards in it and
\* not empty.
LEMMA FirstSeqsIsPrefix ==
  ASSUME NEW S \in SUBSET Seqs, NEW n \in Nat \ {0}
  PROVE  /\ FirstSeqs(S, n) \subseteq S
         /\ \A a \in FirstSeqs(S, n), b \in S : b <= a => b \in FirstSeqs(S, n)
         /\ S # {} => FirstSeqs(S, n) # {}
<1> DEFINE Under(c) == {o \in S : o < c}
<1>1. ASSUME NEW a \in FirstSeqs(S, n), NEW b \in S, b <= a
      PROVE  b \in FirstSeqs(S, n)
  <2>1. a \in Nat /\ b \in Nat /\ \A o \in S : o \in Nat
    BY SeqsFinite DEF FirstSeqs
  <2>2. \A o \in S : o < b => o < a
    BY <1>1, <2>1
  <2>3. Under(b) \in SUBSET Under(a)
    BY <2>2
  <2>4. Under(a) \in SUBSET Seqs
    OBVIOUS
  <2>5. IsFiniteSet(Under(a)) /\ IsFiniteSet(Under(b))
    BY <2>3, <2>4, SeqsFinite, FS_Subset
  <2>6. Cardinality(Under(b)) <= Cardinality(Under(a))
    BY <2>3, <2>5, FS_Subset
  <2>7. Cardinality(Under(b)) \in Nat /\ Cardinality(Under(a)) \in Nat
    BY <2>5, FS_CardinalityType
  <2>8. Cardinality(Under(a)) < n
    BY DEF FirstSeqs
  <2> QED BY <2>6, <2>7, <2>8 DEF FirstSeqs
<1>2. ASSUME S # {} PROVE FirstSeqs(S, n) # {}
  <2>1. IsFiniteSet(S)
    BY SeqsFinite, FS_Subset
  <2>2. \A b \in S : b \in Int
    BY SeqsFinite
  <2>3. PICK a \in S : \A b \in S : a <= b
    BY <2>1, <2>2, <1>2, FiniteIntSetHasMin
  <2>4. \A b \in S : ~(b < a)
    BY <2>2, <2>3
  <2>5. Under(a) = {}
    BY <2>4
  <2>6. Cardinality(Under(a)) = 0
    BY <2>5, FS_EmptySet
  <2> QED BY <2>6 DEF FirstSeqs
<1> QED BY <1>1, <1>2 DEF FirstSeqs

\* A slice of postings is a part of the set, closed downwards in it and not
\* empty.
LEMMA FirstRowsIsPrefix ==
  ASSUME NEW S \in SUBSET Row, NEW n \in Nat \ {0}
  PROVE  /\ FirstRows(S, n) \subseteq S
         /\ \A a \in FirstRows(S, n), b \in S : Before(b, a) => b \in FirstRows(S, n)
         /\ S # {} => FirstRows(S, n) # {}
<1> DEFINE Under(c) == {o \in S : Before(o, c)}
<1>1. FirstRows(S, n) \subseteq S
  BY DEF FirstRows
<1>2. ASSUME NEW a \in FirstRows(S, n), NEW b \in S, Before(b, a)
      PROVE  b \in FirstRows(S, n)
  <2>1. a \in S /\ \A o \in S : o \in Cursor
    BY <1>1 DEF Cursor
  <2>2. Under(b) \in SUBSET Under(a)
    BY <2>1, <1>2, BeforeIsStrictOrder
  <2>3. IsFiniteSet(Under(a)) /\ IsFiniteSet(Under(b))
    BY RowFinite, FS_Subset
  <2>4. Cardinality(Under(b)) <= Cardinality(Under(a))
    BY <2>2, <2>3, FS_Subset
  <2>5. Cardinality(Under(b)) \in Nat /\ Cardinality(Under(a)) \in Nat
    BY <2>3, FS_CardinalityType
  <2>6. Cardinality(Under(a)) < n
    BY DEF FirstRows
  <2> QED BY <2>4, <2>5, <2>6 DEF FirstRows
<1>3. ASSUME S # {} PROVE FirstRows(S, n) # {}
  <2> DEFINE R == {p \in S \X S : Before(p[2], p[1])}
  <2>1. \A a \in S : a \in Cursor
    BY DEF Cursor
  <2>2. \A a \in S : <<a, a>> \notin R
    BY <2>1, BeforeIsStrictOrder
  <2>3. \A a, b, c \in S : <<a, b>> \in R /\ <<b, c>> \in R => <<a, c>> \in R
    BY <2>1, BeforeIsStrictOrder
  <2>4. IsFiniteSet(S)
    BY RowFinite, FS_Subset
  <2>5. PICK a \in S : \A b \in S : <<a, b>> \notin R
    <3> HIDE DEF R
    <3> QED BY <2>2, <2>3, <2>4, <1>3, FiniteSetHasMaximal
  <2>6. Under(a) = {}
    BY <2>5
  <2>7. Cardinality(Under(a)) = 0
    BY <2>6, FS_EmptySet
  <2> QED BY <2>7 DEF FirstRows
<1> QED BY <1>1, <1>2, <1>3

\* The last of a set of postings comes after all others.
LEMMA LastRowIsMax ==
  ASSUME NEW S \in SUBSET Row, S # {}
  PROVE  /\ LastRow(S) \in S
         /\ \A o \in S : o = LastRow(S) \/ Before(o, LastRow(S))
<1> DEFINE R == {p \in S \X S : Before(p[1], p[2])}
<1>1. \A a \in S : a \in Cursor
  BY DEF Cursor
<1>2. \A a \in S : <<a, a>> \notin R
  BY <1>1, BeforeIsStrictOrder
<1>3. \A a, b, c \in S : <<a, b>> \in R /\ <<b, c>> \in R => <<a, c>> \in R
  BY <1>1, BeforeIsStrictOrder
<1>4. IsFiniteSet(S)
  BY RowFinite, FS_Subset
<1>5. PICK a \in S : \A b \in S : <<a, b>> \notin R
  <2> HIDE DEF R
  <2> QED BY <1>2, <1>3, <1>4, FiniteSetHasMaximal
<1>6. \A o \in S : o = a \/ Before(o, a)
  BY <1>1, <1>5, BeforeIsStrictOrder
<1>7. \E r \in S : \A o \in S : o = r \/ Before(o, r)
  BY <1>6
<1> QED BY <1>7 DEF LastRow

-----------------------------------------------------------------------------
(* The invariant holds initially.                                          *)

\* A new store, and a store written before the index existed, satisfy the invariant.
LEMMA InitIInv == Init => IInv
<1> SUFFICES ASSUME Init PROVE IInv
  OBVIOUS
<1>1. MaxSeq \in Nat
  BY ConstantsAssumption
<1>2. NewestSeq \in 0..MaxSeq
  BY NewestIsMax DEF NewestSeq, Present
<1>3. TypeOK
  <2>1. (objects = TRUE /\ valid = 1) \/ (objects = FALSE /\ valid = 0)
    BY DEF Init
  <2>2. objects \in BOOLEAN
    BY <2>1, Zenon
  <2>3. valid \in 0..2 /\ covered \in 0..MaxSeq /\ through \in 0..MaxSeq
    BY <2>1, <1>1 DEF Init
  <2>4. cursor \in Cursor /\ place \in Cursor
    BY DEF Init, Cursor
  <2> QED BY <1>2, <2>2, <2>3, <2>4 DEF Init, TypeOK
<1>4. documents = Cardinality(termDocs)
  BY FS_EmptySet DEF Init
<1>5. LiveThrough(0) = {}
  BY <1>1 DEF LiveThrough, Live
<1>6. CompleteExact
  BY <1>5 DEF Init, CompleteExact, Entries, EntriesIn
<1> QED
  BY <1>3, <1>4, <1>6
  DEF Init, IInv, DocumentsLive, PartialExact, BuilderReads, CatchUpOwns

-----------------------------------------------------------------------------
(* A step that changes texts only, and perhaps marks the index invalid: as *)
(* long as it stays valid, nothing that the index covers has changed but   *)
(* capsules that have left before they came into the index.                *)

\* A change of the capsules table preserves the invariant when it leaves the index's rows alone and
\* touches no document the index holds, or marks the index invalid.
LEMMA TextStep ==
  ASSUME IInv,
         text' \in [Seqs -> Text \cup {Absent, Forgotten}],
         lastHandle' \in 0..MaxSeq,
         UNCHANGED <<objects, covered, cursor, tokenizer, documents, termDocs,
                     postings, locals>>,
         valid' \in {0, valid},
         objects /\ valid' # 0 =>
           \A s \in Seqs : s <= covered =>
             text'[s] = text[s] \/ (text'[s] \notin Text /\ s \notin termDocs)
  PROVE  IInv'
<1> USE DEF locals
<1>1. TypeOK'
  BY DEF IInv, TypeOK
<1>2. documents' = Cardinality(termDocs)' /\ (builder = NoProcess <=> pc = "idle")'
  BY DEF IInv
<1>3. CASE ~(objects /\ valid' # 0)
  BY <1>1, <1>2, <1>3
  DEF IInv, DocumentsLive, CompleteExact, PartialExact, BuilderReads, CatchUpOwns
<1>4. CASE objects /\ valid' # 0
  <2>1. valid' = valid /\ valid # 0 /\ objects' /\ objects
    BY <1>4
  <2>2. termDocs \subseteq Seqs /\ \A s \in termDocs : text[s] \in Text /\ s <= covered
    BY <2>1 DEF IInv, TypeOK, DocumentsLive, LiveThrough, Live
  <2>3. \A s \in termDocs : text'[s] = text[s]
    BY <1>4, <2>2
  <2>4. \A s \in LiveThrough(covered)' : s \in LiveThrough(covered) /\ text'[s] = text[s]
    BY <1>4 DEF LiveThrough, Live
  <2>5. Entries(tokenizer, termDocs)' = Entries(tokenizer, termDocs)
    BY <2>3 DEF Entries, EntriesIn, Row
  <2>6. termDocs \subseteq LiveThrough(covered)'
    BY <2>2, <2>3 DEF LiveThrough, Live
  <2>7. termDocs = LiveThrough(covered) => termDocs' = LiveThrough(covered)'
    BY <2>4, <2>6
  <2>8. DocumentsLive'
    BY <2>6 DEF DocumentsLive
  <2>9. CompleteExact'
    BY <2>1, <2>5, <2>7 DEF IInv, CompleteExact
  <2>10. PartialExact'
    <3> SUFFICES ASSUME valid = 2 PROVE PartialExact'
      BY <2>1 DEF PartialExact
    <3>1. PartialExact
      BY DEF IInv
    <3>2. \A d \in termDocs, s \in Live' : s <= d => s \in termDocs
      <4> SUFFICES ASSUME NEW d \in termDocs, NEW s \in Live', s <= d
                   PROVE  s \in termDocs
        OBVIOUS
      <4>1. s \in Seqs /\ covered \in Nat /\ d \in Nat /\ s \in Nat
        BY SeqsFinite, <2>2 DEF Live, IInv, TypeOK
      <4>2. s <= covered
        BY <2>2, <4>1
      <4>3. s \in Live
        BY <4>2, <2>4 DEF LiveThrough
      <4> QED BY <4>3, <3>1, <2>1 DEF PartialExact
    <3> QED BY <3>1, <3>2, <2>1, <2>5, <2>7 DEF PartialExact
  <2>11. BuilderReads'
    <3> SUFFICES ASSUME valid = 2, builder # NoProcess PROVE BuilderReads'
      BY <2>1 DEF BuilderReads
    <3>1. BuilderReads
      BY DEF IInv
    <3>2. ASSUME pc \in {"lengths", "postings"}
          PROVE  {r \in rows : r[2] \in Live'}
                   = {r \in Entries(tokenizer, LiveThrough(covered))' : Before(place, r)}
      <4>1. {r \in rows : r[2] \in Live}
              = {r \in Entries(tokenizer, LiveThrough(covered)) : Before(place, r)}
        BY <3>1, <3>2, <2>1 DEF BuilderReads
      <4>2. \A r \in rows : r \in Row /\ r[2] <= covered
        BY <3>1, <3>2, <2>1 DEF BuilderReads, IInv, TypeOK
      <4>3. \A r \in rows : r[2] \in Live' => r[2] \in Live /\ text'[r[2]] = text[r[2]]
        BY <4>2, <2>4 DEF LiveThrough
      <4>4. \A r \in Entries(tokenizer, LiveThrough(covered))' :
              r \in Entries(tokenizer, LiveThrough(covered)) /\ r[2] \in Live'
        BY <2>4 DEF Entries, EntriesIn, LiveThrough
      <4>5. \A r \in Entries(tokenizer, LiveThrough(covered)) :
              r[2] \in Live' => r \in Entries(tokenizer, LiveThrough(covered))'
        BY <2>4 DEF Entries, EntriesIn, LiveThrough, Live
      <4> QED BY <4>1, <4>3, <4>4, <4>5
    <3> QED BY <3>1, <3>2, <2>1, <2>4, <2>7 DEF BuilderReads
  <2>12. CatchUpOwns'
    BY <2>1 DEF IInv, CatchUpOwns
  <2> QED BY <1>1, <1>2, <2>8, <2>9, <2>10, <2>11, <2>12 DEF IInv
<1> QED BY <1>3, <1>4

-----------------------------------------------------------------------------
(* Each step preserves the invariant.                                      *)

\* What a document of an index in use is.
LEMMA DocumentIsLive ==
  ASSUME IInv, objects, valid # 0, NEW s \in termDocs
  PROVE  s \in Seqs /\ text[s] \in Text /\ s <= covered
BY DEF IInv, TypeOK, DocumentsLive, LiveThrough, Live

\* The capsules_term_index_insert trigger keeps the invariant.
LEMMA OtherInsertStep ==
  ASSUME IInv, NEW s \in Seqs, NEW x \in Text \cup {Forgotten}, OtherInsert(s, x)
  PROVE  IInv'
<1>1. text' \in [Seqs -> Text \cup {Absent, Forgotten}] /\ lastHandle' \in 0..MaxSeq
  BY DEF OtherInsert, IInv, TypeOK
<1>2. valid' \in {0, valid}
  BY DEF OtherInsert, Triggered
<1>3. ASSUME objects, valid' # 0, NEW q \in Seqs, q <= covered
      PROVE  text'[q] = text[q] \/ (text'[q] \notin Text /\ q \notin termDocs)
  <2>1. valid' = valid /\ ~InsertWatched(s, x)
    BY <1>3 DEF OtherInsert, Triggered
  <2>2. q # s => text'[q] = text[q]
    BY DEF OtherInsert, IInv, TypeOK
  <2>3. q = s => text'[q] = x /\ x \notin Text
    BY <2>1, <1>3 DEF OtherInsert, InsertWatched, IInv, TypeOK
  <2>4. q = s => q \notin termDocs
    BY <1>3, <2>1, DocumentIsLive, ConstantsAssumption DEF OtherInsert
  <2> QED BY <2>2, <2>3, <2>4
<1> QED BY <1>1, <1>2, <1>3, TextStep DEF OtherInsert

\* The capsules_term_index_update trigger keeps it when a capsule's content changes.
LEMMA OtherUpdateStep ==
  ASSUME IInv, NEW s \in Seqs, NEW x \in Text \cup {Forgotten}, OtherUpdate(s, x)
  PROVE  IInv'
<1>1. text' \in [Seqs -> Text \cup {Absent, Forgotten}] /\ lastHandle' \in 0..MaxSeq
  BY DEF OtherUpdate, IInv, TypeOK
<1>2. valid' \in {0, valid}
  BY DEF OtherUpdate, Triggered
<1>3. ASSUME objects, valid' # 0, NEW q \in Seqs, q <= covered
      PROVE  text'[q] = text[q] \/ (text'[q] \notin Text /\ q \notin termDocs)
  <2>1. ~UpdateWatched(s, x)
    BY <1>3 DEF OtherUpdate, Triggered
  <2>2. q # s => text'[q] = text[q]
    BY DEF OtherUpdate, IInv, TypeOK
  <2>3. q = s => text'[q] = x
    BY DEF OtherUpdate, IInv, TypeOK
  <2> QED BY <2>1, <2>2, <2>3 DEF UpdateWatched
<1> QED BY <1>1, <1>2, <1>3, TextStep DEF OtherUpdate

\* The same trigger keeps it when a capsule changes its sequence number.
LEMMA OtherMoveStep ==
  ASSUME IInv, NEW s \in Seqs, NEW other \in Seqs, OtherMove(s, other)
  PROVE  IInv'
<1>1. text' \in [Seqs -> Text \cup {Absent, Forgotten}] /\ lastHandle' \in 0..MaxSeq
  BY DEF OtherMove, IInv, TypeOK
<1>2. valid' \in {0, valid}
  BY DEF OtherMove, Triggered
<1>3. ASSUME objects, valid' # 0, NEW q \in Seqs, q <= covered
      PROVE  text'[q] = text[q] \/ (text'[q] \notin Text /\ q \notin termDocs)
  <2>1. valid' = valid /\ text[s] \notin Text /\ s \notin termDocs
    BY <1>3 DEF OtherMove, Triggered, MoveWatched
  <2>2. q \notin {s, other} => text'[q] = text[q]
    BY DEF OtherMove, IInv, TypeOK
  <2>3. q = s => text'[q] \notin Text
    BY <2>1, ConstantsAssumption DEF OtherMove, IInv, TypeOK
  <2>4. q = other => text'[q] \notin Text
    BY <2>1, ConstantsAssumption DEF OtherMove, IInv, TypeOK
  <2>5. q = other => q \notin termDocs
    BY <1>3, <2>1, DocumentIsLive, ConstantsAssumption DEF OtherMove
  <2> QED BY <2>1, <2>2, <2>3, <2>4, <2>5
<1> QED BY <1>1, <1>2, <1>3, TextStep DEF OtherMove

\* The capsules_term_index_delete trigger keeps it.
LEMMA OtherDeleteStep ==
  ASSUME IInv, NEW s \in Seqs, OtherDelete(s)
  PROVE  IInv'
<1>1. text' \in [Seqs -> Text \cup {Absent, Forgotten}] /\ lastHandle' \in 0..MaxSeq
  BY DEF OtherDelete, IInv, TypeOK
<1>2. valid' \in {0, valid}
  BY DEF OtherDelete, Triggered
<1>3. ASSUME objects, valid' # 0, NEW q \in Seqs, q <= covered
      PROVE  text'[q] = text[q] \/ (text'[q] \notin Text /\ q \notin termDocs)
  <2>1. s \notin termDocs
    BY <1>3 DEF OtherDelete, Triggered, DeleteWatched
  <2>2. q # s => text'[q] = text[q]
    BY DEF OtherDelete, IInv, TypeOK
  <2>3. q = s => text'[q] \notin Text
    BY ConstantsAssumption DEF OtherDelete, IInv, TypeOK
  <2> QED BY <2>1, <2>2, <2>3
<1> QED BY <1>1, <1>2, <1>3, TextStep DEF OtherDelete

\* While an object is missing nothing is claimed of the index.
LEMMA BrokenIndex ==
  ASSUME IInv, TypeOK', ~objects' \/ valid' = 0,
         documents' = Cardinality(termDocs'),
         builder' = NoProcess <=> pc' = "idle"
  PROVE  IInv'
BY DEF IInv, DocumentsLive, CompleteExact, PartialExact, BuilderReads, CatchUpOwns

\* Dropping one of the index's objects keeps it: nobody reads an index that is not intact.
LEMMA OtherDropStep == ASSUME IInv, OtherDrop PROVE IInv'
<1>1. TypeOK'
  BY DEF OtherDrop, IInv, TypeOK, store, locals
<1>2. documents' = Cardinality(termDocs') /\ (builder' = NoProcess <=> pc' = "idle")
  BY DEF OtherDrop, IInv, locals
<1> QED BY <1>1, <1>2, BrokenIndex DEF OtherDrop

\* _add_term_index_objects starts from an empty index.
LEMMA AddObjectsStep ==
  ASSUME IInv, NEW p \in Process, AddObjects(p)
  PROVE  IInv'
<1>1. TokOf[p] \in Tokenizer /\ 0 \in 0..MaxSeq
  BY ConstantsAssumption
<1>2. TypeOK'
  BY <1>1 DEF AddObjects, Reset, IInv, TypeOK, Cursor, store, locals
<1>3. documents' = Cardinality(termDocs')
  BY FS_EmptySet DEF AddObjects, Reset
<1>4. builder' = NoProcess <=> pc' = "idle"
  BY DEF AddObjects, IInv, locals
<1> QED BY <1>2, <1>3, <1>4, BrokenIndex DEF AddObjects, Reset

\* forget_capsule takes the postings of the capsule, or marks the index invalid.
LEMMA ForgetStep ==
  ASSUME IInv, NEW p \in Process, NEW s \in Seqs, Forget(p, s)
  PROVE  IInv'
<1>1. text' \in [Seqs -> Text \cup {Absent, Forgotten}] /\ lastHandle' \in 0..MaxSeq
  BY DEF Forget, IInv, TypeOK
<1>2. text[s] \in Text /\ text'[s] = Forgotten /\ \A q \in Seqs : q # s => text'[q] = text[q]
  BY DEF Forget, IInv, TypeOK
<1>3. CASE ~Unindexed(p, s)
  <2>1. valid' \in {0, valid}
    BY <1>3 DEF Forget, Triggered
  <2>2. ASSUME objects, valid' # 0, NEW q \in Seqs, q <= covered
        PROVE  text'[q] = text[q] \/ (text'[q] \notin Text /\ q \notin termDocs)
    <3>1. valid' = valid /\ tokenizer = TokOf[p] /\ ~UpdateWatched(s, Forgotten)
      BY <1>3, <2>2 DEF Forget, Triggered
    <3>2. s \notin termDocs
      BY <3>1, <1>2, <2>2, <1>3 DEF Unindexed
    <3> QED BY <3>2, <1>2, ConstantsAssumption
  <2> QED BY <1>3, <1>1, <2>1, <2>2, TextStep DEF Forget
<1>4. CASE Unindexed(p, s)
  <2>1. /\ objects /\ valid # 0 /\ tokenizer = TokOf[p] /\ s \in termDocs
        /\ postings' = postings \ Entries(TokOf[p], {s})
        /\ termDocs' = termDocs \ {s}
        /\ documents' = documents - 1
        /\ valid' = valid
        /\ UNCHANGED <<lastHandle, objects, covered, cursor, tokenizer, builder,
                       pc, through, place, lengths, rows>>
    BY <1>4 DEF Forget, Unindexed, locals
  <2>2. IsFiniteSet(termDocs)
    BY SeqsFinite, FS_Subset DEF IInv, TypeOK
  <2>3. documents' = Cardinality(termDocs') /\ documents' \in Nat
    <3>1. documents = Cardinality(termDocs)
      BY DEF IInv
    <3>2. Cardinality(termDocs \ {s}) = Cardinality(termDocs) - 1 /\ IsFiniteSet(termDocs \ {s})
      BY <2>1, <2>2, FS_RemoveElement
    <3>3. Cardinality(termDocs \ {s}) \in Nat
      BY <3>2, FS_CardinalityType
    <3> QED BY <3>1, <3>2, <3>3, <2>1
  <2>4. TypeOK'
    BY <1>1, <2>1, <2>3 DEF IInv, TypeOK
  <2>5. LiveThrough(covered)' = LiveThrough(covered) \ {s}
    BY <1>2, <2>1, ConstantsAssumption DEF LiveThrough, Live
  <2>6. \A S : Entries(tokenizer, S \ {s})' = Entries(tokenizer, S) \ Entries(tokenizer, {s})
    BY <1>2, <2>1, ConstantsAssumption DEF Entries, EntriesIn, Row
  <2>7. DocumentsLive'
    BY <2>1, <2>5 DEF IInv, DocumentsLive
  <2>8. CompleteExact'
    BY <2>1, <2>5, <2>6 DEF IInv, CompleteExact
  <2>9. PartialExact'
    <3> SUFFICES ASSUME valid = 2 PROVE PartialExact'
      BY <2>1 DEF PartialExact
    <3>1. PartialExact
      BY DEF IInv
    <3>2. Entries(tokenizer, termDocs)' = Entries(tokenizer, termDocs) \ Entries(tokenizer, {s})
      BY <2>1, <2>6
    <3>3. postings = {r \in Entries(tokenizer, termDocs) : r = cursor \/ Before(r, cursor)}
      BY <2>1, <3>1 DEF PartialExact
    <3>4. postings' = {r \in Entries(tokenizer, termDocs)' : r = cursor \/ Before(r, cursor)}
      BY <2>1, <3>2, <3>3
    <3>5. \A d \in termDocs', q \in Live' : q <= d => q \in termDocs'
      BY <2>1, <3>1, <1>2, ConstantsAssumption DEF PartialExact, Live
    <3> QED BY <2>1, <2>5, <3>1, <3>4, <3>5 DEF PartialExact
  <2>10. BuilderReads'
    <3> SUFFICES ASSUME valid = 2, builder # NoProcess PROVE BuilderReads'
      BY <2>1 DEF BuilderReads
    <3>1. BuilderReads
      BY DEF IInv
    <3>2. ASSUME pc \in {"lengths", "postings"}
          PROVE  {r \in rows : r[2] \in Live'}
                   = {r \in Entries(tokenizer, LiveThrough(covered))' : Before(place, r)}
      <4>1. {r \in rows : r[2] \in Live}
              = {r \in Entries(tokenizer, LiveThrough(covered)) : Before(place, r)}
        BY <3>1, <3>2, <2>1 DEF BuilderReads
      <4>2. Live' = Live \ {s}
        BY <1>2, ConstantsAssumption DEF Live
      <4>3. Entries(tokenizer, LiveThrough(covered))'
              = {r \in Entries(tokenizer, LiveThrough(covered)) : r[2] # s}
        <5>1. Entries(tokenizer, LiveThrough(covered))'
                = Entries(tokenizer, LiveThrough(covered)) \ Entries(tokenizer, {s})
          BY <2>5, <2>6, <2>1
        <5>2. \A r \in Entries(tokenizer, LiveThrough(covered)) :
                r \in Entries(tokenizer, {s}) <=> r[2] = s
          BY DEF Entries, EntriesIn
        <5> QED BY <5>1, <5>2
      <4> QED BY <4>1, <4>2, <4>3
    <3> QED BY <3>1, <3>2, <2>1, <2>5 DEF BuilderReads
  <2>11. CatchUpOwns' /\ (builder = NoProcess <=> pc = "idle")'
    BY <2>1 DEF IInv, CatchUpOwns
  <2> QED BY <2>3, <2>4, <2>7, <2>8, <2>9, <2>10, <2>11 DEF IInv
<1> QED BY <1>3, <1>4

\* An append extends an index that covers every earlier capsule and leaves any other one alone.
LEMMA InsertStep ==
  ASSUME IInv, NEW p \in Process, NEW x \in Text, Insert(p, x)
  PROVE  IInv'
<1> DEFINE n == (IF NewestSeq < lastHandle THEN lastHandle ELSE NewestSeq) + 1
<1>1. NewestSeq \in 0..MaxSeq /\ \A s \in Present : s <= NewestSeq
  BY NewestIsMax DEF NewestSeq, Present
<1>2. lastHandle \in 0..MaxSeq /\ covered \in 0..MaxSeq /\ MaxSeq \in Nat
  BY ConstantsAssumption DEF IInv, TypeOK
<1>3. n \in Seqs /\ NewestSeq < n
  BY <1>1, <1>2 DEF Insert
<1>4. text[n] = Absent
  BY <1>1, <1>3 DEF Present
<1>5. /\ text' = [text EXCEPT ![n] = x]
      /\ lastHandle' = n
      /\ Triggered(InsertWatched(n, x))
      /\ UNCHANGED <<objects, cursor, tokenizer, locals>>
  BY DEF Insert
<1>6. Usable(TokOf[p]) =>
        IndexDocuments(text', TokOf[p], {n}) /\ covered' = n
  BY DEF Insert
<1>7. ~Usable(TokOf[p]) => UNCHANGED <<termDocs, documents, postings, covered>>
  BY DEF Insert
<1> HIDE DEF n
<1>8. /\ text' \in [Seqs -> Text \cup {Absent, Forgotten}]
      /\ text'[n] = x /\ \A s \in Seqs : s # n => text'[s] = text[s]
      /\ lastHandle' \in 0..MaxSeq
      /\ valid' \in {0, valid}
  BY <1>2, <1>3, <1>5 DEF IInv, TypeOK, Triggered
<1>9. objects /\ valid' # 0 => valid' = valid /\ ~(n <= covered)
  BY <1>5 DEF Triggered, InsertWatched
<1>10. CASE ~Usable(TokOf[p])
  <2>1. ASSUME objects, valid' # 0, NEW q \in Seqs, q <= covered
        PROVE  text'[q] = text[q]
    BY <1>8, <1>9, <2>1
  <2> QED BY <1>5, <1>7, <1>8, <1>10, <2>1, TextStep
<1>11. CASE Usable(TokOf[p])
  <2>1. /\ objects /\ valid = 1 /\ tokenizer = TokOf[p] /\ NewestSeq <= covered
        /\ termDocs' = termDocs \cup {n}
        /\ documents' = documents + Cardinality({n})
        /\ postings' = postings \cup EntriesIn(text', TokOf[p], {n})
        /\ covered' = n
    BY <1>6, <1>11 DEF Usable, IndexDocuments, AddDocuments
  <2>2. termDocs = LiveThrough(covered) /\ postings = Entries(tokenizer, termDocs)
    BY <2>1 DEF IInv, CompleteExact
  <2>3. n \notin termDocs
    BY <2>2, <1>4, ConstantsAssumption DEF LiveThrough, Live
  <2>4. IsFiniteSet(termDocs) /\ documents = Cardinality(termDocs)
    BY SeqsFinite, FS_Subset DEF IInv, TypeOK
  <2>5. documents' = Cardinality(termDocs') /\ documents' \in Nat
    <3>1. Cardinality({n}) = 1
      BY FS_Singleton
    <3>2. Cardinality(termDocs \cup {n}) = Cardinality(termDocs) + 1
      BY <2>3, <2>4, FS_AddElement
    <3>3. Cardinality(termDocs) \in Nat
      BY <2>4, FS_CardinalityType
    <3> QED BY <2>1, <2>4, <3>1, <3>2, <3>3
  <2>6. termDocs' \subseteq Seqs /\ postings' \subseteq Row /\ covered' \in 0..MaxSeq
    BY <1>2, <1>3, <2>1 DEF EntriesIn, IInv, TypeOK
  <2>7. TypeOK'
    <3>1. valid' \in 0..2
      BY <1>8 DEF IInv, TypeOK
    <3> QED BY <1>5, <1>8, <2>5, <2>6, <3>1 DEF IInv, TypeOK, locals
  <2>8. (builder = NoProcess <=> pc = "idle")'
    BY <1>5 DEF IInv, locals
  <2>9. CASE valid' = 0
    BY <2>5, <2>7, <2>8, <2>9, BrokenIndex
  <2>10. CASE valid' # 0
    <3>1. valid' = 1 /\ objects'
      BY <2>1, <2>10, <1>5, <1>8
    <3>2. \A s \in Live : s <= covered /\ s < n /\ s # n
      BY <1>1, <1>2, <1>3, <2>1, ConstantsAssumption DEF Live, Present
    <3>3. Live' = Live \cup {n}
      BY <1>3, <1>8 DEF Live
    <3>4. LiveThrough(covered)' = LiveThrough(covered) \cup {n}
      <4>1. LiveThrough(covered) = Live
        BY <3>2 DEF LiveThrough
      <4>2. n <= n /\ \A s \in Live : s <= n
        BY <3>2, <1>3 DEF Live
      <4>3. LiveThrough(covered)' = Live'
        BY <2>1, <3>3, <4>2 DEF LiveThrough
      <4> QED BY <4>1, <4>3, <3>3
    <3>5. termDocs' = LiveThrough(covered)'
      BY <2>1, <2>2, <3>4
    <3>6. Entries(tokenizer, termDocs)'
            = Entries(tokenizer, termDocs) \cup EntriesIn(text', TokOf[p], {n})
      BY <1>5, <1>8, <2>1, <2>3 DEF Entries, EntriesIn, Row
    <3>7. CompleteExact'
      BY <2>1, <2>2, <3>5, <3>6 DEF CompleteExact
    <3>8. DocumentsLive'
      BY <3>5 DEF DocumentsLive
    <3>9. PartialExact' /\ BuilderReads'
      BY <3>1 DEF PartialExact, BuilderReads
    <3>10. CatchUpOwns'
      BY <2>1, <1>5 DEF IInv, CatchUpOwns, locals
    <3> QED BY <2>5, <2>7, <2>8, <3>7, <3>8, <3>9, <3>10 DEF IInv
  <2> QED BY <2>9, <2>10
<1> QED BY <1>10, <1>11

-----------------------------------------------------------------------------
(* The steps of the builder.                                               *)

\* Taking the term-index lock changes no row.
LEMMA BuildOpenStep ==
  ASSUME IInv, NEW p \in Process, BuildOpen(p)
  PROVE  IInv'
<1>1. /\ builder = NoProcess /\ builder' = p /\ p # NoProcess
      /\ UNCHANGED <<text, lastHandle, objects, covered, valid, cursor, tokenizer,
                     documents, termDocs, postings, lengths, rows>>
  BY ConstantsAssumption DEF BuildOpen, store, index
<1>2. \/ /\ tokenizer = TokOf[p] /\ valid = 1 /\ pc' = "catchup"
         /\ UNCHANGED <<through, place>>
      \/ /\ tokenizer = TokOf[p] /\ valid = 2 /\ pc' = "read"
         /\ through' = covered /\ place' = cursor
      \/ /\ pc' = "reset" /\ UNCHANGED <<through, place>>
  BY DEF BuildOpen
<1>3. TypeOK'
  BY <1>1, <1>2 DEF IInv, TypeOK
<1>4. UNCHANGED <<Live, LiveThrough(covered), Entries(tokenizer, termDocs)>>
  BY <1>1 DEF Live, LiveThrough, Entries, EntriesIn, Row
<1>5. DocumentsLive' /\ CompleteExact' /\ PartialExact'
  BY <1>1, <1>4 DEF IInv, DocumentsLive, CompleteExact, PartialExact
<1>6. BuilderReads' /\ CatchUpOwns'
  BY <1>1, <1>2 DEF BuilderReads, CatchUpOwns
<1> QED BY <1>1, <1>2, <1>3, <1>5, <1>6 DEF IInv

\* A build that cannot resume starts from an empty index.
LEMMA BuildResetStep ==
  ASSUME IInv, NEW p \in Process, BuildReset(p)
  PROVE  IInv'
<1>1. /\ builder = p /\ builder' = p /\ pc' = "read" /\ objects' = TRUE /\ valid' = 2
      /\ covered' = NewestSeq /\ through' = NewestSeq
      /\ cursor' = Origin /\ place' = Origin /\ tokenizer' = TokOf[p]
      /\ documents' = 0 /\ termDocs' = {} /\ postings' = {}
      /\ UNCHANGED <<text, lastHandle, lengths, rows>>
  BY DEF BuildReset, Reset, store
<1>2. NewestSeq \in 0..MaxSeq
  BY NewestIsMax DEF NewestSeq, Present
<1>3. TokOf[p] \in Tokenizer /\ p # NoProcess
  BY ConstantsAssumption
<1>4. TypeOK'
  BY <1>1, <1>2, <1>3 DEF IInv, TypeOK, Cursor
<1>5. documents' = Cardinality(termDocs')
  BY <1>1, FS_EmptySet
<1>6. DocumentsLive' /\ CompleteExact'
  BY <1>1 DEF DocumentsLive, CompleteExact
<1>7. PartialExact'
  BY <1>1 DEF PartialExact, Entries, EntriesIn
<1>8. BuilderReads' /\ CatchUpOwns'
  BY <1>1 DEF BuilderReads, CatchUpOwns
<1> QED BY <1>1, <1>3, <1>4, <1>5, <1>6, <1>7, <1>8 DEF IInv

\* What the builder reads is what its cursor has still to write.
LEMMA BuildReadStep ==
  ASSUME IInv, NEW p \in Process, BuildRead(p)
  PROVE  IInv'
<1>1. /\ builder = p /\ pc = "read" /\ pc' = "lengths" /\ p # NoProcess
      /\ lengths' = LiveThrough(through)
      /\ rows' = {r \in Entries(TokOf[p], LiveThrough(through)) : Before(place, r)}
      /\ UNCHANGED <<text, lastHandle, objects, covered, valid, cursor, tokenizer,
                     documents, termDocs, postings, builder, through, place>>
  BY ConstantsAssumption DEF BuildRead, store, index
<1>2. TypeOK'
  BY <1>1 DEF IInv, TypeOK, Entries, EntriesIn, LiveThrough, Live
<1>3. UNCHANGED <<Live, LiveThrough(covered), Entries(tokenizer, termDocs)>>
  BY <1>1 DEF Live, LiveThrough, Entries, EntriesIn, Row
<1>4. DocumentsLive' /\ CompleteExact' /\ PartialExact'
  BY <1>1, <1>3 DEF IInv, DocumentsLive, CompleteExact, PartialExact
<1>5. BuilderReads'
  <2> SUFFICES ASSUME objects, valid = 2 PROVE BuilderReads'
    BY <1>1 DEF BuilderReads
  <2>1. tokenizer = TokOf[p] /\ through = covered /\ place = cursor
    BY <1>1 DEF IInv, BuilderReads
  <2>2. \A r \in rows' : r[2] \in Live' /\ r[2] <= covered' /\ Before(place', r)
    BY <1>1, <1>3, <2>1 DEF Entries, EntriesIn, LiveThrough
  <2>3. rows' = {r \in Entries(tokenizer, LiveThrough(covered))' : Before(place', r)}
    BY <1>1, <2>1 DEF Entries, EntriesIn, LiveThrough, Live, Row
  <2>4. LiveThrough(covered)' \subseteq lengths' /\ \A s \in lengths' : s <= covered'
    BY <1>1, <1>3, <2>1 DEF LiveThrough
  <2> QED BY <1>1, <2>1, <2>2, <2>3, <2>4 DEF BuilderReads
<1>6. CatchUpOwns'
  BY <1>1 DEF IInv, CatchUpOwns
<1> QED BY <1>1, <1>2, <1>4, <1>5, <1>6 DEF IInv

\* A builder that leaves, or dies, leaves the index as it is.
LEMMA ReleaseStep ==
  ASSUME IInv, Release, UNCHANGED <<store, index>>
  PROVE  IInv'
<1>1. /\ builder' = NoProcess /\ pc' = "idle" /\ through' = 0 /\ place' = Origin
      /\ lengths' = {} /\ rows' = {}
      /\ UNCHANGED <<text, lastHandle, objects, covered, valid, cursor, tokenizer,
                     documents, termDocs, postings>>
  BY DEF Release, store, index
<1>2. TypeOK'
  BY <1>1, ConstantsAssumption DEF IInv, TypeOK, Cursor
<1>3. UNCHANGED <<Live, LiveThrough(covered), Entries(tokenizer, termDocs)>>
  BY <1>1 DEF Live, LiveThrough, Entries, EntriesIn, Row
<1>4. DocumentsLive' /\ CompleteExact' /\ PartialExact'
  BY <1>1, <1>3 DEF IInv, DocumentsLive, CompleteExact, PartialExact
<1>5. BuilderReads' /\ CatchUpOwns'
  BY <1>1 DEF BuilderReads, CatchUpOwns
<1> QED BY <1>1, <1>2, <1>4, <1>5 DEF IInv

\* A builder that finds the index taken from it goes on to the catch-up.
LEMMA GiveUpStep ==
  ASSUME IInv, NEW p \in Process, builder = p, ~Building(p),
         pc \in {"lengths", "postings"}, pc' = "catchup",
         UNCHANGED <<store, index, builder, through, place, lengths, rows>>
  PROVE  IInv'
<1>1. /\ p # NoProcess
      /\ UNCHANGED <<text, lastHandle, objects, covered, valid, cursor, tokenizer,
                     documents, termDocs, postings, builder, through, place,
                     lengths, rows>>
  BY ConstantsAssumption DEF store, index
<1>2. ~(objects /\ valid = 2)
  BY <1>1 DEF Building, IInv, BuilderReads
<1>3. TypeOK'
  BY <1>1 DEF IInv, TypeOK
<1>4. UNCHANGED <<Live, LiveThrough(covered), Entries(tokenizer, termDocs)>>
  BY <1>1 DEF Live, LiveThrough, Entries, EntriesIn, Row
<1>5. DocumentsLive' /\ CompleteExact' /\ PartialExact' /\ BuilderReads'
  BY <1>1, <1>2, <1>4
  DEF IInv, DocumentsLive, CompleteExact, PartialExact, BuilderReads
<1>6. CatchUpOwns'
  BY <1>1 DEF IInv, CatchUpOwns
<1> QED BY <1>1, <1>3, <1>5, <1>6 DEF IInv

\* A slice of document lengths writes those of the slice that still have text.
LEMMA BuildLengthsStep ==
  ASSUME IInv, NEW p \in Process, BuildLengths(p)
  PROVE  IInv'
<1>1. /\ builder = p /\ pc = "lengths" /\ p # NoProcess
      /\ UNCHANGED <<text, lastHandle, builder, through, place, rows>>
  BY ConstantsAssumption DEF BuildLengths, store
<1>2. CASE ~Building(p)
  <2>1. pc' = "catchup" /\ UNCHANGED <<store, index, lengths>>
    BY <1>2 DEF BuildLengths
  <2> QED BY <1>1, <1>2, <2>1, GiveUpStep
<1>3. CASE Building(p)
  <2> DEFINE todo == {s \in lengths : s > Newest(termDocs)}
             batch == FirstSeqs(todo, Slice)
             new == batch \cap Live
  <2>1. /\ objects /\ valid = 2 /\ tokenizer = TokOf[p] /\ cursor = place
        /\ DocumentsLive /\ PartialExact /\ BuilderReads /\ TypeOK
    BY <1>3 DEF Building, IInv
  <2>2. /\ LiveThrough(covered) \subseteq lengths \cup termDocs
        /\ \A s \in lengths : s <= covered
        /\ through = covered
    BY <1>1, <2>1 DEF BuilderReads
  <2>3. /\ \A s \in termDocs : s <= Newest(termDocs)
        /\ termDocs # {} => Newest(termDocs) \in termDocs
        /\ termDocs = {} => Newest(termDocs) = 0
    BY <2>1, NewestIsMax DEF TypeOK, Newest
  <2>4. /\ batch \subseteq todo /\ todo \subseteq lengths /\ lengths \subseteq Seqs
        /\ \A a \in batch, b \in todo : b <= a => b \in batch
        /\ todo # {} => batch # {}
    <3>1. todo \in SUBSET Seqs /\ Slice \in Nat \ {0}
      BY <2>1, ConstantsAssumption DEF TypeOK
    <3> HIDE DEF todo
    <3>2. /\ batch \subseteq todo
          /\ \A a \in batch, b \in todo : b <= a => b \in batch
          /\ todo # {} => batch # {}
      BY <3>1, FirstSeqsIsPrefix
    <3> QED BY <3>2, <2>1 DEF todo, TypeOK
  \* What the index lacks has not been read past.
  <2>5. \A s \in LiveThrough(covered) : s \notin termDocs => s \in todo
    <3> SUFFICES ASSUME NEW s \in LiveThrough(covered), s \notin termDocs
                 PROVE  s > Newest(termDocs)
      BY <2>2
    <3>1. s \in Seqs /\ s \in Live /\ s \in Nat /\ s > 0
      BY SeqsFinite DEF LiveThrough, Live
    <3>2. Newest(termDocs) \in Nat
      BY <2>1, NewestIsMax DEF TypeOK
    <3>3. termDocs # {} => ~(s <= Newest(termDocs))
      BY <2>1, <2>3, <3>1 DEF PartialExact
    <3> QED BY <2>3, <3>1, <3>2, <3>3
  <2>6. new \cap termDocs = {} /\ new \subseteq LiveThrough(covered)
    <3>1. Newest(termDocs) \in Nat
      BY <2>1, NewestIsMax DEF TypeOK
    <3>2. \A s \in todo : s \in Nat
      BY <2>4, SeqsFinite
    <3>3. \A s \in batch : ~(s <= Newest(termDocs))
      <4>1. \A s \in todo : ~(s <= Newest(termDocs))
        BY <3>1, <3>2
      <4> HIDE DEF batch, todo
      <4> QED BY <2>4, <4>1
    <3> QED BY <2>2, <2>3, <2>4, <3>3 DEF LiveThrough
  <2>7. CASE LengthsBatch = {}
    <3>1. pc' = "postings" /\ UNCHANGED <<index, lengths>>
      BY <1>3, <2>7 DEF BuildLengths
    <3>2. UNCHANGED <<objects, covered, valid, cursor, tokenizer, documents,
                      termDocs, postings>>
      BY <3>1 DEF index
    <3>3. termDocs = LiveThrough(covered)
      <4>1. todo = {}
        BY <2>4, <2>7 DEF LengthsBatch
      <4> QED BY <2>1, <2>5, <4>1 DEF DocumentsLive
    <3>4. TypeOK'
      BY <1>1, <2>1, <3>1, <3>2 DEF TypeOK
    <3>5. UNCHANGED <<Live, LiveThrough(covered), Entries(tokenizer, termDocs),
                      Entries(tokenizer, LiveThrough(covered))>>
      BY <1>1, <3>2 DEF Live, LiveThrough, Entries, EntriesIn, Row
    <3>6. DocumentsLive' /\ CompleteExact' /\ PartialExact'
      BY <2>1, <3>2, <3>5 DEF DocumentsLive, CompleteExact, PartialExact
    <3>7. BuilderReads'
      BY <1>1, <2>1, <3>1, <3>2, <3>3, <3>5 DEF BuilderReads
    <3>8. CatchUpOwns'
      BY <2>1, <3>2 DEF CatchUpOwns
    <3> QED BY <1>1, <3>1, <3>2, <3>4, <3>6, <3>7, <3>8 DEF IInv
  <2>8. CASE LengthsBatch # {}
    <3>1. /\ termDocs' = termDocs \cup new
          /\ documents' = documents + Cardinality(new)
          /\ lengths' = LeftLengths(batch)
          /\ UNCHANGED <<pc, objects, covered, valid, cursor, tokenizer, postings>>
      BY <1>3, <2>8 DEF BuildLengths, LengthsBatch, AddDocuments
    <3>2. LeftLengths(batch) \subseteq lengths
      BY DEF LeftLengths
    <3>3. batch # {} /\ Newest(batch) \in batch
      <4> HIDE DEF todo
      <4>1. batch \in SUBSET Seqs
        BY <2>4
      <4> QED BY <2>8, <4>1, NewestIsMax DEF LengthsBatch, todo
    <3> HIDE DEF batch, todo
    <3>4. UNCHANGED <<Live, LiveThrough(covered), Entries(tokenizer, LiveThrough(covered))>>
      BY <1>1, <3>1 DEF Live, LiveThrough, Entries, EntriesIn, Row
    <3>5. documents' = Cardinality(termDocs') /\ documents' \in Nat
      <4>1. IsFiniteSet(termDocs) /\ IsFiniteSet(new)
        BY <2>1, <2>4, SeqsFinite, FS_Subset DEF TypeOK
      <4>2. documents = Cardinality(termDocs)
        BY DEF IInv
      <4>3. Cardinality(termDocs \cup new)
              = Cardinality(termDocs) + Cardinality(new) - Cardinality(termDocs \cap new)
        BY <4>1, FS_Union
      <4>4. termDocs \cap new = {} /\ Cardinality({}) = 0
        BY <2>6, FS_EmptySet
      <4>5. Cardinality(termDocs) \in Nat /\ Cardinality(new) \in Nat
        BY <4>1, FS_CardinalityType
      <4> HIDE DEF new
      <4>6. Cardinality(termDocs \cap new) = 0
        BY <4>4
      <4> QED BY <3>1, <4>2, <4>3, <4>5, <4>6
    <3>6. TypeOK'
      BY <1>1, <2>1, <2>4, <3>1, <3>2, <3>5 DEF TypeOK
    <3>7. DocumentsLive'
      BY <2>1, <2>6, <3>1, <3>4 DEF DocumentsLive
    <3>8. PartialExact'
      <4>1. cursor # Origin => new = {} /\ termDocs' = LiveThrough(covered)'
        BY <2>1, <2>6, <3>1, <3>4 DEF PartialExact
      <4>2. cursor = Origin => \A r \in Row : r # cursor /\ ~Before(r, cursor)
        <5>1. \A r \in Row : Before(Origin, r) /\ r # Origin /\ r \in Cursor
          BY BeforeIsStrictOrder DEF Cursor
        <5>2. Origin \in Cursor
          BY DEF Cursor
        <5> QED BY <5>1, <5>2, BeforeIsStrictOrder
      <4>3. Entries(tokenizer, termDocs)' \subseteq Row /\ Entries(tokenizer, termDocs) \subseteq Row
        BY DEF Entries, EntriesIn
      <4>4. new = {} => Entries(tokenizer, termDocs)' = Entries(tokenizer, termDocs)
        BY <1>1, <3>1 DEF Entries, EntriesIn, Row
      <4>5. postings' = {r \in Entries(tokenizer, termDocs)' : r = cursor' \/ Before(r, cursor')}
        <5>1. postings = {r \in Entries(tokenizer, termDocs) : r = cursor \/ Before(r, cursor)}
          BY <2>1 DEF PartialExact
        <5>2. CASE cursor = Origin
          BY <3>1, <4>2, <4>3, <5>1, <5>2
        <5>3. CASE cursor # Origin
          BY <3>1, <4>1, <4>4, <5>1, <5>3
        <5> QED BY <5>2, <5>3
      <4>6. \A d \in termDocs', s \in Live' : s <= d => s \in termDocs'
        <5> SUFFICES ASSUME NEW d \in termDocs', NEW s \in Live, s <= d
                     PROVE  s \in termDocs'
          BY <3>4
        <5>1. CASE d \in termDocs
          BY <2>1, <3>1, <5>1 DEF PartialExact
        <5>2. CASE d \in new
          <6>1. s \in Nat /\ d \in Nat /\ covered \in Nat /\ d <= covered
            BY <2>1, <2>2, <2>4, <5>2, SeqsFinite DEF TypeOK, Live
          <6>2. s \in LiveThrough(covered)
            BY <6>1 DEF LiveThrough
          <6>3. s \in termDocs \/ s \in batch
            BY <2>4, <2>5, <5>2, <6>2
          <6> QED BY <3>1, <6>3
        <5> QED BY <3>1, <5>1, <5>2
      <4> QED BY <3>1, <4>1, <4>5, <4>6 DEF PartialExact
    <3>9. LiveThrough(covered) \subseteq lengths' \cup termDocs'
      <4> SUFFICES ASSUME NEW s \in LiveThrough(covered), s \notin termDocs'
                   PROVE  s \in lengths'
        OBVIOUS
      <4>1. s \in todo /\ s \in lengths /\ s \in Live
        BY <2>4, <2>5, <3>1 DEF LiveThrough
      <4>2. CASE new # {}
        BY <3>1, <4>1, <4>2 DEF LeftLengths
      <4>3. CASE new = {}
        <5>1. s \in Nat /\ Newest(batch) \in Nat
          BY <2>4, <3>3, <4>1, SeqsFinite
        <5>2. ~(s <= Newest(batch))
          BY <2>4, <3>3, <4>1, <4>3
        <5> QED BY <3>1, <4>1, <4>3, <5>1, <5>2 DEF LeftLengths
      <4> QED BY <4>2, <4>3
    <3>10. BuilderReads'
      BY <1>1, <2>1, <2>2, <3>1, <3>2, <3>4, <3>9 DEF BuilderReads
    <3>11. CompleteExact' /\ CatchUpOwns'
      BY <2>1, <3>1 DEF CompleteExact, CatchUpOwns
    <3> QED BY <1>1, <3>1, <3>5, <3>6, <3>7, <3>8, <3>10, <3>11 DEF IInv
  <2> QED BY <2>7, <2>8
<1> QED BY <1>2, <1>3

\* A slice of postings writes those of the slice whose capsules still have text.
LEMMA BuildPostingsStep ==
  ASSUME IInv, NEW p \in Process, BuildPostings(p)
  PROVE  IInv'
<1>1. /\ builder = p /\ pc = "postings" /\ p # NoProcess
      /\ UNCHANGED <<text, lastHandle, builder, through, lengths>>
  BY ConstantsAssumption DEF BuildPostings, store
<1>2. CASE ~Building(p)
  <2>1. pc' = "catchup" /\ UNCHANGED <<store, index, place, rows>>
    BY <1>2 DEF BuildPostings
  <2> QED BY <1>1, <1>2, <2>1, GiveUpStep
<1>3. CASE Building(p)
  <2>1. /\ objects /\ valid = 2 /\ tokenizer = TokOf[p] /\ cursor = place
        /\ DocumentsLive /\ PartialExact /\ BuilderReads /\ TypeOK
        /\ documents = Cardinality(termDocs)
    BY <1>3 DEF Building, IInv
  <2> DEFINE all == Entries(tokenizer, termDocs)
  <2>2. /\ termDocs = LiveThrough(covered)
        /\ {r \in rows : r[2] \in Live} = {r \in all : Before(place, r)}
        /\ \A r \in rows : Before(place, r) /\ r[2] <= covered
        /\ postings = {r \in all : r = place \/ Before(r, place)}
    BY <1>1, <2>1 DEF BuilderReads, PartialExact
  <2>3. /\ rows \subseteq Row /\ all \subseteq Row
        /\ \A r \in rows : r \in Cursor
        /\ \A r \in all : r \in Cursor
        /\ place \in Cursor
    BY <2>1 DEF TypeOK, Entries, EntriesIn, Cursor
  <2>4. \A r \in rows : r[2] \in Live <=> r[2] \in termDocs
    BY <2>2 DEF LiveThrough
  <2>5. CASE rows = {}
    <3>1. /\ valid' = 1 /\ cursor' = Origin /\ pc' = "catchup"
          /\ UNCHANGED <<objects, covered, tokenizer, documents, termDocs,
                         postings, place, rows>>
      BY <1>3, <2>5 DEF BuildPostings
    <3>2. UNCHANGED <<LiveThrough(covered), all>>
      BY <1>1, <3>1 DEF Live, LiveThrough, Entries, EntriesIn, Row
    <3>3. postings = all
      <4> HIDE DEF all
      <4>1. \A r \in all : ~Before(place, r)
        BY <2>2, <2>5
      <4>2. \A r \in all : r = place \/ Before(r, place)
        BY <2>3, <4>1, BeforeIsStrictOrder
      <4> QED BY <2>2, <4>2
    <3>4. TypeOK'
      BY <1>1, <2>1, <3>1 DEF TypeOK, Cursor
    <3>5. DocumentsLive' /\ CompleteExact'
      BY <2>2, <3>1, <3>2, <3>3 DEF DocumentsLive, CompleteExact
    <3>6. PartialExact' /\ BuilderReads' /\ CatchUpOwns'
      BY <1>1, <2>1, <3>1 DEF PartialExact, BuilderReads, CatchUpOwns
    <3> QED BY <1>1, <2>1, <3>1, <3>4, <3>5, <3>6 DEF IInv
  <2>6. CASE rows # {}
    <3> DEFINE batch == FirstRows(rows, Slice)
               last == LastRow(batch)
    <3>1. /\ postings' = postings \cup {r \in batch : r[2] \in termDocs}
          /\ cursor' = last /\ place' = last /\ rows' = rows \ batch
          /\ UNCHANGED <<pc, objects, covered, valid, tokenizer, documents, termDocs>>
      BY <1>3, <2>6 DEF BuildPostings
    <3>2. /\ batch \subseteq rows /\ batch # {}
          /\ \A a \in batch, b \in rows : Before(b, a) => b \in batch
      BY <2>3, <2>6, FirstRowsIsPrefix, ConstantsAssumption
    <3>3. last \in batch /\ \A o \in batch : o = last \/ Before(o, last)
      <4> HIDE DEF batch
      <4>1. batch \in SUBSET Row
        BY <2>3, <3>2
      <4> QED BY <3>2, <4>1, LastRowIsMax
    <3> HIDE DEF batch, last
    <3>4. /\ last \in rows /\ last \in Row /\ last \in Cursor
          /\ Before(place, last) /\ last # Origin
      BY <2>2, <2>3, <3>2, <3>3, BeforeIsStrictOrder
    <3>5. UNCHANGED <<Live, LiveThrough(covered), all>>
      BY <1>1, <3>1 DEF Live, LiveThrough, Entries, EntriesIn, Row
    <3> HIDE DEF all
    <3>6. \A r \in rows : (r = last \/ Before(r, last)) <=> r \in batch
      BY <3>2, <3>3
    <3>7. \A r \in rows : r \notin batch <=> Before(last, r)
      BY <2>3, <3>4, <3>6, BeforeIsStrictOrder
    <3>8. postings' = {r \in all : r = last \/ Before(r, last)}
      <4>1. ASSUME NEW r \in postings' PROVE r \in all /\ (r = last \/ Before(r, last))
        <5>1. CASE r \in postings
          <6>1. r \in all /\ (r = place \/ Before(r, place))
            BY <2>2, <5>1
          <6> QED BY <2>3, <3>4, <6>1, BeforeIsStrictOrder
        <5>2. CASE r \in batch /\ r[2] \in termDocs
          BY <2>2, <2>4, <3>2, <3>6, <5>2
        <5> QED BY <3>1, <5>1, <5>2
      <4>2. ASSUME NEW r \in all, r = last \/ Before(r, last) PROVE r \in postings'
        <5>1. CASE r = place \/ Before(r, place)
          BY <2>2, <3>1, <5>1
        <5>2. CASE Before(place, r)
          <6>1. r \in rows /\ r[2] \in termDocs
            BY <2>2, <2>4, <5>2
          <6> QED BY <3>1, <3>6, <4>2, <6>1
        <5> QED BY <2>3, <5>1, <5>2, BeforeIsStrictOrder
      <4> QED BY <4>1, <4>2
    <3>9. TypeOK'
      <4>1. postings' \subseteq Row /\ rows' \subseteq Row
        BY <2>3, <3>1, <3>8
      <4>2. cursor' \in Cursor /\ place' \in Cursor
        BY <3>1, <3>4
      <4> QED BY <1>1, <2>1, <3>1, <4>1, <4>2 DEF TypeOK
    <3>10. DocumentsLive'
      BY <2>1, <3>1, <3>5 DEF DocumentsLive
    <3>11. PartialExact'
      <4>1. \A d \in termDocs, s \in Live : s <= d => s \in termDocs
        BY <2>1 DEF PartialExact
      <4>2. all' = Entries(tokenizer, termDocs)'
        BY DEF all
      <4> QED BY <2>2, <3>1, <3>5, <3>8, <4>1, <4>2 DEF PartialExact
    <3>12. BuilderReads'
      <4>1. {r \in rows' : r[2] \in Live'} = {r \in all' : Before(place', r)}
        <5>1. ASSUME NEW r \in rows', r[2] \in Live PROVE r \in all /\ Before(last, r)
          BY <2>2, <3>1, <3>7, <5>1
        <5>2. ASSUME NEW r \in all, Before(last, r) PROVE r \in rows' /\ r[2] \in Live
          <6>1. Before(place, r)
            BY <2>3, <3>4, <5>2, BeforeIsStrictOrder
          <6> QED BY <2>2, <3>1, <3>7, <5>2, <6>1
        <5> QED BY <3>1, <3>5, <5>1, <5>2
      <4>2. \A r \in rows' : Before(place', r) /\ r[2] <= covered'
        BY <2>2, <3>1, <3>7
      <4>3. all' = Entries(tokenizer, LiveThrough(covered))' /\ termDocs' = LiveThrough(covered)'
        BY <2>2, <3>1, <3>5 DEF all
      <4>4. through' = covered' /\ tokenizer' = TokOf[builder'] /\ place' = cursor'
        BY <1>1, <2>1, <3>1 DEF BuilderReads
      <4> QED BY <1>1, <3>1, <4>1, <4>2, <4>3, <4>4 DEF BuilderReads
    <3>13. CompleteExact' /\ CatchUpOwns'
      BY <2>1, <3>1 DEF CompleteExact, CatchUpOwns
    <3> QED BY <1>1, <2>1, <3>1, <3>9, <3>10, <3>11, <3>12, <3>13 DEF IInv
  <2> QED BY <2>5, <2>6
<1> QED BY <1>2, <1>3

\* A chunk of the catch-up indexes the live capsules of the chunk and covers its last row.
LEMMA CatchUpStep ==
  ASSUME IInv, NEW p \in Process, CatchUp(p)
  PROVE  IInv'
<1>1. builder = p /\ pc = "catchup" /\ p # NoProcess /\ UNCHANGED store
  BY ConstantsAssumption DEF CatchUp
<1>2. CASE ~(objects /\ valid = 1 /\ tokenizer = TokOf[p] /\ CatchUpChunk # {})
  BY <1>1, <1>2, ReleaseStep DEF CatchUp
<1>3. CASE objects /\ valid = 1 /\ tokenizer = TokOf[p] /\ CatchUpChunk # {}
  <2> DEFINE todo == {s \in Present : s > covered}
             chunk == FirstSeqs(todo, Chunk)
             new == chunk \cap Live
  <2>1. /\ termDocs' = termDocs \cup new
        /\ documents' = documents + Cardinality(new)
        /\ postings' = postings \cup Entries(tokenizer, new)
        /\ covered' = Newest(chunk)
        /\ UNCHANGED <<text, lastHandle, objects, valid, cursor, tokenizer, builder,
                       pc, through, place, lengths, rows>>
    BY <1>3 DEF CatchUp, CatchUpChunk, IndexDocuments, AddDocuments, Entries, store, locals
  <2>2. /\ termDocs = LiveThrough(covered) /\ postings = Entries(tokenizer, termDocs)
        /\ TypeOK /\ documents = Cardinality(termDocs)
    BY <1>3 DEF IInv, CompleteExact
  <2>3. /\ chunk \subseteq todo /\ chunk # {}
        /\ \A a \in chunk, b \in todo : b <= a => b \in chunk
        /\ chunk \in SUBSET Seqs
    <3>1. todo \in SUBSET Seqs
      BY DEF Present
    <3> HIDE DEF todo
    <3>2. chunk \subseteq todo /\ \A a \in chunk, b \in todo : b <= a => b \in chunk
      BY <3>1, FirstSeqsIsPrefix, ConstantsAssumption
    <3>3. chunk # {}
      BY <1>3 DEF CatchUpChunk, todo
    <3> QED BY <3>1, <3>2, <3>3
  <2>4. Newest(chunk) \in chunk /\ \A s \in chunk : s <= Newest(chunk)
    <3> HIDE DEF chunk
    <3> QED BY <2>3, NewestIsMax
  <2>5. covered \in Nat /\ \A s \in chunk : s \in Nat /\ s > covered
    BY <2>2, <2>3, SeqsFinite DEF TypeOK
  <2> HIDE DEF chunk
  <2>6. new \cap termDocs = {}
    <3>1. \A s \in chunk : ~(s <= covered)
      BY <2>5
    <3> QED BY <2>2, <3>1 DEF LiveThrough
  <2>7. termDocs' = LiveThrough(covered)'
    <3>1. Live' = Live
      BY <2>1 DEF Live
    <3>2. ASSUME NEW s \in Live PROVE s <= Newest(chunk) <=> s \in LiveThrough(covered) \/ s \in chunk
      <4>1. s \in Nat /\ s \in Present
        BY SeqsFinite, ConstantsAssumption DEF Live, Present
      <4>2. Newest(chunk) \in Nat /\ Newest(chunk) > covered
        BY <2>4, <2>5
      <4>3. s <= covered => s <= Newest(chunk)
        BY <2>5, <4>1, <4>2
      <4>4. s <= covered \/ s \in todo
        BY <2>5, <4>1
      <4>5. s <= Newest(chunk) => s <= covered \/ s \in chunk
        BY <2>3, <2>4, <4>4
      <4> QED BY <2>4, <4>3, <4>5 DEF LiveThrough
    <3>3. LiveThrough(covered) \subseteq Live
      BY DEF LiveThrough
    <3>4. LiveThrough(covered)' = LiveThrough(covered) \cup new
      BY <2>1, <3>1, <3>2, <3>3 DEF LiveThrough
    <3> QED BY <2>1, <2>2, <3>4
  <2>8. Entries(tokenizer, termDocs)' = Entries(tokenizer, termDocs) \cup Entries(tokenizer, new)
    BY <2>1 DEF Entries, EntriesIn, Row
  <2>9. documents' = Cardinality(termDocs') /\ documents' \in Nat
    <3>1. IsFiniteSet(termDocs) /\ IsFiniteSet(new)
      BY <2>2, <2>3, SeqsFinite, FS_Subset DEF TypeOK
    <3>2. Cardinality(termDocs \cup new)
            = Cardinality(termDocs) + Cardinality(new) - Cardinality(termDocs \cap new)
      BY <3>1, FS_Union
    <3>3. termDocs \cap new = {} /\ Cardinality({}) = 0
      BY <2>6, FS_EmptySet
    <3>4. Cardinality(termDocs) \in Nat /\ Cardinality(new) \in Nat
      BY <3>1, FS_CardinalityType
    <3> HIDE DEF new
    <3>5. Cardinality(termDocs \cap new) = 0
      BY <3>3
    <3> QED BY <2>1, <2>2, <3>2, <3>4, <3>5
  <2>10. TypeOK'
    <3>1. termDocs' \subseteq Seqs
      BY <2>1, <2>2, <2>3 DEF TypeOK
    <3>2. postings' \subseteq Row
      BY <2>1, <2>2 DEF TypeOK, Entries, EntriesIn
    <3>3. covered' \in 0..MaxSeq
      BY <2>1, <2>3, NewestIsMax
    <3> QED BY <2>1, <2>2, <2>9, <3>1, <3>2, <3>3 DEF TypeOK
  <2>11. DocumentsLive' /\ CompleteExact'
    BY <2>1, <2>2, <2>7, <2>8 DEF DocumentsLive, CompleteExact
  <2>12. PartialExact' /\ BuilderReads' /\ CatchUpOwns'
    BY <1>1, <1>3, <2>1 DEF PartialExact, BuilderReads, CatchUpOwns
  <2> QED BY <1>1, <2>1, <2>9, <2>10, <2>11, <2>12 DEF IInv
<1> QED BY <1>2, <1>3

-----------------------------------------------------------------------------
(* The theorems.                                                           *)

\* Every step preserves the invariant.
LEMMA NextIInv == IInv /\ [Next]_vars => IInv'
<1> SUFFICES ASSUME IInv, [Next]_vars PROVE IInv'
  OBVIOUS
<1>1. CASE UNCHANGED vars
  <2>1. UNCHANGED <<text, lastHandle, objects, covered, valid, cursor, tokenizer,
                    documents, termDocs, postings, locals>>
    BY <1>1 DEF vars, store, index
  <2>2. /\ text' \in [Seqs -> Text \cup {Absent, Forgotten}]
        /\ lastHandle' \in 0..MaxSeq /\ valid' \in {0, valid}
    BY <2>1 DEF IInv, TypeOK
  <2> QED BY <2>1, <2>2, TextStep
<1>2. CASE \E p \in Process, x \in Text : Insert(p, x)
  BY <1>2, InsertStep
<1>3. CASE \E p \in Process, s \in Seqs : Forget(p, s)
  BY <1>3, ForgetStep
<1>4. CASE \E p \in Process : AddObjects(p)
  BY <1>4, AddObjectsStep
<1>5. CASE \E p \in Process : BuildOpen(p)
  BY <1>5, BuildOpenStep
<1>6. CASE \E p \in Process : BuildStep(p)
  BY <1>6, BuildResetStep, BuildReadStep, BuildLengthsStep, BuildPostingsStep,
     CatchUpStep DEF BuildStep
<1>7. CASE \E p \in Process : BuildCrash(p)
  BY <1>7, ReleaseStep DEF BuildCrash
<1>8. CASE Outside
  BY <1>8, OtherInsertStep, OtherUpdateStep, OtherMoveStep, OtherDeleteStep,
     OtherDropStep DEF Outside
<1> QED
  BY <1>1, <1>2, <1>3, <1>4, <1>5, <1>6, <1>7, <1>8 DEF Next

\* The inductive invariant holds in every reachable state, however the writers,
\* the builder, its death and statements from outside interleave.
THEOREM InvariantHolds == Spec => []IInv
BY InitIInv, NextIInv, PTL DEF Spec

\* Type correctness.
THEOREM TypeCorrect == Spec => []TypeOK
<1>1. IInv => TypeOK
  BY DEF IInv
<1> QED BY <1>1, InvariantHolds, PTL

\* With no capsule beyond what is covered, the live capsules are the covered ones.
LEMMA NothingNewer ==
  ASSUME IInv, NewestSeq <= covered
  PROVE  LiveThrough(covered) = Live
<1>1. \A s \in Live : s \in Present
  BY ConstantsAssumption DEF Live, Present
<1>2. \A s \in Present : s <= NewestSeq
  BY NewestIsMax DEF NewestSeq, Present
<1>3. NewestSeq \in Nat /\ covered \in Nat
  BY NewestIsMax DEF NewestSeq, Present, IInv, TypeOK
<1>4. \A s \in Live : s \in Nat
  BY SeqsFinite DEF Live
<1>5. \A s \in Live : s <= covered
  BY <1>1, <1>2, <1>3, <1>4
<1> QED BY <1>5 DEF LiveThrough

\* Whenever a process may answer from the index (term_index), it holds exactly
\* what a scan of every capsule would find.
THEOREM IndexIsExact == Spec => []IndexExact
<1>1. IInv => IndexExact
  <2> SUFFICES ASSUME IInv, NEW t \in Tokenizer, Usable(t)
               PROVE  /\ termDocs = Live
                      /\ postings = Entries(t, Live)
                      /\ documents = Cardinality(Live)
    BY DEF IndexExact
  <2>1. objects /\ valid = 1 /\ tokenizer = t /\ NewestSeq <= covered
    BY DEF Usable
  <2>2. LiveThrough(covered) = Live
    BY <2>1, NothingNewer
  <2> QED BY <2>1, <2>2 DEF IInv, CompleteExact
<1> QED BY <1>1, InvariantHolds, PTL

\* An index not marked invalid, finished or not, holds no posting of a text
\* that is gone.
THEOREM NoPostingIsStale == Spec => []NoStalePosting
<1>1. IInv => NoStalePosting
  <2> SUFFICES ASSUME IInv, objects, valid # 0
               PROVE  postings \subseteq Entries(tokenizer, termDocs)
    BY DEF NoStalePosting
  <2>1. valid = 1 \/ valid = 2
    BY DEF IInv, TypeOK
  <2> QED BY <2>1 DEF IInv, CompleteExact, PartialExact
<1> QED BY <1>1, InvariantHolds, PTL

\* No transaction of an append, a build or a catch-up inserts a key that its
\* table already holds.
THEOREM KeysNeverConflict == Spec => []NoKeyConflict
<1>1. ASSUME IInv, NEW p \in Process, builder = p, pc = "postings", Building(p)
      PROVE  rows \cap postings = {}
  <2>1. /\ objects /\ valid = 2 /\ cursor = place /\ builder # NoProcess /\ TypeOK
        /\ PartialExact /\ BuilderReads
    BY <1>1, ConstantsAssumption DEF Building, IInv
  <2>2. \A r \in rows : Before(place, r) /\ r \in Cursor
    BY <1>1, <2>1 DEF BuilderReads, TypeOK, Cursor
  <2>3. \A r \in postings : r = place \/ Before(r, place)
    BY <2>1 DEF PartialExact
  <2>4. place \in Cursor
    BY <2>1 DEF TypeOK
  <2> QED BY <2>2, <2>3, <2>4, BeforeIsStrictOrder
<1>2. ASSUME IInv, objects, valid = 1, NEW s \in Seqs, s > covered
      PROVE  s \notin termDocs /\ \A w \in Word : <<w, s>> \notin postings
  <2>1. s \in Nat /\ covered \in Nat
    BY <1>2, SeqsFinite DEF IInv, TypeOK
  <2>2. s \notin termDocs
    BY <1>2, <2>1 DEF IInv, CompleteExact, LiveThrough
  <2> QED BY <1>2, <2>2 DEF IInv, CompleteExact, Entries, EntriesIn
<1>3. IInv => NoKeyConflict
  BY <1>1, <1>2 DEF NoKeyConflict
<1> QED BY <1>3, InvariantHolds, PTL

\* A builder that leaves by itself leaves an index that it can answer from,
\* unless somebody else has made it invalid or dropped it.
THEOREM BuilderLeavesUsable == Spec => BuildLeavesUsable
<1>1. ASSUME IInv, NEW p \in Process, CatchUp(p), builder' = NoProcess
      PROVE  Usable(TokOf[p]) \/ ~objects \/ valid = 0
  <2> SUFFICES ASSUME objects, valid # 0 PROVE Usable(TokOf[p])
    OBVIOUS
  <2>1. builder = p /\ p # NoProcess /\ pc = "catchup"
    BY <1>1, ConstantsAssumption DEF CatchUp
  <2>2. valid = 1 /\ tokenizer = TokOf[p]
    BY <1>1, <2>1 DEF IInv, TypeOK, BuilderReads, CatchUpOwns
  <2>3. CatchUpChunk = {}
    BY <1>1, <2>1, <2>2 DEF CatchUp, locals
  <2>4. {s \in Present : s > covered} = {}
    <3> DEFINE todo == {s \in Present : s > covered}
    <3>1. todo \in SUBSET Seqs
      BY DEF Present
    <3> HIDE DEF todo
    <3>2. todo # {} => FirstSeqs(todo, Chunk) # {}
      BY <3>1, FirstSeqsIsPrefix, ConstantsAssumption
    <3> QED BY <2>3, <3>2 DEF CatchUpChunk, todo
  <2>5. NewestSeq <= covered
    <3>1. NewestSeq \in 0..MaxSeq /\ (Present # {} => NewestSeq \in Present)
      BY NewestIsMax DEF NewestSeq, Present
    <3>2. covered \in Nat
      BY <1>1 DEF IInv, TypeOK
    <3>3. Present = {} => NewestSeq = 0
      BY DEF NewestSeq, Newest
    <3>4. NewestSeq \in Present => ~(NewestSeq > covered)
      BY <2>4
    <3> QED BY <3>1, <3>2, <3>3, <3>4
  <2> QED BY <2>2, <2>5 DEF Usable
<1>2. IInv /\ [Next]_vars =>
        [\A p \in Process : CatchUp(p) /\ builder' = NoProcess
           => Usable(TokOf[p]) \/ ~objects \/ valid = 0]_vars
  BY <1>1
<1> QED BY <1>2, InvariantHolds, PTL DEF Spec, BuildLeavesUsable

\* A builder starts over only what it cannot go on with, in every reachable state.
LEMMA ResetStep ==
  TypeOK /\ ResetIsOfAnother /\ [Next]_vars => ResetIsOfAnother'
<1> SUFFICES ASSUME TypeOK, ResetIsOfAnother, [Next]_vars,
                    objects', valid' # 0, pc' = "reset"
             PROVE  tokenizer' # TokOf[builder']
  BY DEF ResetIsOfAnother
<1>1. CASE UNCHANGED vars
  BY <1>1 DEF ResetIsOfAnother, vars, index, locals
<1>2. ASSUME NEW p \in Process, NEW x \in Text, Insert(p, x)
      PROVE  tokenizer' # TokOf[builder']
  BY <1>2 DEF Insert, Triggered, ResetIsOfAnother, locals
<1>3. ASSUME NEW p \in Process, NEW s \in Seqs, Forget(p, s)
      PROVE  tokenizer' # TokOf[builder']
  BY <1>3 DEF Forget, Triggered, ResetIsOfAnother, locals
<1>4. ASSUME NEW p \in Process, AddObjects(p)
      PROVE  tokenizer' # TokOf[builder']
  BY <1>4 DEF AddObjects, Reset
<1>5. ASSUME NEW p \in Process, BuildOpen(p)
      PROVE  tokenizer' # TokOf[builder']
  BY <1>5 DEF BuildOpen, index, TypeOK
<1>6. ASSUME NEW p \in Process, BuildStep(p)
      PROVE  tokenizer' # TokOf[builder']
  BY <1>6 DEF BuildStep, BuildReset, BuildRead, BuildLengths, BuildPostings, CatchUp,
     Release, locals
<1>7. ASSUME NEW p \in Process, BuildCrash(p)
      PROVE  tokenizer' # TokOf[builder']
  BY <1>7 DEF BuildCrash, Release
<1>8. CASE Outside
  BY <1>8 DEF Outside, OtherInsert, OtherUpdate, OtherMove, OtherDelete, OtherDrop,
     Triggered, ResetIsOfAnother, locals
<1> QED
  BY <1>1, <1>2, <1>3, <1>4, <1>5, <1>6, <1>7, <1>8 DEF Next

\* A slice that a build writes lies behind its cursor's place in the key order.
LEMMA PostingsMoveOn ==
  ASSUME IInv, NEW p \in Process, builder = p, pc = "postings", Building(p), rows # {}
  PROVE  Before(cursor, LastRow(FirstRows(rows, Slice)))
<1>1. rows \in SUBSET Row /\ builder # NoProcess
  BY ConstantsAssumption DEF IInv, TypeOK
<1>2. FirstRows(rows, Slice) # {} /\ FirstRows(rows, Slice) \subseteq rows
  BY <1>1, FirstRowsIsPrefix, ConstantsAssumption
<1>3. LastRow(FirstRows(rows, Slice)) \in rows
  BY <1>1, <1>2, LastRowIsMax
<1> QED BY <1>1, <1>3 DEF Building, IInv, BuilderReads

\* What a build has written is never written over by another build of the same
\* tokenizer, whoever dies and whoever goes on.
THEOREM BuildProgressKept == Spec => BuildKeepsProgress
<1> DEFINE Kept ==
      objects /\ valid = 2 /\ valid' = 2 /\ tokenizer' = tokenizer =>
        /\ cursor' = cursor \/ Before(cursor, cursor')
        /\ \A s \in termDocs \ termDocs' : text'[s] = Forgotten
<1>1. ASSUME IInv, ResetIsOfAnother, Next, objects, valid = 2, valid' = 2,
             tokenizer' = tokenizer
      PROVE  /\ cursor' = cursor \/ Before(cursor, cursor')
             /\ \A s \in termDocs \ termDocs' : text'[s] = Forgotten
  <2> DEFINE Goal == /\ cursor' = cursor \/ Before(cursor, cursor')
                     /\ \A s \in termDocs \ termDocs' : text'[s] = Forgotten
  <2>1. ASSUME NEW p \in Process, NEW x \in Text, Insert(p, x) PROVE Goal
    BY <2>1 DEF Insert, IndexDocuments, AddDocuments
  <2>2. ASSUME NEW p \in Process, NEW s \in Seqs, Forget(p, s) PROVE Goal
    <3>1. text \in [Seqs -> Text \cup {Absent, Forgotten}]
      BY <1>1 DEF IInv, TypeOK
    <3> QED BY <2>2, <3>1 DEF Forget
  <2>3. ASSUME NEW p \in Process, AddObjects(p) PROVE Goal
    BY <1>1, <2>3 DEF AddObjects
  <2>4. ASSUME NEW p \in Process, BuildOpen(p) \/ BuildRead(p) \/ BuildCrash(p) PROVE Goal
    BY <2>4 DEF BuildOpen, BuildRead, BuildCrash, index
  <2>5. ASSUME NEW p \in Process, BuildReset(p) PROVE FALSE
    BY <1>1, <2>5 DEF BuildReset, Reset, ResetIsOfAnother
  <2>6. ASSUME NEW p \in Process, BuildLengths(p) PROVE Goal
    BY <2>6 DEF BuildLengths, AddDocuments, index
  <2>7. ASSUME NEW p \in Process, BuildPostings(p) PROVE Goal
    <3>1. /\ builder = p /\ pc = "postings" /\ termDocs' = termDocs
          /\ \/ cursor' = cursor
             \/ Building(p) /\ rows # {} /\ cursor' = LastRow(FirstRows(rows, Slice))
      <4>1. CASE ~Building(p)
        BY <1>1, <2>7, <4>1 DEF BuildPostings, index
      <4>2. CASE Building(p) /\ rows = {}
        <5>1. valid' = 1
          BY <2>7, <4>2 DEF BuildPostings
        <5> QED BY <1>1, <5>1
      <4>3. CASE Building(p) /\ rows # {}
        BY <2>7, <4>3 DEF BuildPostings
      <4> QED BY <4>1, <4>2, <4>3
    <3> QED BY <1>1, <3>1, PostingsMoveOn
  <2>8. ASSUME NEW p \in Process, CatchUp(p) PROVE Goal
    BY <1>1, <2>8 DEF CatchUp, index
  <2>9. CASE Outside
    BY <2>9 DEF Outside, OtherInsert, OtherUpdate, OtherMove, OtherDelete, OtherDrop
  <2> QED
    BY <1>1, <2>1, <2>2, <2>3, <2>4, <2>5, <2>6, <2>7, <2>8, <2>9 DEF Next, BuildStep
<1>2. IInv /\ ResetIsOfAnother /\ [Next]_vars => [Kept]_vars
  BY <1>1
<1>3. Init => ResetIsOfAnother
  BY DEF Init, ResetIsOfAnother
<1>4. IInv => TypeOK
  BY DEF IInv
<1> QED BY <1>2, <1>3, <1>4, ResetStep, InvariantHolds, PTL DEF Spec, BuildKeepsProgress
=============================================================================
