----------------------------- MODULE TermIndex -----------------------------
(***************************************************************************)
(* The term lane's inverted index of one nmemory store: how it is kept by  *)
(* the transactions that append and forget capsules, watched by SQLite     *)
(* triggers for every other statement, and built by the one opener that    *)
(* holds the "term-index" lock while the other processes read and write.   *)
(*                                                                         *)
(* src/nmemory/database.py and src/nmemory/repositories/capsules.py.       *)
(*                                                                         *)
(* A capsule is its sequence number; its content is a member of Text and   *)
(* the words a tokenizer finds in it are a constant.  Term frequencies and *)
(* the running token total are left out: the same statements write them    *)
(* with the posting and with the document count.  Every SQLite write       *)
(* transaction is one action.                                              *)
(***************************************************************************)
EXTENDS Integers, FiniteSets

CONSTANTS Process,      \* the processes that open the store for writing
          Tokenizer,    \* the tokenizer identities that builds may carry
          TokOf,        \* TokOf[p]: the TOKENIZER of the build p runs
          Text,         \* capsule contents
          Word,         \* words, numbered in SQLite's (code point) order
          Words,        \* Words[t][x]: the words tokenizer t finds in text x
          MaxSeq,       \* bound on capsule sequence numbers
          Slice,        \* TERM_INDEX_SLICE
          Chunk,        \* TERM_INDEX_CHUNK_SIZE
          Absent,       \* no capsule row with this sequence number
          Forgotten,    \* a tombstone: the row with canonical_json NULL
          NoProcess     \* nobody holds the term-index lock

ASSUME ConstantsAssumption ==
  /\ TokOf \in [Process -> Tokenizer]
  /\ Word \subseteq Nat \ {0}
  /\ Words \in [Tokenizer -> [Text -> SUBSET Word]]
  /\ MaxSeq \in Nat
  /\ Slice \in Nat \ {0}
  /\ Chunk \in Nat \ {0}
  /\ Absent \notin Text /\ Forgotten \notin Text /\ Absent # Forgotten
  /\ NoProcess \notin Process

ASSUME WordIsFinite == IsFiniteSet(Word)

VARIABLES text,        \* the capsules table: sequence number to content
          lastHandle,  \* the largest number in capsule_handles
          objects,     \* every table and trigger of the index is intact
          covered,     \* term_index_state.covered_seq
          valid,       \* term_index_state.valid
          cursor,      \* term_index_state.(cursor, cursor_seq)
          tokenizer,   \* term_index_state.tokenizer
          documents,   \* term_index_state.documents
          termDocs,    \* term_documents
          postings,    \* term_postings
          builder,     \* the process that holds the term-index lock
          pc,          \* where that process is in _add_term_index
          through,     \* its local: the snapshot's last sequence number
          place,       \* its local: the cursor it last wrote
          lengths,     \* its local: documents read, not yet written
          rows         \* its local: postings read, not yet written

store == <<text, lastHandle>>
index == <<objects, covered, valid, cursor, tokenizer, documents, termDocs,
           postings>>
locals == <<builder, pc, through, place, lengths, rows>>
vars == <<store, index, locals>>

Seqs == 1..MaxSeq
Row == Word \X Seqs
Origin == <<0, 0>>
Cursor == {Origin} \cup Row

\* The order of the primary key of term_postings: word, then sequence number.
Before(a, b) == a[1] < b[1] \/ (a[1] = b[1] /\ a[2] < b[2])

Present == {s \in Seqs : text[s] # Absent}
Live == {s \in Seqs : text[s] \in Text}
LiveThrough(n) == {s \in Live : s <= n}

\* The postings that tokenizer t finds in those documents of S that have text.
EntriesIn(contents, t, S) ==
  {r \in Row : /\ r[2] \in S
               /\ contents[r[2]] \in Text
               /\ r[1] \in Words[t][contents[r[2]]]}

Entries(t, S) == EntriesIn(text, t, S)

\* The largest member of a set of sequence numbers, 0 for the empty set.
Newest(S) ==
  IF S = {} THEN 0 ELSE CHOOSE s \in S : \A other \in S : other <= s

NewestSeq == Newest(Present)

\* The first n members of a set of sequence numbers.
FirstSeqs(S, n) == {s \in S : Cardinality({o \in S : o < s}) < n}

\* The first n members of a set of postings, in the order of the key.
FirstRows(S, n) == {r \in S : Cardinality({o \in S : Before(o, r)}) < n}

LastRow(S) == CHOOSE r \in S : \A o \in S : o = r \/ Before(o, r)

\* term_index: a process of tokenizer t may answer a query from the index.
Usable(t) ==
  /\ objects
  /\ valid = 1
  /\ tokenizer = t
  /\ NewestSeq <= covered

-----------------------------------------------------------------------------
\* A store of this build, or a store of any content written before the index.
Init ==
  /\ text \in [Seqs -> Text \cup {Absent, Forgotten}]
  /\ lastHandle = NewestSeq
  /\ tokenizer \in Tokenizer
  /\ \/ Present = {} /\ objects = TRUE /\ valid = 1
     \/ objects = FALSE /\ valid = 0
  /\ covered = 0
  /\ cursor = Origin
  /\ documents = 0
  /\ termDocs = {}
  /\ postings = {}
  /\ builder = NoProcess
  /\ pc = "idle"
  /\ through = 0
  /\ place = Origin
  /\ lengths = {}
  /\ rows = {}

-----------------------------------------------------------------------------
(* The statements that the helpers of the index run.                       *)

\* _reset_term_index: every object dropped and created, empty.
Reset(p, newCovered, newValid) ==
  /\ objects' = TRUE
  /\ covered' = newCovered
  /\ valid' = newValid
  /\ cursor' = Origin
  /\ tokenizer' = TokOf[p]
  /\ documents' = 0
  /\ termDocs' = {}
  /\ postings' = {}

\* _add_term_documents
AddDocuments(S) ==
  /\ termDocs' = termDocs \cup S
  /\ documents' = documents + Cardinality(S)

\* index_term_documents
IndexDocuments(contents, t, S) ==
  /\ AddDocuments(S)
  /\ postings' = postings \cup EntriesIn(contents, t, S)

\* The triggers: a statement that they watch makes an intact index invalid.
Triggered(watched) ==
  valid' = IF objects /\ watched THEN 0 ELSE valid

\* Seeded fault: the last covered sequence number is left unwatched.
InsertWatchedBelow(s, x) == x \in Text /\ s < covered

InsertWatched(s, x) == x \in Text /\ s <= covered
UpdateWatched(s, x) == x # text[s] /\ (x \in Text \/ s \in termDocs)
\* Seeded fault: the update trigger asks of a move what the delete trigger asks.
MoveWatchedAsDelete(s) == s \in termDocs

MoveWatched(s) == text[s] \in Text \/ s \in termDocs
DeleteWatched(s) == s \in termDocs

-----------------------------------------------------------------------------
(* The transactions of the processes that have the store open.             *)

\* CapsuleRepository.insert: the capsule takes the number after the newest
\* capsule and handle.  The index takes it only if it covers every older one.
Insert(p, x) ==
  LET n == (IF NewestSeq < lastHandle THEN lastHandle ELSE NewestSeq) + 1 IN
  /\ n <= MaxSeq
  /\ text' = [text EXCEPT ![n] = x]
  /\ lastHandle' = n
  /\ Triggered(InsertWatched(n, x))
  /\ IF Usable(TokOf[p])
     THEN IndexDocuments(text', TokOf[p], {n}) /\ covered' = n
     ELSE UNCHANGED <<termDocs, documents, postings, covered>>
  /\ UNCHANGED <<objects, cursor, tokenizer, locals>>

\* Seeded faults: the edit of an index of another tokenizer, and of a capsule
\* whose document is not written yet.
UnindexedAnyTokenizer(p, s) == objects /\ valid # 0 /\ s \in termDocs

UnindexedUnwritten(p, s) == objects /\ valid # 0 /\ tokenizer = TokOf[p]

\* The rows that unindex_term_document removes before the text goes.
Unindexed(p, s) ==
  objects /\ valid # 0 /\ tokenizer = TokOf[p] /\ s \in termDocs

\* CapsuleRepository.forget_capsule, the part that touches the index: the
\* index drops the capsule, then the update trigger sees the text go.
Forget(p, s) ==
  /\ text[s] \in Text
  /\ text' = [text EXCEPT ![s] = Forgotten]
  /\ IF Unindexed(p, s)
     THEN /\ postings' = postings \ Entries(TokOf[p], {s})
          /\ termDocs' = termDocs \ {s}
          /\ documents' = documents - 1
          /\ valid' = valid
     ELSE /\ UNCHANGED <<postings, termDocs, documents>>
          /\ Triggered(tokenizer # TokOf[p] \/ UpdateWatched(s, Forgotten))
  /\ UNCHANGED <<lastHandle, objects, covered, cursor, tokenizer, locals>>

-----------------------------------------------------------------------------
(* Statements from outside: a build from before the index, or a person with *)
(* the sqlite3 shell.  Only the triggers see them.                          *)

OtherInsert(s, x) ==
  /\ text[s] = Absent
  /\ text' = [text EXCEPT ![s] = x]
  /\ Triggered(InsertWatched(s, x))
  /\ UNCHANGED <<lastHandle, objects, covered, cursor, tokenizer, documents,
                 termDocs, postings, locals>>

OtherUpdate(s, x) ==
  /\ text[s] \notin {Absent, x}
  /\ text' = [text EXCEPT ![s] = x]
  /\ Triggered(UpdateWatched(s, x))
  /\ UNCHANGED <<lastHandle, objects, covered, cursor, tokenizer, documents,
                 termDocs, postings, locals>>

OtherMove(s, other) ==
  /\ text[s] # Absent
  /\ text[other] = Absent
  /\ text' = [text EXCEPT ![s] = Absent, ![other] = text[s]]
  /\ Triggered(MoveWatched(s))
  /\ UNCHANGED <<lastHandle, objects, covered, cursor, tokenizer, documents,
                 termDocs, postings, locals>>

OtherDelete(s) ==
  /\ text[s] # Absent
  /\ text' = [text EXCEPT ![s] = Absent]
  /\ Triggered(DeleteWatched(s))
  /\ UNCHANGED <<lastHandle, objects, covered, cursor, tokenizer, documents,
                 termDocs, postings, locals>>

\* Someone drops an object of the index.
OtherDrop ==
  /\ objects
  /\ objects' = FALSE
  /\ UNCHANGED <<store, covered, valid, cursor, tokenizer, documents, termDocs,
                 postings, locals>>

-----------------------------------------------------------------------------
(* The writable open: the objects first, then one builder per store.       *)

\* _add_term_index_objects
AddObjects(p) ==
  /\ ~objects
  /\ Reset(p, 0, 0)
  /\ UNCHANGED <<store, locals>>

\* Seeded fault: a build that finds another's unfinished index starts again.
BuildOpenRestarts(p) ==
  /\ builder = NoProcess
  /\ builder' = p
  /\ pc' = IF objects /\ tokenizer = TokOf[p] /\ valid = 1 THEN "catchup" ELSE "reset"
  /\ UNCHANGED <<store, index, through, place, lengths, rows>>

\* _elect("term-index"), then the first decision of _build_term_index.
BuildOpen(p) ==
  /\ builder = NoProcess
  /\ builder' = p
  /\ LET mine == objects /\ tokenizer = TokOf[p] IN
     \/ /\ mine /\ valid = 1
        /\ pc' = "catchup"
        /\ UNCHANGED <<through, place>>
     \/ /\ mine /\ valid = 2
        /\ pc' = "read"
        /\ through' = covered
        /\ place' = cursor
     \/ /\ ~(mine /\ valid \in {1, 2})
        /\ pc' = "reset"
        /\ UNCHANGED <<through, place>>
  /\ UNCHANGED <<store, index, lengths, rows>>

\* The first build transaction: empty objects, watched from now on.
BuildReset(p) ==
  /\ builder = p /\ pc = "reset"
  /\ Reset(p, NewestSeq, 2)
  /\ through' = NewestSeq
  /\ place' = Origin
  /\ pc' = "read"
  /\ UNCHANGED <<store, builder, lengths, rows>>

\* Seeded fault: a resumed build reads the postings it has already written.
BuildReadAll(p) ==
  /\ builder = p /\ pc = "read"
  /\ lengths' = LiveThrough(through)
  /\ rows' = Entries(TokOf[p], LiveThrough(through))
  /\ pc' = "lengths"
  /\ UNCHANGED <<store, index, builder, through, place>>

\* One snapshot of the texts, read and tokenized outside the write lock.
BuildRead(p) ==
  /\ builder = p /\ pc = "read"
  /\ lengths' = LiveThrough(through)
  /\ rows' = {r \in Entries(TokOf[p], LiveThrough(through)) : Before(place, r)}
  /\ pc' = "lengths"
  /\ UNCHANGED <<store, index, builder, through, place>>

\* _building: the build still owns the state, at the cursor it last wrote.
Building(p) ==
  objects /\ valid = 2 /\ tokenizer = TokOf[p] /\ cursor = place

\* A slice of document lengths; a batch of only forgotten capsules is dropped.
LengthsBatch == FirstSeqs({s \in lengths : s > Newest(termDocs)}, Slice)

\* Seeded fault: a batch of only forgotten capsules is read again.
LeftLengthsAll(batch) == lengths

LeftLengths(batch) ==
  IF batch \cap Live = {} THEN {s \in lengths : s > Newest(batch)} ELSE lengths

BuildLengths(p) ==
  /\ builder = p /\ pc = "lengths"
  /\ LET batch == LengthsBatch IN
     \/ /\ ~Building(p)
        /\ pc' = "catchup"
        /\ UNCHANGED <<index, lengths>>
     \/ /\ Building(p) /\ batch = {}
        /\ pc' = "postings"
        /\ UNCHANGED <<index, lengths>>
     \/ /\ Building(p) /\ batch # {}
        /\ AddDocuments(batch \cap Live)
        /\ lengths' = LeftLengths(batch)
        /\ UNCHANGED <<pc, objects, covered, valid, cursor, tokenizer, postings>>
  /\ UNCHANGED <<store, builder, through, place, rows>>

\* A slice of postings in word order; the last transaction marks the index
\* valid.
BuildPostings(p) ==
  /\ builder = p /\ pc = "postings"
  /\ LET batch == FirstRows(rows, Slice) IN
     \/ /\ ~Building(p)
        /\ pc' = "catchup"
        /\ UNCHANGED <<index, place, rows>>
     \/ /\ Building(p) /\ rows = {}
        /\ valid' = 1
        /\ cursor' = Origin
        /\ pc' = "catchup"
        /\ UNCHANGED <<objects, covered, tokenizer, documents, termDocs,
                       postings, place, rows>>
     \/ /\ Building(p) /\ rows # {}
        /\ postings' = postings \cup {r \in batch : r[2] \in termDocs}
        /\ cursor' = LastRow(batch)
        /\ place' = LastRow(batch)
        /\ rows' = rows \ batch
        /\ UNCHANGED <<pc, objects, covered, valid, tokenizer, documents,
                       termDocs>>
  /\ UNCHANGED <<store, builder, through, lengths>>

\* The builder leaves _add_term_index, or its process dies: the kernel frees
\* the lock, and what it had read is gone.
Release ==
  /\ builder' = NoProcess
  /\ pc' = "idle"
  /\ through' = 0
  /\ place' = Origin
  /\ lengths' = {}
  /\ rows' = {}

\* Seeded fault: the catch-up does not step over tombstones.
CatchUpChunkLive == FirstSeqs({s \in Live : s > covered}, Chunk)

\* The capsules that the index has not covered, one chunk of them.
CatchUpChunk == FirstSeqs({s \in Present : s > covered}, Chunk)

\* The loop of _add_term_index.
CatchUp(p) ==
  /\ builder = p /\ pc = "catchup"
  /\ \/ /\ ~(objects /\ valid = 1 /\ tokenizer = TokOf[p] /\ CatchUpChunk # {})
        /\ Release
        /\ UNCHANGED index
     \/ /\ objects /\ valid = 1 /\ tokenizer = TokOf[p] /\ CatchUpChunk # {}
        /\ IndexDocuments(text, TokOf[p], CatchUpChunk \cap Live)
        /\ covered' = Newest(CatchUpChunk)
        /\ UNCHANGED <<objects, valid, cursor, tokenizer, locals>>
  /\ UNCHANGED store

BuildCrash(p) ==
  /\ builder = p
  /\ Release
  /\ UNCHANGED <<store, index>>

-----------------------------------------------------------------------------
BuildStep(p) ==
  BuildReset(p) \/ BuildRead(p) \/ BuildLengths(p) \/ BuildPostings(p) \/ CatchUp(p)

Outside ==
  \/ \E s \in Seqs, x \in Text \cup {Forgotten} : OtherInsert(s, x) \/ OtherUpdate(s, x)
  \/ \E s, other \in Seqs : OtherMove(s, other)
  \/ \E s \in Seqs : OtherDelete(s)
  \/ OtherDrop

Next ==
  \/ \E p \in Process :
       \/ \E x \in Text : Insert(p, x)
       \/ \E s \in Seqs : Forget(p, s)
       \/ AddObjects(p)
       \/ BuildOpen(p)
       \/ BuildStep(p)
       \/ BuildCrash(p)
  \/ Outside

Spec == Init /\ [][Next]_vars

\* A process that is building keeps running until it leaves or dies.
FairSpec == Spec /\ \A p \in Process : WF_vars(BuildStep(p))

-----------------------------------------------------------------------------
(* What the index promises.                                                *)

TypeOK ==
  /\ text \in [Seqs -> Text \cup {Absent, Forgotten}]
  /\ lastHandle \in 0..MaxSeq
  /\ objects \in BOOLEAN
  /\ covered \in 0..MaxSeq
  /\ valid \in 0..2
  /\ cursor \in Cursor
  /\ tokenizer \in Tokenizer
  /\ documents \in Nat
  /\ termDocs \subseteq Seqs
  /\ postings \subseteq Row
  /\ builder \in Process \cup {NoProcess}
  /\ pc \in {"idle", "reset", "read", "lengths", "postings", "catchup"}
  /\ through \in 0..MaxSeq
  /\ place \in Cursor
  /\ lengths \subseteq Seqs
  /\ rows \subseteq Row

\* Whenever a process may answer from the index, the index holds exactly what
\* a scan of every capsule would find: each live capsule once, each of its
\* words, and their number.
IndexExact ==
  \A t \in Tokenizer : Usable(t) =>
    /\ termDocs = Live
    /\ postings = Entries(t, Live)
    /\ documents = Cardinality(Live)

\* An index not marked invalid holds no posting of a text that is gone: not of
\* a forgotten capsule, not of one that was changed, moved or deleted, and also
\* not while a build has written only a part of it.
NoStalePosting ==
  objects /\ valid # 0 => postings \subseteq Entries(tokenizer, termDocs)

\* No transaction of an append, a build or a catch-up inserts a key that its
\* table already holds, which would abort the append or the open of the store.
NoKeyConflict ==
  /\ \A p \in Process :
       builder = p /\ pc = "postings" /\ Building(p) => rows \cap postings = {}
  /\ objects /\ valid = 1 =>
       \A s \in Seqs : s > covered =>
         s \notin termDocs /\ \A w \in Word : <<w, s>> \notin postings

\* A builder that leaves by itself, not by dying, leaves an index its own build
\* can answer from, unless somebody else has made it invalid or dropped it.
BuildLeavesUsable ==
  [][\A p \in Process :
       CatchUp(p) /\ builder' = NoProcess => Usable(TokOf[p]) \/ ~objects \/ valid = 0]_vars

\* What a build has written is never written over by another build: as long as
\* the index stays an unfinished one of the same tokenizer, its cursor moves
\* only forward and only the capsules that were forgotten leave it, whoever
\* dies and whoever goes on.
BuildKeepsProgress ==
  [][ objects /\ valid = 2 /\ valid' = 2 /\ tokenizer' = tokenizer =>
        /\ cursor' = cursor \/ Before(cursor, cursor')
        /\ \A s \in termDocs \ termDocs' : text'[s] = Forgotten ]_vars

\* Every build ends, whatever the other processes do meanwhile.
BuildEnds == \A p \in Process : builder = p ~> builder # p

-----------------------------------------------------------------------------
(* Why it does: an inductive invariant.                                    *)

\* An intact index not marked invalid knows only live capsules it covers.
DocumentsLive == objects /\ valid # 0 => termDocs \subseteq LiveThrough(covered)

\* A complete index is exact through covered.
CompleteExact ==
  objects /\ valid = 1 =>
    /\ termDocs = LiveThrough(covered)
    /\ postings = Entries(tokenizer, termDocs)

\* An unfinished one holds the postings up to its cursor, its documents are a
\* prefix of the live ones, and once it has a posting it has every document.
PartialExact ==
  objects /\ valid = 2 =>
    /\ postings = {r \in Entries(tokenizer, termDocs) : r = cursor \/ Before(r, cursor)}
    /\ \A d \in termDocs, s \in Live : s <= d => s \in termDocs
    /\ cursor # Origin => termDocs = LiveThrough(covered)

\* The builder's locals are those of the unfinished index, and what it has read
\* holds what the index still lacks.
BuilderReads ==
  objects /\ valid = 2 /\ builder # NoProcess =>
    /\ pc # "catchup"
    /\ pc \in {"read", "lengths", "postings"} =>
         tokenizer = TokOf[builder] /\ through = covered /\ place = cursor
    /\ pc \in {"lengths", "postings"} =>
         {r \in rows : r[2] \in Live}
           = {r \in Entries(tokenizer, LiveThrough(covered)) : Before(place, r)}
    /\ pc \in {"lengths", "postings"} =>
         \A r \in rows : Before(place, r) /\ r[2] <= covered
    /\ pc = "lengths" =>
         /\ LiveThrough(covered) \subseteq lengths \cup termDocs
         /\ \A s \in lengths : s <= covered
    /\ pc = "postings" => termDocs = LiveThrough(covered)

\* Nobody completes the index under a builder, and the builder that comes to the
\* catch-up of a complete one has its tokenizer.
CatchUpOwns ==
  objects /\ valid = 1 =>
    /\ pc \notin {"read", "lengths", "postings"}
    /\ pc = "catchup" => tokenizer = TokOf[builder]

IInv ==
  /\ TypeOK
  /\ builder = NoProcess <=> pc = "idle"
  /\ documents = Cardinality(termDocs)
  /\ DocumentsLive
  /\ CompleteExact
  /\ PartialExact
  /\ BuilderReads
  /\ CatchUpOwns

\* A builder only starts over an intact index not marked invalid that is of
\* another tokenizer: one of its own it goes on with.
ResetIsOfAnother ==
  objects /\ valid # 0 /\ pc = "reset" => tokenizer # TokOf[builder]
=============================================================================
