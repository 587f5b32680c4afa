------------------------ MODULE WriteAdmissionProofs ------------------------
(***************************************************************************)
(* Proofs about WriteAdmission, for every set of processes, threads and    *)
(* connections: IInv is an inductive invariant, so no thread waits for its *)
(* own write or is refused by a claim that outlived its write, an admitted *)
(* writer waits in SQLite only for a COMMIT, and what rests holds nothing. *)
(***************************************************************************)
EXTENDS WriteAdmission, TLAPS

USE DEF admission, claim, Steps, Waits, Claims, NoClaim

\* The connection's descriptor holds the flock, taken over by its gate or not.
Holds(c) == gate[c] \/ wait[c] \in {"granted", "done"}

\* The flock has one holder; a gate holds it from the grant to the end of the write; an
\* answered wait is being read.
Admitted ==
  /\ \A c, e \in Conn : Holds(c) /\ Holds(e) => c = e
  /\ \A c \in Conn :
       /\ gate[c] => wait[c] = "none" /\ pc[c] \in {"sqlite", "record", "write", "end", "release", "close"}
       /\ pc[c] \in {"sqlite", "record", "write"} => gate[c]
       /\ wait[c] = "done" => pc[c] = "wait"
       /\ wait[c] # "none" /\ wanted[c] => pc[c] = "wait"

\* A transaction is open from BEGIN IMMEDIATE to COMMIT, and so is the depth above zero.
Transactions ==
  \A c \in Conn :
    /\ sql = c => pc[c] \in {"record", "write", "commit", "end", "collected"}
    /\ pc[c] \in {"record", "write", "commit"} => sql = c
    /\ pc[c] \notin {"record", "write", "commit", "end", "collected"} => depth[c] = 0
    /\ pc[c] = "record" => depth[c] = 1
    /\ pc[c] = "write" => depth[c] > 0

\* A claim names a connection that still has it or has queued its release, and an open
\* write has its claim.
ClaimsTold ==
  /\ \A p \in Process : claims[p].conn \in Conn =>
       /\ Home[claims[p].conn] = p
       /\ claims[p].conn \in released[p] \/ claimed[claims[p].conn]
  /\ \A c \in Conn :
       /\ claimed[c] => /\ c \notin released[Home[c]]
                        /\ pc[c] \in {"write", "commit", "end", "release", "unclaim", "close"}
       /\ pc[c] \in {"take", "wait", "sqlite", "record"} => c \notin released[Home[c]]
       /\ pc[c] = "write" => claimed[c] /\ claims[Home[c]] = [thread |-> by[c], conn |-> c]

\* A thread is in one call at a time, on a connection it may use.
Works(c) == pc[c] \notin {"closed", "idle", "write", "collected"}

OneCall ==
  /\ \A c, e \in Conn : Works(c) /\ Works(e) /\ by[c] = by[e] => c = e
  /\ \A c \in Conn : pc[c] \in {"take", "wait", "sqlite", "record", "write"} => by[c] \in Users[c]

IInv == TypeOK /\ Admitted /\ Transactions /\ ClaimsTold /\ OneCall /\ NoSelfWait

\* The assumption, one constant at a time.
LEMMA Constants ==
  /\ \A x \in Thread \cup Conn : Home[x] \in Process
  /\ \A c \in Conn : Users[c] \subseteq Thread /\ \A t \in Users[c] : Home[t] = Home[c]
  /\ MaxDepth \in Nat \ {0}
  /\ Nobody \notin Conn /\ Nobody \notin Thread /\ Foreign \notin Conn /\ Foreign # Nobody
BY ConstantsAssumption

\* A refusal applies the queued releases and changes nothing else.
LEMMA RefuseKeeps ==
  ASSUME IInv, NEW t \in Thread, NEW c \in Conn, Refuse(t, c)
  PROVE  IInv'
<1>1. TypeOK'
  BY Constants DEF IInv, Refuse, Settle, Settled, TypeOK, OneCall, Transactions
<1>2. Admitted'
  BY Constants DEF IInv, Refuse, Settle, Settled, TypeOK, Admitted, Holds
<1>3. Transactions'
  BY Constants DEF IInv, Refuse, Settle, Settled, TypeOK, Transactions
<1>4. ClaimsTold'
  BY Constants DEF IInv, Refuse, Settle, Settled, TypeOK, Admitted, Holds, OneCall, ClaimsTold
<1>5. OneCall'
  BY Constants DEF IInv, Refuse, Settle, Settled, TypeOK, OneCall, Works
<1>6. NoSelfWait'
  BY Constants DEF IInv, Refuse, Settle, Settled, TypeOK, ClaimsTold, OneCall, Works, NoSelfWait
<1> QED BY <1>1, <1>2, <1>3, <1>4, <1>5, <1>6 DEF IInv

\* A thread with an open write is refused, so whoever begins has none.
LEMMA BeginKeeps ==
  ASSUME IInv, NEW t \in Thread, NEW c \in Conn, Begin(t, c)
  PROVE  IInv'
<1>1. TypeOK'
  BY Constants DEF IInv, Begin, Settle, Settled, TypeOK, OneCall, Transactions
<1>2. Admitted'
  BY Constants DEF IInv, Begin, Settle, Settled, TypeOK, Admitted, Holds
<1>3. Transactions'
  BY Constants DEF IInv, Begin, Settle, Settled, TypeOK, Transactions
<1>4. ClaimsTold'
  BY Constants DEF IInv, Begin, Settle, Settled, TypeOK, Admitted, Holds, OneCall, ClaimsTold, Busy
<1>5. OneCall'
  BY Constants DEF IInv, Begin, Settle, Settled, TypeOK, OneCall, Works, Busy
<1>6. NoSelfWait'
  <2> SUFFICES ASSUME NEW e \in Conn, NEW f \in Conn, pc'[e] \in {"take", "wait", "sqlite"}, pc'[f] = "write",
                      by'[e] = by'[f]
               PROVE  FALSE
    BY DEF NoSelfWait
  <2>1. f # c /\ pc[f] = "write" /\ by'[f] = by[f]
    BY DEF Begin, IInv, TypeOK
  <2>2. CASE e # c
    BY <2>1, <2>2 DEF Begin, IInv, TypeOK, NoSelfWait
  <2>3. CASE e = c
    <3>1. by[f] = t /\ t \in Users[f] /\ t \in Users[c]
      BY <2>1, <2>3 DEF Begin, IInv, TypeOK, OneCall
    <3>2. Home[f] = Home[c]
      BY <3>1, Constants
    <3>3. claims[Home[c]] = [thread |-> t, conn |-> f] /\ f \notin released[Home[c]]
      BY <2>1, <3>1, <3>2 DEF IInv, ClaimsTold
    <3>4. Settled(Home[c]).thread = t
      BY <3>3 DEF Settled
    <3> QED BY <3>4 DEF Begin
  <2> QED BY <2>2, <2>3
<1> QED BY <1>1, <1>2, <1>3, <1>4, <1>5, <1>6 DEF IInv

\* A savepoint moves the depth only.
LEMMA BeginInnerKeeps ==
  ASSUME IInv, NEW t \in Thread, NEW c \in Conn, BeginInner(t, c)
  PROVE  IInv'
<1>1. TypeOK'
  BY Constants DEF IInv, BeginInner, TypeOK, OneCall, Transactions
<1>2. Admitted'
  BY Constants DEF IInv, BeginInner, TypeOK, Admitted, Holds
<1>3. Transactions'
  BY Constants DEF IInv, BeginInner, TypeOK, Transactions
<1>4. ClaimsTold'
  BY Constants DEF IInv, BeginInner, TypeOK, Admitted, Holds, OneCall, ClaimsTold
<1>5. OneCall'
  BY Constants DEF IInv, BeginInner, TypeOK, OneCall, Works
<1>6. NoSelfWait'
  BY Constants DEF IInv, BeginInner, TypeOK, ClaimsTold, OneCall, Works, NoSelfWait
<1> QED BY <1>1, <1>2, <1>3, <1>4, <1>5, <1>6 DEF IInv

\* The flock is taken only when nobody holds it.
LEMMA TakeKeeps ==
  ASSUME IInv, NEW c \in Conn, Take(c)
  PROVE  IInv'
<1>1. TypeOK'
  <2>1. gate' \in [Conn -> BOOLEAN]
    BY Zenon DEF Take, IInv, TypeOK
  <2>2. wait' \in [Conn -> {"none", "queued", "granted", "done"}]
    BY DEF Take, IInv, TypeOK
  <2>3. wanted' \in [Conn -> BOOLEAN]
    BY Zenon DEF Take, IInv, TypeOK
  <2>4. pc' \in [Conn -> Steps]
    BY DEF Take, IInv, TypeOK
  <2> QED BY <2>1, <2>2, <2>3, <2>4 DEF Take, IInv, TypeOK
<1>0. /\ pc[c] = "take" /\ pc'[c] \in {"sqlite", "wait", "end"} /\ by' = by
      /\ \A e \in Conn : e # c => pc'[e] = pc[e]
  BY DEF Take, IInv, TypeOK
<1>2. Admitted'
  BY Constants DEF IInv, Take, Unlocked, TypeOK, Admitted, Holds
<1>3. Transactions'
  BY Constants DEF IInv, Take, Unlocked, TypeOK, Transactions
<1>4. ClaimsTold'
  BY Constants DEF IInv, Take, Unlocked, TypeOK, Admitted, Holds, OneCall, ClaimsTold
<1>5. OneCall'
  <2>1. \A e \in Conn : Works(e)' => Works(e)
    BY <1>0 DEF Works
  <2>2. OneCall
    BY DEF IInv
  <2> QED BY <1>0, <2>1, <2>2 DEF OneCall
<1>6. NoSelfWait'
  <2>1. NoSelfWait
    BY DEF IInv
  <2> QED BY <1>0, <2>1 DEF NoSelfWait
<1> QED BY <1>1, <1>2, <1>3, <1>4, <1>5, <1>6 DEF IInv

\* A wait given up is wanted again.
LEMMA ResumeKeeps ==
  ASSUME IInv, NEW c \in Conn, Resume(c)
  PROVE  IInv'
<1>1. TypeOK'
  BY Constants DEF IInv, Resume, TypeOK, OneCall, Transactions
<1>2. Admitted'
  BY Constants DEF IInv, Resume, TypeOK, Admitted, Holds
<1>3. Transactions'
  BY Constants DEF IInv, Resume, TypeOK, Transactions
<1>4. ClaimsTold'
  BY Constants DEF IInv, Resume, TypeOK, Admitted, Holds, OneCall, ClaimsTold
<1>5. OneCall'
  BY Constants DEF IInv, Resume, TypeOK, OneCall, Works
<1>6. NoSelfWait'
  BY Constants DEF IInv, Resume, TypeOK, ClaimsTold, OneCall, Works, NoSelfWait
<1> QED BY <1>1, <1>2, <1>3, <1>4, <1>5, <1>6 DEF IInv

\* The kernel grants a flock that nobody holds.
LEMMA GrantKeeps ==
  ASSUME IInv, NEW c \in Conn, Grant(c)
  PROVE  IInv'
<1>1. TypeOK'
  BY Constants DEF IInv, Grant, Unlocked, TypeOK, OneCall, Transactions
<1>2. Admitted'
  BY Constants DEF IInv, Grant, Unlocked, TypeOK, Admitted, Holds
<1>3. Transactions'
  BY Constants DEF IInv, Grant, Unlocked, TypeOK, Transactions
<1>4. ClaimsTold'
  BY Constants DEF IInv, Grant, Unlocked, TypeOK, Admitted, Holds, OneCall, ClaimsTold
<1>5. OneCall'
  BY Constants DEF IInv, Grant, Unlocked, TypeOK, OneCall, Works
<1>6. NoSelfWait'
  BY Constants DEF IInv, Grant, Unlocked, TypeOK, ClaimsTold, OneCall, Works, NoSelfWait
<1> QED BY <1>1, <1>2, <1>3, <1>4, <1>5, <1>6 DEF IInv

\* What nobody wants is let go.
LEMMA GrantedKeeps ==
  ASSUME IInv, NEW c \in Conn, Granted(c)
  PROVE  IInv'
<1>1. TypeOK'
  BY Constants DEF IInv, Granted, TypeOK, OneCall, Transactions
<1>2. Admitted'
  BY Constants DEF IInv, Granted, TypeOK, Admitted, Holds
<1>3. Transactions'
  BY Constants DEF IInv, Granted, TypeOK, Transactions
<1>4. ClaimsTold'
  BY Constants DEF IInv, Granted, TypeOK, Admitted, Holds, OneCall, ClaimsTold
<1>5. OneCall'
  BY Constants DEF IInv, Granted, TypeOK, OneCall, Works
<1>6. NoSelfWait'
  BY Constants DEF IInv, Granted, TypeOK, ClaimsTold, OneCall, Works, NoSelfWait
<1> QED BY <1>1, <1>2, <1>3, <1>4, <1>5, <1>6 DEF IInv

\* The descriptor moves from the wait to the gate.
LEMMA ClaimKeeps ==
  ASSUME IInv, NEW c \in Conn, Claim(c)
  PROVE  IInv'
<1>1. TypeOK'
  BY Constants DEF IInv, Claim, TypeOK, OneCall, Transactions
<1>2. Admitted'
  BY Constants DEF IInv, Claim, TypeOK, Admitted, Holds
<1>3. Transactions'
  BY Constants DEF IInv, Claim, TypeOK, Transactions
<1>4. ClaimsTold'
  BY Constants DEF IInv, Claim, TypeOK, Admitted, Holds, OneCall, ClaimsTold
<1>5. OneCall'
  BY Constants DEF IInv, Claim, TypeOK, OneCall, Works
<1>6. NoSelfWait'
  BY Constants DEF IInv, Claim, TypeOK, ClaimsTold, OneCall, Works, NoSelfWait
<1> QED BY <1>1, <1>2, <1>3, <1>4, <1>5, <1>6 DEF IInv

\* A wait that runs out is unwanted and unanswered.
LEMMA GiveUpKeeps ==
  ASSUME IInv, NEW c \in Conn, GiveUp(c)
  PROVE  IInv'
<1>1. TypeOK'
  BY Constants DEF IInv, GiveUp, TypeOK, OneCall, Transactions
<1>2. Admitted'
  BY Constants DEF IInv, GiveUp, TypeOK, Admitted, Holds
<1>3. Transactions'
  BY Constants DEF IInv, GiveUp, TypeOK, Transactions
<1>4. ClaimsTold'
  BY Constants DEF IInv, GiveUp, TypeOK, Admitted, Holds, OneCall, ClaimsTold
<1>5. OneCall'
  BY Constants DEF IInv, GiveUp, TypeOK, OneCall, Works
<1>6. NoSelfWait'
  BY Constants DEF IInv, GiveUp, TypeOK, ClaimsTold, OneCall, Works, NoSelfWait
<1> QED BY <1>1, <1>2, <1>3, <1>4, <1>5, <1>6 DEF IInv

\* An interrupted wait leaves nothing answered.
LEMMA InterruptKeeps ==
  ASSUME IInv, NEW c \in Conn, Interrupt(c)
  PROVE  IInv'
<1>1. TypeOK'
  BY Constants DEF IInv, Interrupt, Abandoned, TypeOK, OneCall, Transactions
<1>2. Admitted'
  BY Constants DEF IInv, Interrupt, Abandoned, TypeOK, Admitted, Holds
<1>3. Transactions'
  BY Constants DEF IInv, Interrupt, Abandoned, TypeOK, Transactions
<1>4. ClaimsTold'
  BY Constants DEF IInv, Interrupt, Abandoned, TypeOK, Admitted, Holds, OneCall, ClaimsTold
<1>5. OneCall'
  BY Constants DEF IInv, Interrupt, Abandoned, TypeOK, OneCall, Works
<1>6. NoSelfWait'
  BY Constants DEF IInv, Interrupt, Abandoned, TypeOK, ClaimsTold, OneCall, Works, NoSelfWait
<1> QED BY <1>1, <1>2, <1>3, <1>4, <1>5, <1>6 DEF IInv

\* The transaction opens under the gate.
LEMMA BeginImmediateKeeps ==
  ASSUME IInv, NEW c \in Conn, BeginImmediate(c)
  PROVE  IInv'
<1>1. TypeOK'
  BY Constants DEF IInv, BeginImmediate, TypeOK, OneCall, Transactions
<1>2. Admitted'
  BY Constants DEF IInv, BeginImmediate, TypeOK, Admitted, Holds
<1>3. Transactions'
  BY Constants DEF IInv, BeginImmediate, TypeOK, Transactions
<1>4. ClaimsTold'
  BY Constants DEF IInv, BeginImmediate, TypeOK, Admitted, Holds, OneCall, ClaimsTold
<1>5. OneCall'
  BY Constants DEF IInv, BeginImmediate, TypeOK, OneCall, Works
<1>6. NoSelfWait'
  BY Constants DEF IInv, BeginImmediate, TypeOK, ClaimsTold, OneCall, Works, NoSelfWait
<1> QED BY <1>1, <1>2, <1>3, <1>4, <1>5, <1>6 DEF IInv

\* The claim is recorded by the one holder of the flock.
LEMMA RecordKeeps ==
  ASSUME IInv, NEW c \in Conn, Record(c)
  PROVE  IInv'
<1>1. TypeOK'
  BY Constants DEF IInv, Record, TypeOK, OneCall, Transactions
<1>0. /\ pc[c] = "record" /\ pc'[c] = "write" /\ by' = by
      /\ \A e \in Conn : e # c => pc'[e] = pc[e]
  BY DEF Record, IInv, TypeOK
<1>2. Admitted'
  BY Constants DEF IInv, Record, TypeOK, Admitted, Holds
<1>3. Transactions'
  BY Constants DEF IInv, Record, TypeOK, Transactions
<1>4. ClaimsTold'
  BY Constants DEF IInv, Record, TypeOK, Admitted, Holds, OneCall, ClaimsTold
<1>5. OneCall'
  <2>1. \A e \in Conn : Works(e)' => Works(e)
    BY <1>0 DEF Works
  <2>2. OneCall
    BY DEF IInv
  <2> QED BY <1>0, <2>1, <2>2 DEF OneCall
<1>6. NoSelfWait'
  <2>1. NoSelfWait /\ OneCall
    BY DEF IInv
  <2> QED BY <1>0, <2>1 DEF NoSelfWait, OneCall, Works
<1> QED BY <1>1, <1>2, <1>3, <1>4, <1>5, <1>6 DEF IInv

\* A begin that fails has recorded no claim.
LEMMA BeginFailsKeeps ==
  ASSUME IInv, NEW c \in Conn, BeginFails(c)
  PROVE  IInv'
<1>1. TypeOK'
  BY Constants DEF IInv, BeginFails, TypeOK, OneCall, Transactions
<1>2. Admitted'
  BY Constants DEF IInv, BeginFails, TypeOK, Admitted, Holds
<1>3. Transactions'
  BY Constants DEF IInv, BeginFails, TypeOK, Transactions
<1>4. ClaimsTold'
  BY Constants DEF IInv, BeginFails, TypeOK, Admitted, Holds, OneCall, ClaimsTold
<1>5. OneCall'
  BY Constants DEF IInv, BeginFails, TypeOK, OneCall, Works
<1>6. NoSelfWait'
  BY Constants DEF IInv, BeginFails, TypeOK, ClaimsTold, OneCall, Works, NoSelfWait
<1> QED BY <1>1, <1>2, <1>3, <1>4, <1>5, <1>6 DEF IInv

\* An inner write ends inside the outer one.
LEMMA FinishInnerKeeps ==
  ASSUME IInv, NEW t \in Thread, NEW c \in Conn, FinishInner(t, c)
  PROVE  IInv'
<1>1. TypeOK'
  BY Constants DEF IInv, FinishInner, TypeOK, OneCall, Transactions
<1>2. Admitted'
  BY Constants DEF IInv, FinishInner, TypeOK, Admitted, Holds
<1>3. Transactions'
  BY Constants DEF IInv, FinishInner, TypeOK, Transactions
<1>4. ClaimsTold'
  BY Constants DEF IInv, FinishInner, TypeOK, Admitted, Holds, OneCall, ClaimsTold
<1>5. OneCall'
  BY Constants DEF IInv, FinishInner, TypeOK, OneCall, Works
<1>6. NoSelfWait'
  BY Constants DEF IInv, FinishInner, TypeOK, ClaimsTold, OneCall, Works, NoSelfWait
<1> QED BY <1>1, <1>2, <1>3, <1>4, <1>5, <1>6 DEF IInv

\* Admission is handed on before COMMIT; the claim stays.
LEMMA FinishKeeps ==
  ASSUME IInv, NEW t \in Thread, NEW c \in Conn, Finish(t, c)
  PROVE  IInv'
<1>1. TypeOK'
  BY Constants DEF IInv, Finish, TypeOK, OneCall, Transactions
<1>2. Admitted'
  BY Constants DEF IInv, Finish, TypeOK, Admitted, Holds
<1>3. Transactions'
  BY Constants DEF IInv, Finish, TypeOK, Transactions
<1>4. ClaimsTold'
  BY Constants DEF IInv, Finish, TypeOK, Admitted, Holds, OneCall, ClaimsTold, Busy
<1>5. OneCall'
  BY Constants DEF IInv, Finish, TypeOK, OneCall, Works, Busy
<1>6. NoSelfWait'
  BY Constants DEF IInv, Finish, TypeOK, ClaimsTold, OneCall, Works, NoSelfWait, Busy
<1> QED BY <1>1, <1>2, <1>3, <1>4, <1>5, <1>6 DEF IInv

\* COMMIT may leave the transaction open.
LEMMA CommitKeeps ==
  ASSUME IInv, NEW c \in Conn, Commit(c)
  PROVE  IInv'
<1>1. TypeOK'
  BY Constants DEF IInv, Commit, TypeOK, OneCall, Transactions
<1>2. Admitted'
  BY Constants DEF IInv, Commit, TypeOK, Admitted, Holds
<1>3. Transactions'
  BY Constants DEF IInv, Commit, TypeOK, Transactions
<1>4. ClaimsTold'
  BY Constants DEF IInv, Commit, TypeOK, Admitted, Holds, OneCall, ClaimsTold
<1>5. OneCall'
  BY Constants DEF IInv, Commit, TypeOK, OneCall, Works
<1>6. NoSelfWait'
  BY Constants DEF IInv, Commit, TypeOK, ClaimsTold, OneCall, Works, NoSelfWait
<1> QED BY <1>1, <1>2, <1>3, <1>4, <1>5, <1>6 DEF IInv

\* What COMMIT left open is rolled back.
LEMMA RollbackKeeps ==
  ASSUME IInv, NEW c \in Conn, Rollback(c)
  PROVE  IInv'
<1>1. TypeOK'
  BY Constants DEF IInv, Rollback, Freed, TypeOK, OneCall, Transactions
<1>2. Admitted'
  BY Constants DEF IInv, Rollback, Freed, TypeOK, Admitted, Holds
<1>3. Transactions'
  BY Constants DEF IInv, Rollback, Freed, TypeOK, Transactions
<1>4. ClaimsTold'
  BY Constants DEF IInv, Rollback, Freed, TypeOK, Admitted, Holds, OneCall, ClaimsTold
<1>5. OneCall'
  BY Constants DEF IInv, Rollback, Freed, TypeOK, OneCall, Works
<1>6. NoSelfWait'
  BY Constants DEF IInv, Rollback, Freed, TypeOK, ClaimsTold, OneCall, Works, NoSelfWait
<1> QED BY <1>1, <1>2, <1>3, <1>4, <1>5, <1>6 DEF IInv

\* The gate is let go.
LEMMA ReleaseKeeps ==
  ASSUME IInv, NEW c \in Conn, Release(c)
  PROVE  IInv'
<1>1. TypeOK'
  BY Constants DEF IInv, Release, TypeOK, OneCall, Transactions
<1>2. Admitted'
  BY Constants DEF IInv, Release, TypeOK, Admitted, Holds
<1>3. Transactions'
  BY Constants DEF IInv, Release, TypeOK, Transactions
<1>4. ClaimsTold'
  BY Constants DEF IInv, Release, TypeOK, Admitted, Holds, OneCall, ClaimsTold
<1>5. OneCall'
  BY Constants DEF IInv, Release, TypeOK, OneCall, Works
<1>6. NoSelfWait'
  BY Constants DEF IInv, Release, TypeOK, ClaimsTold, OneCall, Works, NoSelfWait
<1> QED BY <1>1, <1>2, <1>3, <1>4, <1>5, <1>6 DEF IInv

\* The claim's release is queued.
LEMMA UnclaimKeeps ==
  ASSUME IInv, NEW c \in Conn, Unclaim(c)
  PROVE  IInv'
<1>1. TypeOK'
  BY Constants DEF IInv, Unclaim, Unclaimed, TypeOK, OneCall, Transactions
<1>2. Admitted'
  BY Constants DEF IInv, Unclaim, Unclaimed, TypeOK, Admitted, Holds
<1>3. Transactions'
  BY Constants DEF IInv, Unclaim, Unclaimed, TypeOK, Transactions
<1>4. ClaimsTold'
  BY Constants DEF IInv, Unclaim, Unclaimed, TypeOK, Admitted, Holds, OneCall, ClaimsTold
<1>5. OneCall'
  BY Constants DEF IInv, Unclaim, Unclaimed, TypeOK, OneCall, Works
<1>6. NoSelfWait'
  BY Constants DEF IInv, Unclaim, Unclaimed, TypeOK, ClaimsTold, OneCall, Works, NoSelfWait
<1> QED BY <1>1, <1>2, <1>3, <1>4, <1>5, <1>6 DEF IInv

\* A new connection has nothing.
LEMMA ConnectKeeps ==
  ASSUME IInv, NEW c \in Conn, Connect(c)
  PROVE  IInv'
<1>1. TypeOK'
  BY Constants DEF IInv, Connect, TypeOK, OneCall, Transactions
<1>2. Admitted'
  BY Constants DEF IInv, Connect, TypeOK, Admitted, Holds
<1>3. Transactions'
  BY Constants DEF IInv, Connect, TypeOK, Transactions
<1>4. ClaimsTold'
  BY Constants DEF IInv, Connect, TypeOK, Admitted, Holds, OneCall, ClaimsTold
<1>5. OneCall'
  BY Constants DEF IInv, Connect, TypeOK, OneCall, Works
<1>6. NoSelfWait'
  BY Constants DEF IInv, Connect, TypeOK, ClaimsTold, OneCall, Works, NoSelfWait
<1> QED BY <1>1, <1>2, <1>3, <1>4, <1>5, <1>6 DEF IInv

\* Closing rolls back first.
LEMMA CloseKeeps ==
  ASSUME IInv, NEW t \in Thread, NEW c \in Conn, Close(t, c)
  PROVE  IInv'
<1>1. TypeOK'
  BY Constants DEF IInv, Close, Freed, TypeOK, OneCall, Transactions
<1>2. Admitted'
  BY Constants DEF IInv, Close, Freed, TypeOK, Admitted, Holds
<1>3. Transactions'
  BY Constants DEF IInv, Close, Freed, TypeOK, Transactions
<1>4. ClaimsTold'
  BY Constants DEF IInv, Close, Freed, TypeOK, Admitted, Holds, OneCall, ClaimsTold, Busy
<1>5. OneCall'
  BY Constants DEF IInv, Close, Freed, TypeOK, OneCall, Works, Busy
<1>6. NoSelfWait'
  BY Constants DEF IInv, Close, Freed, TypeOK, ClaimsTold, OneCall, Works, NoSelfWait, Busy
<1> QED BY <1>1, <1>2, <1>3, <1>4, <1>5, <1>6 DEF IInv

\* Then the gate, the wait and the claim go.
LEMMA DropKeeps ==
  ASSUME IInv, NEW c \in Conn, Drop(c)
  PROVE  IInv'
<1>1. TypeOK'
  BY Constants DEF IInv, Drop, Dropped, Abandoned, Unclaimed, TypeOK, OneCall, Transactions
<1>2. Admitted'
  BY Constants DEF IInv, Drop, Dropped, Abandoned, Unclaimed, TypeOK, Admitted, Holds
<1>3. Transactions'
  BY Constants DEF IInv, Drop, Dropped, Abandoned, Unclaimed, TypeOK, Transactions
<1>4. ClaimsTold'
  BY Constants DEF IInv, Drop, Dropped, Abandoned, Unclaimed, TypeOK, Admitted, Holds, OneCall, ClaimsTold
<1>5. OneCall'
  BY Constants DEF IInv, Drop, Dropped, Abandoned, Unclaimed, TypeOK, OneCall, Works
<1>6. NoSelfWait'
  BY Constants DEF IInv, Drop, Dropped, Abandoned, Unclaimed, TypeOK, ClaimsTold, OneCall, Works, NoSelfWait
<1> QED BY <1>1, <1>2, <1>3, <1>4, <1>5, <1>6 DEF IInv

\* The finalizer lets all three go before SQLite rolls back.
LEMMA CollectKeeps ==
  ASSUME IInv, NEW c \in Conn, Collect(c)
  PROVE  IInv'
<1>1. TypeOK'
  BY Constants DEF IInv, Collect, Dropped, Abandoned, Unclaimed, TypeOK, OneCall, Transactions
<1>2. Admitted'
  BY Constants DEF IInv, Collect, Dropped, Abandoned, Unclaimed, TypeOK, Admitted, Holds
<1>3. Transactions'
  BY Constants DEF IInv, Collect, Dropped, Abandoned, Unclaimed, TypeOK, Transactions
<1>4. ClaimsTold'
  BY Constants DEF IInv, Collect, Dropped, Abandoned, Unclaimed, TypeOK, Admitted, Holds, OneCall, ClaimsTold
<1>5. OneCall'
  BY Constants DEF IInv, Collect, Dropped, Abandoned, Unclaimed, TypeOK, OneCall, Works
<1>6. NoSelfWait'
  BY Constants DEF IInv, Collect, Dropped, Abandoned, Unclaimed, TypeOK, ClaimsTold, OneCall, Works, NoSelfWait
<1> QED BY <1>1, <1>2, <1>3, <1>4, <1>5, <1>6 DEF IInv

\* SQLite closes the collected connection.
LEMMA CollectedKeeps ==
  ASSUME IInv, NEW c \in Conn, Collected(c)
  PROVE  IInv'
<1>1. TypeOK'
  BY Constants DEF IInv, Collected, Freed, TypeOK, OneCall, Transactions
<1>2. Admitted'
  BY Constants DEF IInv, Collected, Freed, TypeOK, Admitted, Holds
<1>3. Transactions'
  BY Constants DEF IInv, Collected, Freed, TypeOK, Transactions
<1>4. ClaimsTold'
  BY Constants DEF IInv, Collected, Freed, TypeOK, Admitted, Holds, OneCall, ClaimsTold
<1>5. OneCall'
  BY Constants DEF IInv, Collected, Freed, TypeOK, OneCall, Works
<1>6. NoSelfWait'
  BY Constants DEF IInv, Collected, Freed, TypeOK, ClaimsTold, OneCall, Works, NoSelfWait
<1> QED BY <1>1, <1>2, <1>3, <1>4, <1>5, <1>6 DEF IInv

\* A dead process leaves nothing.
LEMMA DieKeeps ==
  ASSUME IInv, NEW p \in Process, Die(p)
  PROVE  IInv'
<1>1. TypeOK'
  BY Constants DEF IInv, Die, TypeOK, OneCall, Transactions
<1>2. Admitted'
  BY Constants DEF IInv, Die, TypeOK, Admitted, Holds
<1>3. Transactions'
  BY Constants DEF IInv, Die, TypeOK, Transactions
<1>4. ClaimsTold'
  <2>1. ASSUME NEW r \in Process, claims'[r].conn \in Conn
        PROVE  /\ Home[claims'[r].conn] = r
               /\ claims'[r].conn \in released'[r] \/ claimed'[claims'[r].conn]
    <3>1. r # p /\ claims'[r] = claims[r] /\ released'[r] = released[r]
      BY <2>1, Constants DEF Die, IInv, TypeOK
    <3> QED BY <2>1, <3>1 DEF Die, IInv, TypeOK, ClaimsTold
  <2>2. ASSUME NEW c \in Conn
        PROVE  /\ claimed'[c] => /\ c \notin released'[Home[c]]
                                /\ pc'[c] \in {"write", "commit", "end", "release", "unclaim", "close"}
               /\ pc'[c] \in {"take", "wait", "sqlite", "record"} => c \notin released'[Home[c]]
               /\ pc'[c] = "write" => claimed'[c] /\ claims'[Home[c]] = [thread |-> by'[c], conn |-> c]
    <3>1. CASE Home[c] = p
      BY <3>1 DEF Die
    <3>2. CASE Home[c] # p
      BY <3>2, Constants DEF Die, IInv, TypeOK, ClaimsTold
    <3> QED BY <3>1, <3>2
  <2> QED BY <2>1, <2>2 DEF ClaimsTold
<1>5. OneCall'
  BY Constants DEF IInv, Die, TypeOK, OneCall, Works
<1>6. NoSelfWait'
  BY Constants DEF IInv, Die, TypeOK, ClaimsTold, OneCall, Works, NoSelfWait
<1> QED BY <1>1, <1>2, <1>3, <1>4, <1>5, <1>6 DEF IInv

\* A step of anybody, anywhere, keeps the invariant.
LEMMA StepKeeps ==
  ASSUME IInv, [Next]_vars
  PROVE  IInv'
<1>1. CASE UNCHANGED vars
  BY <1>1 DEF vars, IInv, TypeOK, Admitted, Holds, Transactions, ClaimsTold, OneCall, Works, NoSelfWait
<1>2. CASE ForeignWrite
  BY <1>2, Constants DEF ForeignWrite, IInv, TypeOK, Admitted, Holds, Transactions, ClaimsTold, OneCall,
     Works, NoSelfWait
<1>3. ASSUME NEW p \in Process, Die(p) PROVE IInv'
  BY <1>3, DieKeeps
<1>4. ASSUME NEW c \in Conn, Working(c) PROVE IInv'
  BY <1>4, TakeKeeps, ResumeKeeps, ClaimKeeps, GiveUpKeeps, BeginImmediateKeeps, BeginFailsKeeps, RecordKeeps,
     CommitKeeps, RollbackKeeps, ReleaseKeeps, UnclaimKeeps, DropKeeps, CollectedKeeps, Zenon DEF Working
<1>5. ASSUME NEW c \in Conn, Ending(c) PROVE IInv'
  BY <1>5, FinishInnerKeeps, FinishKeeps, Zenon DEF Ending
<1>6. ASSUME NEW c \in Conn, Grant(c) \/ Granted(c) \/ Interrupt(c) \/ Connect(c) \/ Collect(c) PROVE IInv'
  BY <1>6, GrantKeeps, GrantedKeeps, InterruptKeeps, ConnectKeeps, CollectKeeps, Zenon
<1>7. ASSUME NEW c \in Conn, NEW t \in Thread,
             Refuse(t, c) \/ Begin(t, c) \/ BeginInner(t, c) \/ Close(t, c)
      PROVE  IInv'
  BY <1>7, RefuseKeeps, BeginKeeps, BeginInnerKeeps, CloseKeeps, Zenon
<1> QED BY <1>1, <1>2, <1>3, <1>4, <1>5, <1>6, <1>7, Zenon DEF Next

\* Nothing is open or claimed at first.
LEMMA InitHolds == Init => IInv
BY Constants DEF Init, IInv, TypeOK, Admitted, Holds, Transactions, ClaimsTold, OneCall, Works, NoSelfWait

\* The inductive invariant holds in every reachable state.
THEOREM InvariantHolds == Spec => []IInv
<1>1. IInv /\ [Next]_vars => IInv'
  BY StepKeeps
<1> QED BY InitHolds, <1>1, PTL DEF Spec

\* Type correctness; with it, a write nests no deeper than the bound and never below zero.
THEOREM TypeCorrect == Spec => []TypeOK
<1>1. IInv => TypeOK
  BY DEF IInv
<1> QED BY InvariantHolds, <1>1, PTL

\* No thread waits for a write of its own through another connection.
THEOREM NobodyWaitsForItself == Spec => []NoSelfWait
<1>1. IInv => NoSelfWait
  BY DEF IInv
<1> QED BY InvariantHolds, <1>1, PTL

\* A claim that refuses a thread is that of a write still open or ending.
THEOREM RefusalsAreJust == Spec => []RefusedJustly
<1>1. IInv => RefusedJustly
  <2> SUFFICES ASSUME IInv, NEW p \in Process, Settled(p) # NoClaim
               PROVE  pc[Settled(p).conn] \in {"write", "commit", "end", "release", "unclaim", "close"}
    BY DEF RefusedJustly
  <2>1. Settled(p) = claims[p] /\ claims[p].conn \notin released[p]
    BY DEF Settled
  <2>2. claims[p].conn \in Conn
    BY <2>1 DEF IInv, TypeOK
  <2> QED BY <2>1, <2>2 DEF IInv, ClaimsTold
<1> QED BY InvariantHolds, <1>1, PTL

\* An admitted writer waits in SQLite only for a write that is ending: the flock has one
\* holder, and a write holds it until it ends.
THEOREM WaitsAreShort == Spec => []WaitsOnlyForCommit
<1>1. IInv => WaitsOnlyForCommit
  BY DEF IInv, TypeOK, Admitted, Holds, Transactions, WaitsOnlyForCommit
<1> QED BY InvariantHolds, <1>1, PTL

\* A connection at rest holds no lock, claim, transaction or answered wait.
THEOREM NothingIsLeftHeld == Spec => []AtRestHoldsNothing
<1>1. IInv => AtRestHoldsNothing
  BY DEF IInv, TypeOK, Admitted, Transactions, ClaimsTold, AtRestHoldsNothing
<1> QED BY InvariantHolds, <1>1, PTL
=============================================================================
