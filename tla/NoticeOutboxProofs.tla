------------------------- MODULE NoticeOutboxProofs -------------------------
(***************************************************************************)
(* Proofs about NoticeOutbox, for every set of runs, addresses, pushers    *)
(* and drains and every bound: IInv is an inductive invariant, so what is  *)
(* marked delivered was heard in that arming, every end is armed, a node's *)
(* owed notice is named and a swarm leaves as one unit; and it implements  *)
(* Outbox, what a caller may count on.                                     *)
(***************************************************************************)
EXTENDS NoticeOutbox, TLAPS

USE DEF run, Notices, Terminal, Final, Rows, Phases

\* A row of notices.
Record == [row : {"no", "yes", "gone"}, ready : BOOLEAN, delivered : BOOLEAN,
           generation : Generations, armed : Terminal \cup {"none"}, token : Tokens,
           claims : Nat, live : BOOLEAN, stale : BOOLEAN]

\* A drain at one of its places.
Drain == [pc : {"idle"}, of : {{}}] \cup [pc : {"looked"}, of : SUBSET Notices]
         \cup [pc : {"print"}, of : SUBSET Claims]

\* TypeOK with the two names.
LEMMA Types ==
  TypeOK <=>
    /\ phase \in [Run -> Phases]
    /\ revived \in [Run -> Nat] /\ \A r \in Run : revived[r] <= MaxRevived[r]
    /\ notice \in [Notices -> Record]
    /\ alive \in [Addr -> BOOLEAN]
    /\ push \in [Pusher -> SUBSET Claims] /\ sent \in [Pusher -> BOOLEAN]
    /\ drain \in [Drainer -> Drain]
    /\ taken \subseteq Claims
    /\ told \in [Notices -> SUBSET Phases] /\ lost \in [Notices -> BOOLEAN]
BY DEF TypeOK, Record, Drain

\* The generations are natural numbers, from nought to what a run may come to.
LEMMA GenerationsInNat ==
  /\ Generations \subseteq Nat /\ Tokens \subseteq Nat \X Nat
  /\ \A r \in Run : \A g \in Nat : g <= MaxRevived[r] + 2 => g \in Generations
  /\ (\E n \in Notices : TRUE) => 0 \in Generations /\ <<0, 0>> \in Tokens
BY ConstantsAssumption DEF Generations, Tokens

\* What a pusher holds, and what a drain has still to print.
LEMMA PushedAndPrinted ==
  /\ \A c : c \in PushClaims <=> \E p \in Pusher : c \in push[p]
  /\ \A c : c \in PrintClaims <=> \E d \in Drainer : drain[d].pc = "print" /\ c \in drain[d].of
  /\ \A n, ph : ph \in Printing(n) <=> \E c \in PrintClaims : c.of = n /\ Present(c) /\ c.phase = ph
BY DEF PushClaims, PrintClaims, Printing

\* The same of the next state.
LEMMA PushedAndPrintedNext ==
  /\ \A c : c \in PushClaims' <=> \E p \in Pusher : c \in push'[p]
  /\ \A c : c \in PrintClaims' <=> \E d \in Drainer : drain'[d].pc = "print" /\ c \in drain'[d].of
  /\ \A n, ph : ph \in Printing(n)' <=> \E c \in PrintClaims' : c.of = n /\ Present(c)' /\ c.phase = ph
BY DEF PushClaims, PrintClaims, Printing

\* What the handlers write into a row.
LEMMA RowFields ==
  ASSUME NEW x \in Record
  PROVE  /\ \A t \in Tokens : [x EXCEPT !.token = t] \in Record
         /\ \A k \in Nat : [x EXCEPT !.claims = k] \in Record
         /\ \A g \in Generations : [x EXCEPT !.generation = g] \in Record
         /\ \A a \in Terminal : [x EXCEPT !.armed = a] \in Record
         /\ \A b \in BOOLEAN : [x EXCEPT !.live = b] \in Record /\ [x EXCEPT !.stale = b] \in Record
         /\ \A b \in BOOLEAN : [x EXCEPT !.ready = b] \in Record /\ [x EXCEPT !.delivered = b] \in Record
BY DEF Record

\* A claim writes its token, its count and its lease.
LEMMA RowClaimed ==
  ASSUME NEW x \in Record, NEW t \in Tokens, NEW k \in Nat
  PROVE  [x EXCEPT !.token = t, !.claims = k, !.live = TRUE] \in Record
<1>1. [x EXCEPT !.token = t] \in Record
  BY RowFields
<1>2. [[x EXCEPT !.token = t] EXCEPT !.claims = k] \in Record
  BY <1>1, RowFields
<1> QED BY <1>2, RowFields

\* A release ends the lease under a token of its own.
LEMMA RowReleased ==
  ASSUME NEW x \in Record, NEW t \in Tokens
  PROVE  [x EXCEPT !.live = FALSE, !.token = t] \in Record
<1>1. [x EXCEPT !.live = FALSE] \in Record
  BY RowFields
<1> QED BY <1>1, RowFields

\* A delivery ends the lease.
LEMMA RowDelivered ==
  ASSUME NEW x \in Record PROVE [x EXCEPT !.delivered = TRUE, !.live = FALSE] \in Record
<1>1. [x EXCEPT !.delivered = TRUE] \in Record
  BY RowFields
<1> QED BY <1>1, RowFields

\* The trigger begins a generation: nothing claimed, nothing delivered.
LEMMA RowArmed ==
  ASSUME NEW x \in Record, NEW a \in Terminal, NEW t \in Tokens, NEW g \in Generations
  PROVE  [x EXCEPT !.armed = a, !.ready = TRUE, !.delivered = FALSE, !.claims = 0, !.token = t,
                   !.generation = g, !.live = FALSE, !.stale = FALSE] \in Record
<1> DEFINE x1 == [x EXCEPT !.armed = a]
           x2 == [x1 EXCEPT !.ready = TRUE]
           x3 == [x2 EXCEPT !.delivered = FALSE]
           x4 == [x3 EXCEPT !.claims = 0]
           x5 == [x4 EXCEPT !.token = t]
           x6 == [x5 EXCEPT !.generation = g]
           x7 == [x6 EXCEPT !.live = FALSE]
<1>1. x1 \in Record
  BY RowFields
<1>2. x2 \in Record
  <2> HIDE DEF x1
  <2> QED BY <1>1, RowFields
<1>3. x3 \in Record
  <2> HIDE DEF x2
  <2> QED BY <1>2, RowFields
<1>4. x4 \in Record
  <2> HIDE DEF x3
  <2> QED BY <1>3, RowFields
<1>5. x5 \in Record
  <2> HIDE DEF x4
  <2> QED BY <1>4, RowFields
<1>6. x6 \in Record
  <2> HIDE DEF x5
  <2> QED BY <1>5, RowFields
<1>7. x7 \in Record
  <2> HIDE DEF x6
  <2> QED BY <1>6, RowFields
<1>8. [x7 EXCEPT !.stale = FALSE] \in Record
  <2> HIDE DEF x7
  <2> QED BY <1>7, RowFields
<1> QED BY <1>8

\* A claim: a fresh token of the notice's arming, and what the message will say.
LEMMA ClaimOf ==
  ASSUME TypeOK, NEW n \in Notices
  PROVE  /\ Claim(n) \in Claims /\ Claimed(n) \in Record
         /\ Claim(n).of = n /\ Claim(n).generation = notice[n].generation
         /\ Claim(n).phase = PhaseOf(n)
         /\ Claim(n).token = <<notice[n].generation, notice[n].claims + 1>>
         /\ Claimed(n) = [notice[n] EXCEPT !.token = <<notice[n].generation, notice[n].claims + 1>>,
                                           !.claims = notice[n].claims + 1, !.live = TRUE]
<1>1. notice[n] \in Record /\ phase[n[1]] \in Phases /\ n[1] \in Run
  BY Types
<1>2. PhaseOf(n) \in Phases
  BY <1>1 DEF PhaseOf, Said, Record
<1>3. <<notice[n].generation, notice[n].claims + 1>> \in Tokens /\ notice[n].claims + 1 \in Nat
      /\ notice[n].generation \in Generations
  BY <1>1 DEF Record, Tokens
<1>4. Claimed(n) = [notice[n] EXCEPT !.token = <<notice[n].generation, notice[n].claims + 1>>,
                                     !.claims = notice[n].claims + 1, !.live = TRUE]
  BY DEF Claimed
<1>5. Claimed(n) \in Record
  <2> DEFINE x == notice[n]
             t == <<notice[n].generation, notice[n].claims + 1>>
             k == notice[n].claims + 1
  <2>1. x \in Record /\ t \in Tokens /\ k \in Nat
    BY <1>1, <1>3
  <2>2. Claimed(n) = [x EXCEPT !.token = t, !.claims = k, !.live = TRUE]
    BY <1>4
  <2> HIDE DEF x, t, k
  <2>3. [x EXCEPT !.token = t, !.claims = k, !.live = TRUE] \in Record
    BY <2>1, RowClaimed
  <2> QED BY <2>2, <2>3
<1>6. Claimed(n).token = <<notice[n].generation, notice[n].claims + 1>>
  BY <1>1, <1>4 DEF Record
<1>7. Claim(n) = [of |-> n, token |-> <<notice[n].generation, notice[n].claims + 1>>,
                  generation |-> notice[n].generation, phase |-> PhaseOf(n)]
  BY <1>6 DEF Claim
<1> QED BY <1>2, <1>3, <1>4, <1>5, <1>7 DEF Claims

\* The fields of a claimed row, an armed one, and of the rows after a delivery.
LEMMA ClaimedFields ==
  ASSUME TypeOK, NEW n \in Notices
  PROVE  /\ Claimed(n).row = notice[n].row /\ Claimed(n).ready = notice[n].ready
         /\ Claimed(n).delivered = notice[n].delivered /\ Claimed(n).generation = notice[n].generation
         /\ Claimed(n).armed = notice[n].armed /\ Claimed(n).claims = notice[n].claims + 1
         /\ Claimed(n).token = <<notice[n].generation, notice[n].claims + 1>>
<1>1. notice[n] \in Record
  BY Types
<1> QED BY <1>1 DEF Claimed, Record

\* An armed row is of the next generation and names the end of its run.
LEMMA ArmedFields ==
  ASSUME TypeOK, NEW n \in Notices, NEW is \in Terminal
  PROVE  /\ Armed(n, is).row = notice[n].row /\ Armed(n, is).ready /\ ~Armed(n, is).delivered
         /\ Armed(n, is).generation = notice[n].generation + 1 /\ Armed(n, is).claims = 0
         /\ Armed(n, is).armed = Said(is) /\ Armed(n, is).token = <<0, 0>> /\ ~Armed(n, is).live
         /\ notice[n].generation + 1 \in Generations => Armed(n, is) \in Record
<1>1. notice[n] \in Record
  BY Types
<1>2. ASSUME notice[n].generation + 1 \in Generations PROVE Armed(n, is) \in Record
  <2> DEFINE x == notice[n]
             a == Said(is)
             t == <<0, 0>>
             g == notice[n].generation + 1
  <2>1. x \in Record /\ a \in Terminal /\ t \in Tokens /\ g \in Generations
    BY <1>1, <1>2, GenerationsInNat DEF Said
  <2>2. Armed(n, is) = [x EXCEPT !.armed = a, !.ready = TRUE, !.delivered = FALSE, !.claims = 0, !.token = t,
                                 !.generation = g, !.live = FALSE, !.stale = FALSE]
    BY Zenon DEF Armed
  <2> HIDE DEF x, a, t, g
  <2>3. [x EXCEPT !.armed = a, !.ready = TRUE, !.delivered = FALSE, !.claims = 0, !.token = t,
                  !.generation = g, !.live = FALSE, !.stale = FALSE] \in Record
    BY <2>1, RowArmed, Zenon
  <2> QED BY <2>2, <2>3, Zenon
<1> QED BY <1>1, <1>2 DEF Armed, Record

\* A delivery marks these rows and leaves their arming alone.
LEMMA DeliverFields ==
  ASSUME TypeOK, NEW ns
  PROVE  /\ Deliver(ns) \in [Notices -> Record]
         /\ \A n \in Notices :
              /\ Deliver(ns)[n].row = notice[n].row /\ Deliver(ns)[n].ready = notice[n].ready
              /\ Deliver(ns)[n].generation = notice[n].generation
              /\ Deliver(ns)[n].armed = notice[n].armed /\ Deliver(ns)[n].claims = notice[n].claims
              /\ Deliver(ns)[n].token = notice[n].token
              /\ Deliver(ns)[n].delivered <=> notice[n].delivered \/ n \in ns
              /\ Deliver(ns)[n].live <=> notice[n].live /\ n \notin ns
<1>1. notice \in [Notices -> Record]
  BY Types
<1>2. \A n \in Notices : [notice[n] EXCEPT !.delivered = TRUE, !.live = FALSE] \in Record
  BY <1>1, RowDelivered, Zenon
<1>3. Deliver(ns) \in [Notices -> Record]
  BY <1>1, <1>2 DEF Deliver
<1>4. ASSUME NEW n \in Notices
      PROVE  /\ Deliver(ns)[n].row = notice[n].row /\ Deliver(ns)[n].ready = notice[n].ready
             /\ Deliver(ns)[n].generation = notice[n].generation
             /\ Deliver(ns)[n].armed = notice[n].armed /\ Deliver(ns)[n].claims = notice[n].claims
             /\ Deliver(ns)[n].token = notice[n].token
             /\ Deliver(ns)[n].delivered <=> notice[n].delivered \/ n \in ns
             /\ Deliver(ns)[n].live <=> notice[n].live /\ n \notin ns
  BY <1>1 DEF Deliver, Record
<1> QED BY <1>3, <1>4

-----------------------------------------------------------------------------
(* What a step keeps that leaves the rows and the claims as they are.      *)

\* No row comes, goes or is armed; a token goes at most, and nothing delivered comes back.
Kept ==
  /\ UNCHANGED run
  /\ \A n \in Notices :
       /\ notice'[n].row = notice[n].row /\ notice'[n].ready = notice[n].ready
       /\ notice'[n].generation = notice[n].generation /\ notice'[n].armed = notice[n].armed
       /\ notice'[n].claims = notice[n].claims /\ notice'[n].token \in {notice[n].token, <<0, 0>>}
       /\ notice[n].delivered => notice'[n].delivered

\* No pusher and no host is given a claim, and no drain either.
NoTokenGiven ==
  /\ \A p \in Pusher : push'[p] \subseteq push[p]
  /\ taken' \subseteq taken
NoClaimMade == NoTokenGiven /\ PrintClaims' \subseteq PrintClaims

\* What leaves the arming of every row alone keeps what is said of armings.
LEMMA RowsKept ==
  ASSUME IInv, Kept
  PROVE  ArmingsCounted' /\ RowsArmed' /\ EndedIsArmed' /\ OwedNodeNoticeIsNamed'
<1>1. ArmingsCounted'
  BY DEF IInv, Kept, ArmingsCounted, Armings
<1>2. RowsArmed'
  BY DEF IInv, Kept, RowsArmed, Exists, Undelivered
<1>3. EndedIsArmed' /\ OwedNodeNoticeIsNamed'
  BY DEF IInv, Kept, EndedIsArmed, OwedNodeNoticeIsNamed, Exists
<1> QED BY <1>1, <1>2, <1>3

\* A claim in hand is of a notice, and of an arming that was.
LEMMA ClaimTypes ==
  ASSUME TypeOK, NEW c \in PushClaims \cup PrintClaims \cup taken
  PROVE  c \in Claims /\ c.of \in Notices /\ c.generation \in Nat /\ c.token \in Nat \X Nat
<1>1. c \in Claims
  BY PushedAndPrinted, Types DEF Drain
<1> QED BY <1>1, GenerationsInNat DEF Claims

\* Where no token is given, no claim is made current and none is counted.
LEMMA TokensKept ==
  ASSUME IInv, Kept, NoTokenGiven
  PROVE  PushClaims' \subseteq PushClaims /\ ClaimsCounted' /\ ClaimsApart'
<1>1. PushClaims' \subseteq PushClaims
  BY PushedAndPrinted, PushedAndPrintedNext DEF NoTokenGiven
<1>2. \A c \in PushClaims \cup taken : c.of \in Notices
  BY ClaimTypes DEF IInv
<1>3. ClaimsCounted'
  BY <1>1, <1>2 DEF IInv, Kept, NoTokenGiven, ClaimsCounted, Present
<1>4. ClaimsApart'
  BY <1>1 DEF IInv, NoTokenGiven, ClaimsApart
<1> QED BY <1>1, <1>3, <1>4

\* What an old claim says stays true while the rows and the runs stay.
LEMMA SayingKept ==
  ASSUME IInv, Kept, NEW c \in PushClaims \cup PrintClaims \cup taken
  PROVE  /\ c.generation > 0 /\ notice'[c.of].row # "no"
         /\ Exists(c.of)' => c.generation <= notice'[c.of].generation
         /\ Present(c)' /\ phase'[c.of[1]] \in Final \cup {"pruned"} => c.phase \in Final
<1>1. c.of \in Notices
  BY ClaimTypes DEF IInv
<1> QED BY <1>1 DEF IInv, Kept, ClaimsSayTheEnd, Exists, Present

\* Where no claim is made, the claims in hand still say the end.
LEMMA ClaimsKept ==
  ASSUME IInv, Kept, NoClaimMade
  PROVE  ClaimsSayTheEnd' /\ ClaimsCounted' /\ ClaimsApart'
BY TokensKept, SayingKept DEF NoClaimMade, NoTokenGiven, ClaimsSayTheEnd

\* No lease of a caller with a socket begins.
LEMMA SwarmKept ==
  ASSUME IInv, Kept, NoTokenGiven,
         \A n \in Notices : n[2] \notin Node => (notice'[n].live => notice[n].live)
  PROVE  OneHolderPerSwarm'
<1> SUFFICES ASSUME NEW p \in Pusher, NEW q \in Pusher, NEW c \in push'[p], NEW d \in push'[q],
                    Current(c)', Current(d)', notice'[c.of].live, notice'[d.of].live,
                    (d.of \in Members(c.of))'
             PROVE  p = q
  BY DEF OneHolderPerSwarm
<1>1. c \in push[p] /\ d \in push[q] /\ c \in PushClaims /\ d \in PushClaims
  BY PushedAndPrinted DEF NoTokenGiven
<1>2. c.of \in Notices /\ d.of \in Notices /\ c.of[2] \notin Node /\ d.of[2] \notin Node
      /\ c.token # <<0, 0>> /\ d.token # <<0, 0>>
  BY <1>1, ClaimTypes DEF IInv, ClaimsApart, ClaimsCounted
<1>3. Current(c) /\ Current(d) /\ notice[c.of].live /\ notice[d.of].live
  BY <1>2 DEF Kept, Current, Undelivered, Exists
<1>4. d.of \in Members(c.of)
  BY <1>2 DEF Kept, Members, Exists
<1> QED BY <1>1, <1>3, <1>4 DEF IInv, OneHolderPerSwarm

\* Nobody with a socket gets a lease, so nothing that is shared changes hands.
Calm == /\ Kept /\ NoClaimMade
        /\ \A n \in Notices : n[2] \notin Node => (notice'[n].live => notice[n].live)

\* A step that arms nothing, claims nothing and leases nothing owes only what was said to whom.
LEMMA CalmStep ==
  ASSUME IInv, Calm, TypeOK', SentIsTold', DeliveredWasHeard'
  PROVE  IInv'
BY RowsKept, ClaimsKept, SwarmKept DEF IInv, Calm, NoClaimMade

\* What was sent stays told.
LEMMA SentKept ==
  ASSUME IInv, Calm, \A p \in Pusher : sent'[p] => sent[p] /\ push'[p] = push[p],
         \A n \in Notices : told[n] \subseteq told'[n]
  PROVE  SentIsTold'
<1> SUFFICES ASSUME NEW p \in Pusher, sent'[p], NEW c \in push'[p], Present(c)' PROVE c.phase \in told'[c.of]
  BY DEF IInv, SentIsTold
<1>1. sent[p] /\ c \in push[p] /\ c \in PushClaims
  BY PushedAndPrinted DEF Calm, NoClaimMade, NoTokenGiven
<1>2. c.of \in Notices
  BY <1>1, ClaimTypes DEF IInv
<1>3. Present(c)
  BY <1>2 DEF Calm, Kept, Present
<1> QED BY <1>1, <1>2, <1>3 DEF IInv, SentIsTold

\* What was delivered stays heard, as long as what was told stays told.
LEMMA HeardKept ==
  ASSUME IInv, Calm, \A n \in Notices : notice'[n].delivered => notice[n].delivered,
         \A n \in Notices : lost[n] => lost'[n],
         \A n \in Notices : told[n] \cup Printing(n) \subseteq told'[n] \cup Printing(n)' \/ lost'[n]
  PROVE  DeliveredWasHeard'
<1> SUFFICES ASSUME NEW n \in Notices, Exists(n)', notice'[n].delivered, notice'[n].generation > 0, ~lost'[n]
             PROVE  \E ph \in told'[n] \cup Printing(n)' : phase'[n[1]] \in Final => ph \in Final
  BY DEF DeliveredWasHeard
<1>1. Exists(n) /\ notice[n].delivered /\ notice[n].generation > 0 /\ ~lost[n] /\ phase' = phase
  BY DEF Calm, Kept, Exists
<1>2. PICK ph \in told[n] \cup Printing(n) : phase[n[1]] \in Final => ph \in Final
  BY <1>1 DEF IInv, DeliveredWasHeard
<1> QED BY <1>1, <1>2

\* A current claim is of the present arming, and says what the run has come to.
LEMMA CurrentSays ==
  ASSUME IInv, NEW c \in PushClaims \cup taken, Current(c)
  PROVE  /\ Present(c) /\ c.of \in Notices
         /\ phase[c.of[1]] \in Final \cup {"pruned"} => c.phase \in Final
<1>1. c.of \in Notices /\ c.generation \in Nat /\ c.token \in Nat \X Nat
  BY ClaimTypes DEF IInv
<1>2. c.token[1] = c.generation /\ c.token[2] > 0 /\ notice[c.of].token = c.token
  BY DEF IInv, ClaimsCounted, Current
<1>3. c.token # <<0, 0>>
  BY <1>1, <1>2
<1>4. notice[c.of].token[1] = notice[c.of].generation
  BY <1>1, <1>2, <1>3 DEF IInv, RowsArmed
<1>5. Present(c)
  BY <1>2, <1>4 DEF Present
<1> QED BY <1>1, <1>5 DEF IInv, ClaimsSayTheEnd

-----------------------------------------------------------------------------
(* Time, and the callers.                                                  *)

\* A caller that exits changes no row and no claim.
LEMMA ExitStep ==
  ASSUME IInv, NEW a \in Addr, Exit(a) PROVE IInv'
<1>1. TypeOK'
  BY Types DEF IInv, Exit, TypeOK
<1>2. Calm
  BY DEF Exit, Calm, Kept, NoClaimMade, NoTokenGiven, PrintClaims
<1>3. SentIsTold'
  BY <1>2, SentKept DEF Exit
<1>4. DeliveredWasHeard'
  BY <1>2, HeardKept DEF Exit, Printing, PrintClaims, Present
<1> QED BY <1>1, <1>2, <1>3, <1>4, CalmStep

\* One field of one row, its lease or its age.
Leased(n, b) == notice' = [notice EXCEPT ![n].live = b]
Aged(n) == notice' = [notice EXCEPT ![n].stale = TRUE]

\* A lease and an age are no arming, no claim and no delivery.
LEMMA LeaseOrAge ==
  ASSUME IInv, NEW n \in Notices, NEW b \in BOOLEAN, Leased(n, b) \/ Aged(n)
  PROVE  /\ notice' \in [Notices -> Record]
         /\ \A m \in Notices :
              /\ notice'[m].row = notice[m].row /\ notice'[m].ready = notice[m].ready
              /\ notice'[m].generation = notice[m].generation /\ notice'[m].armed = notice[m].armed
              /\ notice'[m].claims = notice[m].claims /\ notice'[m].token = notice[m].token
              /\ notice'[m].delivered = notice[m].delivered
              /\ notice'[m].live => notice[m].live \/ (m = n /\ b)
<1>1. notice \in [Notices -> Record] /\ notice[n] \in Record
  BY Types DEF IInv
<1> DEFINE Same(x, y) ==
      /\ y \in Record
      /\ y.row = x.row /\ y.ready = x.ready /\ y.generation = x.generation /\ y.armed = x.armed
      /\ y.claims = x.claims /\ y.token = x.token /\ y.delivered = x.delivered
<1>2. \A x \in Record : Same(x, [x EXCEPT !.live = b]) /\ [x EXCEPT !.live = b].live = b
  BY DEF Record
<1>3. \A x \in Record : Same(x, [x EXCEPT !.stale = TRUE]) /\ [x EXCEPT !.stale = TRUE].live = x.live
  BY DEF Record
<1>4. \A x \in Record : Same(x, x)
  OBVIOUS
<1>5. CASE Leased(n, b)
  <2> DEFINE y == [notice[n] EXCEPT !.live = b]
  <2>1. Same(notice[n], y) /\ y.live = b
    BY <1>1, <1>2
  <2>2. notice' = [notice EXCEPT ![n] = y]
    BY <1>5 DEF Leased
  <2> HIDE DEF y
  <2> QED BY <1>1, <1>4, <1>5, <2>1, <2>2
<1>6. CASE Aged(n)
  <2> DEFINE y == [notice[n] EXCEPT !.stale = TRUE]
  <2>1. Same(notice[n], y) /\ y.live = notice[n].live
    BY <1>1, <1>3
  <2>2. notice' = [notice EXCEPT ![n] = y]
    BY <1>6 DEF Aged
  <2> HIDE DEF y
  <2> QED BY <1>1, <1>4, <2>1, <2>2
<1> QED BY <1>5, <1>6

\* Time frees rows; it delivers none.
LEMMA LapseOrGrowStaleStep ==
  ASSUME IInv, NEW n \in Notices, Lapse(n) \/ GrowStale(n) PROVE IInv'
<1>1. (Leased(n, FALSE) \/ Aged(n)) /\ UNCHANGED <<run, alive, push, sent, drain, taken, told, lost>>
  BY DEF Lapse, GrowStale, Leased, Aged
<1>2. notice' \in [Notices -> Record] /\ Kept
      /\ \A m \in Notices : /\ notice'[m].delivered = notice[m].delivered
                            /\ notice'[m].live => notice[m].live
  BY <1>1, LeaseOrAge DEF Kept
<1>3. TypeOK'
  BY <1>1, <1>2, Types DEF IInv, TypeOK, Record
<1>4. Calm
  BY <1>1, <1>2 DEF Calm, NoClaimMade, NoTokenGiven, PrintClaims
<1>5. SentIsTold'
  BY <1>1, <1>4, SentKept
<1>6. DeliveredWasHeard'
  <2>1. \A m \in Notices : Printing(m) \subseteq Printing(m)'
    <3>1. \A c \in PrintClaims : Present(c) => Present(c)'
      BY <1>2, ClaimTypes DEF IInv, Kept, Present
    <3> QED BY <1>1, <3>1 DEF Printing, PrintClaims
  <2> QED BY <1>1, <1>2, <1>4, <2>1, HeardKept
<1> QED BY <1>3, <1>4, <1>5, <1>6, CalmStep

-----------------------------------------------------------------------------
(* Telling: pushers, drains and the host.                                  *)

\* What a reader has heard after a message.
LEMMA HeardOf ==
  ASSUME TypeOK, NEW cs \in SUBSET Claims
  PROVE  /\ Heard(cs) \in [Notices -> SUBSET Phases]
         /\ \A n \in Notices : told[n] \subseteq Heard(cs)[n]
         /\ \A c \in cs : Present(c) => c.phase \in Heard(cs)[c.of]
<1>1. \A c \in cs : c.of \in Notices /\ c.phase \in Phases
  BY DEF Claims
<1>2. told \in [Notices -> SUBSET Phases]
  BY Types
<1> QED BY <1>1, <1>2 DEF Heard

\* A send tells what the claim says, whether or not the caller answers.
LEMMA SendStep ==
  ASSUME IInv, NEW p \in Pusher, Send(p) PROVE IInv'
<1>0. push[p] \in SUBSET Claims /\ sent \in [Pusher -> BOOLEAN]
  BY Types DEF IInv
<1>1. /\ told' \in [Notices -> SUBSET Phases]
      /\ \A n \in Notices : told[n] \subseteq told'[n]
      /\ \A c \in push[p] : Present(c) => c.phase \in told'[c.of]
  BY <1>0, HeardOf DEF IInv, Send
<1>2. TypeOK'
  BY <1>0, <1>1, Types DEF IInv, Send, TypeOK
<1>3. Calm
  BY DEF Send, Calm, Kept, NoClaimMade, NoTokenGiven, PrintClaims
<1>4. SentIsTold'
  <2>0. \A q \in Pusher : sent'[q] => push'[q] # {}
    BY <1>0 DEF IInv, SentIsTold, Send
  <2> SUFFICES ASSUME NEW q \in Pusher, sent'[q], NEW c \in push[q], Present(c) PROVE c.phase \in told'[c.of]
    BY <2>0 DEF SentIsTold, Send, Present
  <2>1. CASE q = p
    BY <1>1, <2>1
  <2>2. CASE q # p
    <3>1. sent[q] /\ c \in PushClaims
      BY <1>0, <2>2, PushedAndPrinted DEF Send
    <3> QED BY <1>1, <3>1, ClaimTypes DEF IInv, SentIsTold
  <2> QED BY <2>1, <2>2
<1>5. DeliveredWasHeard'
  BY <1>1, <1>3, HeardKept DEF Send, Printing, PrintClaims, Present
<1> QED BY <1>2, <1>3, <1>4, <1>5, CalmStep

\* A delivery of notices that were heard.
LEMMA DeliverStep ==
  ASSUME IInv, NEW ns, notice' = Deliver(ns), NoClaimMade, TypeOK', PrintClaims' = PrintClaims,
         UNCHANGED <<run, drain, told, lost>>, \A p \in Pusher : sent'[p] => sent[p] /\ push'[p] = push[p],
         \A n \in ns : \E ph \in told[n] : phase[n[1]] \in Final => ph \in Final
  PROVE  IInv'
<1>1. Calm
  BY DeliverFields DEF IInv, Calm, Kept
<1>2. SentIsTold'
  BY <1>1, SentKept
<1>3. DeliveredWasHeard'
  <2> SUFFICES ASSUME NEW n \in Notices, Exists(n)', notice'[n].delivered, notice'[n].generation > 0, ~lost[n]
               PROVE  \E ph \in told[n] \cup Printing(n)' : phase[n[1]] \in Final => ph \in Final
    BY DEF DeliveredWasHeard
  <2>1. CASE n \in ns
    BY <2>1
  <2>2. CASE n \notin ns
    <3>1. Exists(n) /\ notice[n].delivered /\ notice[n].generation > 0
      BY <2>2, DeliverFields DEF IInv, Exists
    <3>2. Printing(n) \subseteq Printing(n)'
      <4>1. \A c \in PrintClaims : Present(c) => Present(c)'
        BY <1>1, ClaimTypes DEF IInv, Calm, Kept, Present
      <4> QED BY <4>1 DEF Printing
    <3>3. PICK ph \in told[n] \cup Printing(n) : phase[n[1]] \in Final => ph \in Final
      BY <3>1 DEF IInv, DeliveredWasHeard
    <3> QED BY <3>2, <3>3
  <2> QED BY <2>1, <2>2
<1> QED BY <1>1, <1>2, <1>3, CalmStep

\* A mark is of the claims that were sent and are still current.
LEMMA MarkStep ==
  ASSUME IInv, NEW p \in Pusher, Mark(p) PROVE IInv'
<1>0. push \in [Pusher -> SUBSET Claims] /\ sent \in [Pusher -> BOOLEAN]
  BY Types DEF IInv
<1>1. /\ notice' = Deliver(Marked(p)) /\ sent[p]
      /\ push' = [push EXCEPT ![p] = {}] /\ sent' = [sent EXCEPT ![p] = FALSE]
      /\ UNCHANGED <<run, alive, drain, taken, told, lost>>
  BY DEF Mark
<1>2. TypeOK'
  <2>1. notice' \in [Notices -> Record]
    BY <1>1, DeliverFields DEF IInv
  <2>2. push' \in [Pusher -> SUBSET Claims] /\ sent' \in [Pusher -> BOOLEAN]
    BY <1>0, <1>1
  <2> QED BY <1>1, <2>1, <2>2, Types DEF IInv, TypeOK, Record
<1>3. NoClaimMade /\ PrintClaims' = PrintClaims /\ \A q \in Pusher : sent'[q] => sent[q] /\ push'[q] = push[q]
  BY <1>0, <1>1 DEF NoClaimMade, NoTokenGiven, PrintClaims
<1>4. ASSUME NEW n \in Marked(p) PROVE \E ph \in told[n] : phase[n[1]] \in Final => ph \in Final
  <2>1. PICK c \in push[p] : c.of = n /\ Current(c)
    BY DEF Marked
  <2>2. Present(c) /\ phase[n[1]] \in Final => c.phase \in Final
    BY <2>1, CurrentSays, PushedAndPrinted
  <2>3. c \in PushClaims
    BY <2>1, PushedAndPrinted
  <2>4. c.phase \in told[n]
    BY <1>1, <2>1, <2>3, CurrentSays DEF IInv, SentIsTold
  <2> QED BY <2>2, <2>3, <2>4, <2>1, CurrentSays
<1> QED BY <1>1, <1>2, <1>3, <1>4, DeliverStep

\* A pusher that dies leaves its claims behind.
LEMMA GiveUpStep ==
  ASSUME IInv, NEW p \in Pusher, GiveUp(p) PROVE IInv'
<1>0. push \in [Pusher -> SUBSET Claims] /\ sent \in [Pusher -> BOOLEAN]
  BY Types DEF IInv
<1>1. TypeOK'
  BY <1>0, Types DEF IInv, GiveUp, TypeOK
<1>2. Calm
  BY <1>0 DEF GiveUp, Calm, Kept, NoClaimMade, NoTokenGiven, PrintClaims
<1>3. SentIsTold'
  BY <1>0, <1>2, SentKept DEF GiveUp
<1>4. DeliveredWasHeard'
  BY <1>2, HeardKept DEF GiveUp, Printing, PrintClaims, Present
<1> QED BY <1>1, <1>2, <1>3, <1>4, CalmStep

\* A look claims nothing.
LEMMA DrainLookStep ==
  ASSUME IInv, NEW d \in Drainer, DrainLook(d) PROVE IInv'
<1>0. drain \in [Drainer -> Drain]
  BY Types DEF IInv
<1>1. PICK ns \in SUBSET Notices : drain' = [drain EXCEPT ![d] = [pc |-> "looked", of |-> ns]]
  BY DEF DrainLook
<1>2. drain' \in [Drainer -> Drain]
  BY <1>0, <1>1 DEF Drain
<1>3. TypeOK'
  BY <1>2, Types DEF IInv, DrainLook, TypeOK, Drain
<1>4. PrintClaims' = PrintClaims
  <2>1. \A c : c \in PrintClaims' <=> c \in PrintClaims
    BY <1>0, <1>1, PushedAndPrinted, PushedAndPrintedNext DEF DrainLook
  <2> QED BY <2>1 DEF PrintClaims
<1>5. Calm
  BY <1>4 DEF DrainLook, Calm, Kept, NoClaimMade, NoTokenGiven
<1>6. SentIsTold'
  BY <1>5, SentKept DEF DrainLook
<1>7. DeliveredWasHeard'
  BY <1>4, <1>5, HeardKept DEF DrainLook, Printing, Present
<1> QED BY <1>3, <1>5, <1>6, <1>7, CalmStep

\* A fresh claim is of its notice and of the present arming.
LEMMA FreshClaimOf ==
  ASSUME IInv, NEW n \in Notices
  PROVE  Claim(n).of = n /\ Claim(n).generation = notice[n].generation
<1>1. TypeOK
  BY DEF IInv
<1> QED BY <1>1, ClaimOf, Zenon

\* What a fresh claim says: the run's end, if the run is over.
LEMMA FreshClaimSays ==
  ASSUME IInv, NEW n \in Notices, Undelivered(n)
  PROVE  /\ Claim(n).generation > 0 /\ Claim(n).of = n
         /\ phase[n[1]] \in Final \cup {"pruned"} => Claim(n).phase \in Final
<1>0. TypeOK
  BY DEF IInv
<1>1. Claim(n).of = n /\ Claim(n).generation = notice[n].generation /\ Claim(n).phase = PhaseOf(n)
  BY <1>0, ClaimOf, Zenon
<1>2. Claim(n).generation > 0
  BY <1>1 DEF IInv, RowsArmed
<1>3. phase[n[1]] \in Final => PhaseOf(n) \in Final
  BY DEF PhaseOf, Said, Rows, Terminal, Final
<1>4. phase[n[1]] = "pruned" => PhaseOf(n) \in Final
  BY DEF IInv, EndedIsArmed, Undelivered, PhaseOf, Rows, Terminal, Final
<1> QED BY <1>1, <1>2, <1>3, <1>4

\* A drain delivers under claims of its own before it prints them.
LEMMA DrainTakeStep ==
  ASSUME IInv, NEW d \in Drainer, DrainTake(d) PROVE IInv'
<1> DEFINE ns == Drained(drain[d].of)
<1>0. drain \in [Drainer -> Drain] /\ drain[d].pc = "looked"
  BY Types DEF IInv, DrainTake
<1>1. /\ notice' = Deliver(ns)
      /\ drain' = [drain EXCEPT ![d] = [pc |-> "print", of |-> {Claim(n) : n \in ns}]]
      /\ UNCHANGED <<run, alive, push, sent, taken, told, lost>>
  BY DEF DrainTake
<1>2. ns \subseteq Notices /\ \A n \in ns : Undelivered(n)
  BY DEF Drained, Free
<1> HIDE DEF ns
<1>3. TypeOK'
  <2>1. {Claim(n) : n \in ns} \in SUBSET Claims
    BY <1>2, ClaimOf DEF IInv
  <2>2. drain' \in [Drainer -> Drain]
    BY <1>0, <1>1, <2>1 DEF Drain
  <2>3. notice' \in [Notices -> Record]
    BY <1>1, DeliverFields DEF IInv
  <2> QED BY <1>1, <2>2, <2>3, Types DEF IInv, TypeOK, Record, Drain
<1>4. Kept /\ NoTokenGiven
      /\ \A n \in Notices : notice'[n].live => notice[n].live
  BY <1>1, DeliverFields DEF IInv, Kept, NoTokenGiven
<1>5. \A c : c \in PrintClaims' <=> c \in PrintClaims \/ \E n \in ns : c = Claim(n)
  BY <1>0, <1>1, PushedAndPrinted, PushedAndPrintedNext
<1>6. ClaimsSayTheEnd'
  <2> SUFFICES ASSUME NEW c \in PushClaims' \cup PrintClaims' \cup taken'
               PROVE  /\ c.generation > 0 /\ notice'[c.of].row # "no"
                      /\ Exists(c.of)' => c.generation <= notice'[c.of].generation
                      /\ Present(c)' /\ phase'[c.of[1]] \in Final \cup {"pruned"} => c.phase \in Final
    BY DEF ClaimsSayTheEnd
  <2>1. CASE c \in PushClaims \cup PrintClaims \cup taken
    BY <1>4, <2>1, SayingKept
  <2>2. CASE \E n \in ns : c = Claim(n)
    <3>1. PICK n \in ns : c = Claim(n)
      BY <2>2
    <3>2. n \in Notices /\ Undelivered(n) /\ notice[n].row = "yes"
      BY <1>2 DEF Undelivered, Exists
    <3>3. /\ c.of = n /\ c.generation = notice[n].generation /\ c.generation > 0
          /\ phase[n[1]] \in Final \cup {"pruned"} => c.phase \in Final
      BY <3>1, <3>2, ClaimOf, FreshClaimSays DEF IInv
    <3>4. notice[n].generation \in Nat
      BY <3>2, GenerationsInNat, Types DEF IInv, Record
    <3> QED BY <1>4, <3>2, <3>3, <3>4 DEF Kept
  <2>3. PushClaims' = PushClaims /\ taken' = taken
    BY <1>1 DEF PushClaims
  <2> QED BY <1>5, <2>1, <2>2, <2>3
<1>7. SentIsTold'
  <2>1. \A c \in PushClaims : Present(c)' => Present(c)
    BY <1>4, ClaimTypes DEF IInv, Kept, Present
  <2> QED BY <1>1, <2>1, PushedAndPrinted DEF IInv, SentIsTold
<1>8. DeliveredWasHeard'
  <2> SUFFICES ASSUME NEW n \in Notices, Exists(n)', notice'[n].delivered, notice'[n].generation > 0, ~lost[n]
               PROVE  \E ph \in told[n] \cup Printing(n)' : phase[n[1]] \in Final => ph \in Final
    BY <1>1 DEF DeliveredWasHeard
  <2>1. CASE n \in ns
    <3>1. Claim(n).of = n /\ Claim(n).generation = notice'[n].generation /\ Claim(n) \in PrintClaims'
          /\ (phase[n[1]] \in Final => Claim(n).phase \in Final)
      BY <1>2, <1>4, <1>5, <2>1, ClaimOf, FreshClaimSays DEF IInv, Kept
    <3>2. Claim(n).phase \in Printing(n)'
      BY <3>1, PushedAndPrintedNext DEF Present
    <3> QED BY <3>1, <3>2
  <2>2. CASE n \notin ns
    <3>1. Exists(n) /\ notice[n].delivered /\ notice[n].generation > 0
      BY <1>1, <2>2, DeliverFields DEF IInv, Exists
    <3>2. Printing(n) \subseteq Printing(n)'
      <4>1. \A c \in PrintClaims : Present(c) => Present(c)'
        BY <1>4, ClaimTypes DEF IInv, Kept, Present
      <4> QED BY <1>5, <4>1 DEF Printing
    <3>3. PICK ph \in told[n] \cup Printing(n) : phase[n[1]] \in Final => ph \in Final
      BY <3>1 DEF IInv, DeliveredWasHeard
    <3> QED BY <3>2, <3>3
  <2> QED BY <2>1, <2>2
<1>9. ArmingsCounted' /\ RowsArmed' /\ EndedIsArmed' /\ OwedNodeNoticeIsNamed'
      /\ ClaimsCounted' /\ ClaimsApart' /\ OneHolderPerSwarm'
  BY <1>4, RowsKept, TokensKept, SwarmKept
<1> QED BY <1>3, <1>6, <1>7, <1>8, <1>9 DEF IInv

\* A drain that is done, whatever became of its batch.
LEMMA DrainEnds ==
  ASSUME TypeOK, NEW d \in Drainer, drain' = [drain EXCEPT ![d] = [pc |-> "idle", of |-> {}]]
  PROVE  /\ drain' \in [Drainer -> Drain]
         /\ PrintClaims' \subseteq PrintClaims
         /\ \A c \in PrintClaims : c \in PrintClaims' \/ (drain[d].pc = "print" /\ c \in drain[d].of)
<1>0. drain \in [Drainer -> Drain]
  BY Types
<1>1. drain' \in [Drainer -> Drain]
  BY <1>0 DEF Drain
<1>2. \A e \in Drainer : drain'[e] = IF e = d THEN [pc |-> "idle", of |-> {}] ELSE drain[e]
  BY <1>0
<1> QED BY <1>1, <1>2, PushedAndPrinted, PushedAndPrintedNext

\* What is printed was claimed under the present arming, or the row was armed since.
LEMMA DrainPrintStep ==
  ASSUME IInv, NEW d \in Drainer, DrainPrint(d) PROVE IInv'
<1>0. drain[d].of \in SUBSET Claims /\ drain[d].pc = "print"
  <2>1. drain[d] \in Drain /\ drain[d].pc = "print"
    BY Types DEF IInv, DrainPrint
  <2> QED BY <2>1 DEF Drain
<1>1. /\ told' = Heard(drain[d].of) /\ drain' = [drain EXCEPT ![d] = [pc |-> "idle", of |-> {}]]
      /\ UNCHANGED <<run, notice, alive, push, sent, taken, lost>>
  BY DEF DrainPrint
<1>2. /\ told' \in [Notices -> SUBSET Phases]
      /\ \A n \in Notices : told[n] \subseteq told'[n]
      /\ \A c \in drain[d].of : Present(c) => c.phase \in told'[c.of]
  BY <1>0, <1>1, HeardOf DEF IInv
<1>3. TypeOK'
  BY <1>1, <1>2, DrainEnds, Types DEF IInv, TypeOK, Drain
<1>4. Calm
  BY <1>1, DrainEnds DEF IInv, Calm, Kept, NoClaimMade, NoTokenGiven
<1>5. SentIsTold'
  BY <1>1, <1>2, <1>4, SentKept
<1>6. DeliveredWasHeard'
  <2>1. ASSUME NEW n \in Notices PROVE Printing(n) \subseteq told'[n] \cup Printing(n)'
    <3> SUFFICES ASSUME NEW c \in PrintClaims, c.of = n, Present(c)
                 PROVE  c.phase \in told'[n] \cup Printing(n)'
      BY PushedAndPrinted
    <3>1. CASE c \in drain[d].of
      BY <1>2, <3>1
    <3>2. CASE c \in PrintClaims'
      BY <1>1, <3>2, PushedAndPrintedNext DEF Present
    <3> QED BY <1>1, <3>1, <3>2, DrainEnds DEF IInv
  <2> QED BY <1>1, <1>2, <1>4, <2>1, HeardKept
<1> QED BY <1>3, <1>4, <1>5, <1>6, CalmStep

\* A drain that is killed loses what it had delivered, and the model says so.
LEMMA DrainKillStep ==
  ASSUME IInv, NEW d \in Drainer, DrainKill(d) PROVE IInv'
<1>1. /\ drain' = [drain EXCEPT ![d] = [pc |-> "idle", of |-> {}]]
      /\ UNCHANGED <<run, notice, alive, push, sent, taken, told>>
  BY DEF DrainKill
<1>2. /\ lost' \in [Notices -> BOOLEAN] /\ \A n \in Notices : lost[n] => lost'[n]
      /\ \A c \in PrintClaims : Present(c) => c \in PrintClaims' \/ lost'[c.of]
  <2>0. lost \in [Notices -> BOOLEAN]
    BY Types DEF IInv
  <2>1. CASE drain[d].pc = "looked"
    BY <1>1, <2>0, <2>1, DrainEnds DEF IInv, DrainKill
  <2>2. CASE drain[d].pc # "looked"
    <3>1. lost' = [n \in Notices |-> lost[n] \/ \E c \in drain[d].of : c.of = n /\ Present(c)]
      BY <2>2 DEF DrainKill
    <3>2. lost' \in [Notices -> BOOLEAN] /\ \A n \in Notices : lost[n] => lost'[n]
      BY <2>0, <3>1
    <3>3. \A c \in drain[d].of : c.of \in Notices /\ Present(c) => lost'[c.of]
      BY <3>1
    <3> QED BY <1>1, <3>2, <3>3, DrainEnds, ClaimTypes DEF IInv
  <2> QED BY <2>1, <2>2
<1>3. TypeOK'
  BY <1>1, <1>2, DrainEnds, Types DEF IInv, TypeOK, Drain
<1>4. Calm
  BY <1>1, DrainEnds DEF IInv, Calm, Kept, NoClaimMade, NoTokenGiven
<1>5. SentIsTold'
  BY <1>1, <1>4, SentKept
<1>6. DeliveredWasHeard'
  <2>1. ASSUME NEW n \in Notices, ~lost'[n] PROVE Printing(n) \subseteq Printing(n)'
    <3> SUFFICES ASSUME NEW c \in PrintClaims, c.of = n, Present(c) PROVE c.phase \in Printing(n)'
      BY PushedAndPrinted
    <3> QED BY <1>1, <1>2, <2>1, PushedAndPrintedNext DEF Present
  <2> QED BY <1>1, <1>2, <1>4, <2>1, HeardKept
<1> QED BY <1>3, <1>4, <1>5, <1>6, CalmStep

\* The host tells what it took.
LEMMA HostTellStep ==
  ASSUME IInv, NEW c \in taken, HostTell(c) PROVE IInv'
<1>0. {c} \in SUBSET Claims
  BY Types DEF IInv
<1>1. told' = Heard({c}) /\ UNCHANGED <<run, notice, alive, push, sent, drain, taken, lost>>
  BY DEF HostTell
<1>2. told' \in [Notices -> SUBSET Phases] /\ \A n \in Notices : told[n] \subseteq told'[n]
  BY <1>0, <1>1, HeardOf DEF IInv
<1>3. TypeOK'
  BY <1>1, <1>2, Types DEF IInv, TypeOK
<1>4. Calm
  BY <1>1 DEF Calm, Kept, NoClaimMade, NoTokenGiven, PrintClaims
<1>5. SentIsTold'
  BY <1>1, <1>2, <1>4, SentKept
<1>6. DeliveredWasHeard'
  <2>1. \A n \in Notices : Printing(n)' = Printing(n)
    BY <1>1 DEF Printing, PrintClaims, Present
  <2> QED BY <1>1, <1>2, <1>4, <2>1, HeardKept
<1> QED BY <1>3, <1>4, <1>5, <1>6, CalmStep

\* The host lets go of a claim.
LEMMA ForgetStep ==
  ASSUME IInv, UNCHANGED <<run, notice, alive, push, sent, drain, told, lost>>, taken' \subseteq taken
  PROVE  IInv'
<1>1. TypeOK'
  BY Types DEF IInv, TypeOK
<1>2. Calm
  BY DEF Calm, Kept, NoClaimMade, NoTokenGiven, PrintClaims
<1>3. SentIsTold'
  BY <1>2, SentKept
<1>4. DeliveredWasHeard'
  BY <1>2, HeardKept DEF Printing, PrintClaims, Present
<1> QED BY <1>1, <1>2, <1>3, <1>4, CalmStep

\* An acknowledgement delivers what its claim still holds, and what it told.
LEMMA AckStep ==
  ASSUME IInv, NEW c \in taken, Ack(c) PROVE IInv'
<1>1. /\ notice' = (IF HeldByHost(c) THEN Deliver({c.of}) ELSE notice) /\ taken' = taken \ {c}
      /\ UNCHANGED <<run, alive, push, sent, drain, told, lost>>
  BY DEF Ack
<1>2. CASE ~HeldByHost(c)
  BY <1>1, <1>2, ForgetStep
<1>3. CASE HeldByHost(c)
  <2>1. Current(c) /\ notice' = Deliver({c.of})
    BY <1>1, <1>3 DEF HeldByHost
  <2>2. c.phase \in told[c.of] /\ (phase[c.of[1]] \in Final => c.phase \in Final)
    BY <2>1, CurrentSays DEF Ack
  <2>3. TypeOK'
    BY <1>1, <2>1, DeliverFields, Types DEF IInv, TypeOK, Record
  <2>4. NoClaimMade /\ PrintClaims' = PrintClaims
    BY <1>1 DEF NoClaimMade, NoTokenGiven, PrintClaims
  <2> QED BY <1>1, <2>1, <2>2, <2>3, <2>4, DeliverStep
<1> QED BY <1>2, <1>3

\* A renewal leases a row to the host that holds it.
LEMMA RenewStep ==
  ASSUME IInv, NEW c \in taken, Renew(c) PROVE IInv'
<1>0. c.of \in Notices /\ c.of[2] \in Node
  BY ClaimTypes DEF IInv, ClaimsApart
<1>1. Leased(c.of, TRUE) /\ UNCHANGED <<run, alive, push, sent, drain, taken, told, lost>>
  BY DEF Renew, Leased
<1>2. notice' \in [Notices -> Record] /\ Kept
      /\ \A m \in Notices : /\ notice'[m].delivered = notice[m].delivered
                            /\ notice'[m].live => notice[m].live \/ m = c.of
  <2> DEFINE n == c.of
  <2>1. n \in Notices /\ Leased(n, TRUE)
    BY <1>0, <1>1
  <2> HIDE DEF n
  <2>2. /\ notice' \in [Notices -> Record]
        /\ \A m \in Notices :
             /\ notice'[m].row = notice[m].row /\ notice'[m].ready = notice[m].ready
             /\ notice'[m].generation = notice[m].generation /\ notice'[m].armed = notice[m].armed
             /\ notice'[m].claims = notice[m].claims /\ notice'[m].token = notice[m].token
             /\ notice'[m].delivered = notice[m].delivered
             /\ notice'[m].live => notice[m].live \/ m = n
    BY <2>1, LeaseOrAge, Zenon
  <2> QED BY <1>1, <2>2 DEF Kept, n
<1>3. TypeOK'
  BY <1>1, <1>2, Types DEF IInv, TypeOK, Record
<1>4. Calm
  BY <1>0, <1>1, <1>2 DEF Calm, NoClaimMade, NoTokenGiven, PrintClaims
<1>5. SentIsTold'
  BY <1>1, <1>4, SentKept
<1>6. DeliveredWasHeard'
  <2>1. \A m \in Notices : Printing(m) \subseteq Printing(m)'
    <3>1. \A x \in PrintClaims : Present(x) => Present(x)'
      BY <1>2, ClaimTypes DEF IInv, Kept, Present
    <3> QED BY <1>1, <3>1 DEF Printing, PrintClaims
  <2> QED BY <1>1, <1>2, <1>4, <2>1, HeardKept
<1> QED BY <1>3, <1>4, <1>5, <1>6, CalmStep

\* A release leaves the rows it gives back without a lease and without a token.
LEMMA ReleaseFields ==
  ASSUME IInv, Release
  PROVE  /\ UNCHANGED <<run, alive, push, sent, drain, taken, told, lost>>
         /\ notice' \in [Notices -> Record]
         /\ \A n \in Notices :
              /\ notice'[n].row = notice[n].row /\ notice'[n].ready = notice[n].ready
              /\ notice'[n].generation = notice[n].generation /\ notice'[n].armed = notice[n].armed
              /\ notice'[n].claims = notice[n].claims /\ notice'[n].token \in {notice[n].token, <<0, 0>>}
              /\ notice'[n].delivered = notice[n].delivered
              /\ notice'[n].live => notice[n].live
<1>0. notice \in [Notices -> Record]
  BY Types DEF IInv
<1>1. PICK held \in SUBSET Notices :
        notice' = [n \in Notices |-> IF n \in held THEN [notice[n] EXCEPT !.live = FALSE, !.token = <<0, 0>>]
                                     ELSE notice[n]]
  BY DEF Release
<1>2. UNCHANGED <<run, alive, push, sent, drain, taken, told, lost>>
  BY DEF Release
<1>3. \A n \in Notices : [notice[n] EXCEPT !.live = FALSE, !.token = <<0, 0>>] \in Record
  <2> SUFFICES ASSUME NEW n \in Notices PROVE [notice[n] EXCEPT !.live = FALSE, !.token = <<0, 0>>] \in Record
    OBVIOUS
  <2>1. <<0, 0>> \in Tokens /\ notice[n] \in Record
    BY <1>0, GenerationsInNat
  <2> QED BY <2>1, RowReleased, Zenon
<1>4. notice' \in [Notices -> Record]
  BY <1>0, <1>1, <1>3
<1>5. \A n \in Notices :
        /\ notice'[n].row = notice[n].row /\ notice'[n].ready = notice[n].ready
        /\ notice'[n].generation = notice[n].generation /\ notice'[n].armed = notice[n].armed
        /\ notice'[n].claims = notice[n].claims /\ notice'[n].token \in {notice[n].token, <<0, 0>>}
        /\ notice'[n].delivered = notice[n].delivered
        /\ notice'[n].live => notice[n].live
  <2> SUFFICES ASSUME NEW n \in Notices
               PROVE  /\ notice'[n].row = notice[n].row /\ notice'[n].ready = notice[n].ready
                      /\ notice'[n].generation = notice[n].generation /\ notice'[n].armed = notice[n].armed
                      /\ notice'[n].claims = notice[n].claims /\ notice'[n].token \in {notice[n].token, <<0, 0>>}
                      /\ notice'[n].delivered = notice[n].delivered
                      /\ notice'[n].live => notice[n].live
    OBVIOUS
  <2>1. CASE n \in held
    <3>1. notice'[n] = [notice[n] EXCEPT !.live = FALSE, !.token = <<0, 0>>]
      BY <1>1, <2>1
    <3>2. notice[n] \in Record
      BY <1>0
    <3> QED BY <3>1, <3>2 DEF Record
  <2>2. CASE n \notin held
    BY <1>1, <2>2
  <2> QED BY <2>1, <2>2
<1> QED BY <1>2, <1>4, <1>5

\* What is given back is armed and told as it was.
LEMMA ReleaseStep ==
  ASSUME IInv, Release PROVE IInv'
<1>1. /\ UNCHANGED <<run, alive, push, sent, drain, taken, told, lost>>
      /\ notice' \in [Notices -> Record]
      /\ \A n \in Notices :
           /\ notice'[n].row = notice[n].row /\ notice'[n].ready = notice[n].ready
           /\ notice'[n].generation = notice[n].generation /\ notice'[n].armed = notice[n].armed
           /\ notice'[n].claims = notice[n].claims /\ notice'[n].token \in {notice[n].token, <<0, 0>>}
           /\ notice'[n].delivered = notice[n].delivered
           /\ notice'[n].live => notice[n].live
  BY ReleaseFields
<1>2. TypeOK'
  BY <1>1, Types DEF IInv, TypeOK, Record
<1>3. Calm
  BY <1>1 DEF Calm, Kept, NoClaimMade, NoTokenGiven, PrintClaims
<1>4. SentIsTold'
  BY <1>1, <1>3, SentKept
<1>5. DeliveredWasHeard'
  <2>1. \A m \in Notices : Printing(m) \subseteq Printing(m)'
    <3>1. \A x \in PrintClaims : Present(x) => Present(x)'
      BY <1>1, ClaimTypes DEF IInv, Present
    <3> QED BY <1>1, <3>1 DEF Printing, PrintClaims
  <2> QED BY <1>1, <1>3, <2>1, HeardKept
<1> QED BY <1>2, <1>3, <1>4, <1>5, CalmStep

-----------------------------------------------------------------------------
(* Claiming: a pusher's batch, and the host's notice.                      *)

\* Free notices are claimed: the rows are as they were but for the tokens, and no other claim counts less.
Claiming(ns) ==
  /\ ns \subseteq Notices /\ \A n \in ns : Free(n)
  /\ notice' = [n \in Notices |-> IF n \in ns THEN Claimed(n) ELSE notice[n]]
  /\ UNCHANGED <<run, drain, told, lost>>

\* What a claim of these rows writes: their tokens, their counts and their leases.
LEMMA ClaimingRows ==
  ASSUME IInv, NEW ns, Claiming(ns)
  PROVE  /\ notice' \in [Notices -> Record]
         /\ \A n \in Notices :
              /\ notice'[n].row = notice[n].row /\ notice'[n].ready = notice[n].ready
              /\ notice'[n].generation = notice[n].generation /\ notice'[n].armed = notice[n].armed
              /\ notice'[n].delivered = notice[n].delivered
              /\ n \in ns => /\ notice'[n].claims = notice[n].claims + 1
                             /\ notice'[n].token = <<notice[n].generation, notice[n].claims + 1>>
              /\ n \notin ns => notice'[n] = notice[n]
         /\ ArmingsCounted' /\ RowsArmed' /\ EndedIsArmed' /\ OwedNodeNoticeIsNamed' /\ DeliveredWasHeard'
<1>0. notice \in [Notices -> Record]
  BY Types DEF IInv
<1>1. notice' \in [Notices -> Record]
  BY <1>0, ClaimOf DEF IInv, Claiming
<1>2. \A n \in Notices :
        /\ notice'[n].row = notice[n].row /\ notice'[n].ready = notice[n].ready
        /\ notice'[n].generation = notice[n].generation /\ notice'[n].armed = notice[n].armed
        /\ notice'[n].delivered = notice[n].delivered
        /\ n \in ns => /\ notice'[n].claims = notice[n].claims + 1
                       /\ notice'[n].token = <<notice[n].generation, notice[n].claims + 1>>
        /\ n \notin ns => notice'[n] = notice[n]
  BY <1>0, ClaimedFields DEF IInv, Claiming
<1>3. ArmingsCounted'
  BY <1>2 DEF IInv, Claiming, ArmingsCounted, Armings
<1>4. RowsArmed'
  <2> SUFFICES ASSUME NEW n \in Notices
               PROVE  /\ notice'[n].row # "no" => phase[n[1]] # "none"
                      /\ ~Exists(n)' => notice'[n].generation = 0
                      /\ Undelivered(n)' => notice'[n].generation > 0
                      /\ notice'[n].token # <<0, 0>> => /\ notice'[n].token[1] = notice'[n].generation
                                                        /\ notice'[n].token[2] \in 1..notice'[n].claims
    BY DEF RowsArmed, Claiming
  <2>1. /\ notice[n].row # "no" => phase[n[1]] # "none"
        /\ ~Exists(n) => notice[n].generation = 0
        /\ Undelivered(n) => notice[n].generation > 0
        /\ notice[n].token # <<0, 0>> => /\ notice[n].token[1] = notice[n].generation
                                         /\ notice[n].token[2] \in 1..notice[n].claims
    BY DEF IInv, RowsArmed
  <2>2. notice[n].claims \in Nat
    BY <1>0 DEF Record
  <2> QED BY <1>2, <2>1, <2>2 DEF Exists, Undelivered
<1>5. EndedIsArmed' /\ OwedNodeNoticeIsNamed'
  BY <1>2 DEF IInv, Claiming, EndedIsArmed, OwedNodeNoticeIsNamed, Exists
<1>6. DeliveredWasHeard'
  <2>1. \A c \in PrintClaims : Present(c) => Present(c)'
    BY <1>2, ClaimTypes DEF IInv, Present
  <2>2. \A n \in Notices : Printing(n) \subseteq Printing(n)'
    BY <2>1 DEF Claiming, Printing, PrintClaims
  <2> QED BY <1>2, <2>2 DEF IInv, Claiming, DeliveredWasHeard, Exists
<1> QED BY <1>1, <1>2, <1>3, <1>4, <1>5, <1>6

\* The claims that were there keep what they say, and a fresh one says the same of its notice.
LEMMA ClaimingClaims ==
  ASSUME IInv, NEW ns, Claiming(ns)
  PROVE  /\ \A c \in PushClaims \cup PrintClaims \cup taken :
              /\ c.generation > 0 /\ notice'[c.of].row # "no"
              /\ Exists(c.of)' => c.generation <= notice'[c.of].generation
              /\ Present(c)' /\ phase'[c.of[1]] \in Final \cup {"pruned"} => c.phase \in Final
         /\ \A c \in PushClaims \cup taken :
              /\ c.token[1] = c.generation /\ c.token[2] > 0
              /\ Present(c)' => c.token[2] <= notice'[c.of].claims
              /\ c.of \in ns => c.token # notice'[c.of].token
         /\ \A n \in ns :
              /\ Claim(n).of = n /\ Claim(n).generation > 0 /\ notice'[n].row # "no"
              /\ Claim(n).generation = notice'[n].generation /\ notice'[n].generation \in Nat
              /\ Claim(n).token = notice'[n].token
              /\ Claim(n).token[1] = Claim(n).generation /\ Claim(n).token[2] = notice'[n].claims
              /\ Claim(n).token[2] > 0
              /\ phase'[n[1]] \in Final \cup {"pruned"} => Claim(n).phase \in Final
<1>0. notice \in [Notices -> Record]
  BY Types DEF IInv
<1>1. \A n \in Notices : notice[n].generation \in Nat /\ notice[n].claims \in Nat
  BY <1>0, GenerationsInNat DEF Record
<1>2. ASSUME NEW c \in PushClaims \cup PrintClaims \cup taken
      PROVE  /\ c.generation > 0 /\ notice'[c.of].row # "no"
             /\ Exists(c.of)' => c.generation <= notice'[c.of].generation
             /\ Present(c)' /\ phase'[c.of[1]] \in Final \cup {"pruned"} => c.phase \in Final
  <2>1. c.of \in Notices
    BY ClaimTypes DEF IInv
  <2>2. /\ c.generation > 0 /\ notice[c.of].row # "no"
        /\ Exists(c.of) => c.generation <= notice[c.of].generation
        /\ Present(c) /\ phase[c.of[1]] \in Final \cup {"pruned"} => c.phase \in Final
    BY DEF IInv, ClaimsSayTheEnd
  <2>3. notice'[c.of].row = notice[c.of].row /\ notice'[c.of].generation = notice[c.of].generation
    BY <2>1, ClaimingRows
  <2> QED BY <2>2, <2>3 DEF Claiming, Exists, Present
<1>3. ASSUME NEW c \in PushClaims \cup taken
      PROVE  /\ c.token[1] = c.generation /\ c.token[2] > 0
             /\ Present(c)' => c.token[2] <= notice'[c.of].claims
             /\ c.of \in ns => c.token # notice'[c.of].token
  <2>1. c.of \in Notices /\ c.token \in Nat \X Nat
    BY ClaimTypes DEF IInv
  <2>2. c.token[1] = c.generation /\ c.token[2] > 0 /\ (Present(c) => c.token[2] <= notice[c.of].claims)
    BY DEF IInv, ClaimsCounted
  <2>3. Present(c)' => Present(c)
    BY <2>1, ClaimingRows DEF Present
  <2>4. Present(c)' => c.token[2] <= notice'[c.of].claims
    BY <1>1, <2>1, <2>2, <2>3, ClaimingRows
  <2>5. ASSUME c.of \in ns PROVE c.token # notice'[c.of].token
    BY <1>1, <2>1, <2>2, <2>5, ClaimingRows DEF Present
  <2> QED BY <2>2, <2>4, <2>5
<1>4. ASSUME NEW n \in ns
      PROVE  /\ Claim(n).of = n /\ Claim(n).generation > 0 /\ notice'[n].row # "no"
             /\ Claim(n).generation = notice'[n].generation /\ notice'[n].generation \in Nat
             /\ Claim(n).token = notice'[n].token
             /\ Claim(n).token[1] = Claim(n).generation /\ Claim(n).token[2] = notice'[n].claims
             /\ Claim(n).token[2] > 0
             /\ phase'[n[1]] \in Final \cup {"pruned"} => Claim(n).phase \in Final
  <2>1. n \in Notices /\ Undelivered(n) /\ notice[n].row = "yes"
    BY DEF Claiming, Free, Undelivered, Exists
  <2>2. /\ Claim(n).of = n /\ Claim(n).generation = notice[n].generation
        /\ Claim(n).token = <<notice[n].generation, notice[n].claims + 1>>
    BY <2>1, ClaimOf DEF IInv
  <2>3. Claim(n).generation > 0 /\ (phase[n[1]] \in Final \cup {"pruned"} => Claim(n).phase \in Final)
    BY <2>1, FreshClaimSays
  <2>4. /\ notice'[n].row = notice[n].row /\ notice'[n].generation = notice[n].generation
        /\ notice'[n].claims = notice[n].claims + 1
        /\ notice'[n].token = <<notice[n].generation, notice[n].claims + 1>>
    BY <2>1, ClaimingRows
  <2>5. phase' = phase
    BY DEF Claiming
  <2> QED BY <1>1, <2>1, <2>2, <2>3, <2>4, <2>5
<1> QED BY <1>2, <1>3, <1>4

\* A claim makes nothing sent.
LEMMA SentWhileClaiming ==
  ASSUME IInv, NEW ns, Claiming(ns), \A p \in Pusher : sent'[p] => sent[p] /\ push'[p] = push[p]
  PROVE  SentIsTold'
<1> SUFFICES ASSUME NEW p \in Pusher, sent'[p], NEW c \in push'[p], Present(c)' PROVE c.phase \in told'[c.of]
  BY DEF IInv, SentIsTold
<1>1. sent[p] /\ c \in push[p] /\ c \in PushClaims
  BY PushedAndPrinted
<1>2. c.of \in Notices
  BY <1>1, ClaimTypes DEF IInv
<1>3. Present(c)
  BY <1>2, ClaimingRows DEF Present
<1> QED BY <1>1, <1>3 DEF IInv, SentIsTold, Claiming

\* The host takes a row that is free, with the phase its arming named.
LEMMA TakeStep ==
  ASSUME IInv, NEW n \in Notices, NEW answered \in BOOLEAN, Take(n, answered) PROVE IInv'
<1> DEFINE new == [Claim(n) EXCEPT !.phase = notice[n].armed]
<1>0. notice \in [Notices -> Record] /\ notice[n] \in Record
  BY Types DEF IInv
<1>1. /\ n[2] \in Node /\ Free(n) /\ notice' = [notice EXCEPT ![n] = Claimed(n)]
      /\ taken' = taken \/ taken' = taken \cup {new}
      /\ UNCHANGED <<run, alive, push, sent, drain, told, lost>>
  BY DEF Take
<1>2. Claiming({n})
  BY <1>0, <1>1 DEF Claiming
<1>3. /\ new \in Claims /\ new.of = n /\ new.token = Claim(n).token
      /\ new.generation = Claim(n).generation /\ new.phase = notice[n].armed
  <2>1. Claim(n) \in Claims /\ Claim(n).of = n /\ notice[n].armed \in Phases
    BY <1>0, ClaimOf DEF IInv, Record
  <2> QED BY <2>1 DEF Claims
<1> HIDE DEF new
<1>4. TypeOK'
  <2>1. taken' \in SUBSET Claims /\ notice' \in [Notices -> Record]
    BY <1>1, <1>2, <1>3, ClaimingRows, Types DEF IInv
  <2> QED BY <1>1, <2>1, Types DEF IInv, TypeOK, Record
<1>5. PushClaims' = PushClaims /\ PrintClaims' = PrintClaims /\ taken' \subseteq taken \cup {new}
  BY <1>1 DEF PushClaims, PrintClaims
<1>6. /\ new.generation > 0 /\ notice'[n].row # "no"
      /\ new.generation = notice'[n].generation /\ notice'[n].generation \in Nat
      /\ new.token[1] = new.generation /\ new.token[2] = notice'[n].claims /\ new.token[2] > 0
      /\ phase'[n[1]] \in Final \cup {"pruned"} => new.phase \in Final
  <2>1. phase[n[1]] \in Final \cup {"pruned"} => notice[n].armed \in Final
    BY <1>1 DEF IInv, EndedIsArmed, Free, Undelivered
  <2>2. phase' = phase
    BY <1>1
  <2> QED BY <1>2, <1>3, <2>1, <2>2, ClaimingClaims
<1>7. ClaimsSayTheEnd'
  BY <1>2, <1>3, <1>5, <1>6, ClaimingClaims DEF ClaimsSayTheEnd
<1>8. ClaimsCounted'
  <2> SUFFICES ASSUME NEW c \in PushClaims \cup taken \cup {new}
               PROVE  /\ c.token[1] = c.generation /\ c.token[2] > 0
                      /\ Present(c)' => c.token[2] <= notice'[c.of].claims
    BY <1>5 DEF ClaimsCounted
  <2>1. CASE c \in PushClaims \cup taken
    BY <1>2, <2>1, ClaimingClaims
  <2>2. CASE c = new
    <3>1. notice'[n].claims \in Nat
      BY <1>2, ClaimingRows DEF Record
    <3> QED BY <1>3, <1>6, <2>2, <3>1
  <2> QED BY <2>1, <2>2
<1>9. ClaimsApart'
  BY <1>1, <1>3, <1>5 DEF IInv, ClaimsApart
<1>10. SentIsTold'
  BY <1>1, <1>2, SentWhileClaiming
<1>11. OneHolderPerSwarm'
  <2> SUFFICES ASSUME NEW p \in Pusher, NEW q \in Pusher, NEW c \in push[p], NEW d \in push[q],
                      Current(c)', Current(d)', notice'[c.of].live, notice'[d.of].live,
                      (d.of \in Members(c.of))'
               PROVE  p = q
    BY <1>1 DEF OneHolderPerSwarm
  <2>1. c \in PushClaims /\ d \in PushClaims
    BY PushedAndPrinted
  <2>2. c.of \in Notices /\ d.of \in Notices /\ c.of # n /\ d.of # n
    BY <1>1, <2>1, ClaimTypes DEF IInv, ClaimsApart
  <2>3. notice'[c.of] = notice[c.of] /\ notice'[d.of] = notice[d.of]
    BY <1>1, <2>2
  <2>4. Current(c) /\ Current(d) /\ notice[c.of].live /\ notice[d.of].live
    BY <2>3 DEF Current, Undelivered, Exists
  <2>5. d.of \in Members(c.of)
    BY <1>1, <2>2, <2>3 DEF Members, Exists
  <2> QED BY <2>4, <2>5 DEF IInv, OneHolderPerSwarm
<1>12. ArmingsCounted' /\ RowsArmed' /\ EndedIsArmed' /\ OwedNodeNoticeIsNamed' /\ DeliveredWasHeard'
  BY <1>2, ClaimingRows
<1> QED BY <1>4, <1>7, <1>8, <1>9, <1>10, <1>11, <1>12 DEF IInv

\* A push takes a whole swarm, or the row of a lone run, under one count.
LEMMA PushStep ==
  ASSUME IInv, NEW p \in Pusher, NEW n \in Notices, Push(p, n) PROVE IInv'
<1> DEFINE ns == Batch(n)
<1>0. notice \in [Notices -> Record] /\ push \in [Pusher -> SUBSET Claims] /\ sent \in [Pusher -> BOOLEAN]
  BY Types DEF IInv
<1>1. /\ push[p] = {} /\ n[2] \notin Node /\ Free(n) /\ ~Held(n)
      /\ push' = [push EXCEPT ![p] = {Claim(m) : m \in ns}]
      /\ notice' = [m \in Notices |-> IF m \in ns THEN Claimed(m) ELSE notice[m]]
      /\ UNCHANGED <<run, alive, sent, drain, taken, told, lost>>
  BY DEF Push
<1>2. /\ ns \subseteq Notices /\ \A m \in ns : Free(m) /\ m[2] = n[2] /\ (m = n \/ m \in Members(n))
  BY <1>1 DEF Batch, Members
<1> HIDE DEF ns
<1>3. Claiming(ns)
  BY <1>1, <1>2 DEF Claiming
<1>4. {Claim(m) : m \in ns} \in SUBSET Claims
  BY <1>2, ClaimOf DEF IInv
<1>5. push' \in [Pusher -> SUBSET Claims] /\ notice' \in [Notices -> Record]
  BY <1>0, <1>1, <1>3, <1>4, ClaimingRows
<1>6. TypeOK'
  BY <1>1, <1>5, Types DEF IInv, TypeOK, Record
<1>7. /\ \A q \in Pusher \ {p} : push'[q] = push[q]
      /\ \A c \in push'[p] : \E m \in ns : c = Claim(m)
  BY <1>0, <1>1
<1>8. /\ \A c \in PushClaims' : c \in PushClaims \/ \E m \in ns : c = Claim(m)
      /\ PrintClaims' = PrintClaims
  <2>1. PrintClaims' = PrintClaims
    BY <1>1 DEF PrintClaims
  <2>2. ASSUME NEW c \in PushClaims' PROVE c \in PushClaims \/ \E m \in ns : c = Claim(m)
    BY <1>7, PushedAndPrinted, PushedAndPrintedNext
  <2> QED BY <2>1, <2>2
<1>9. ASSUME NEW m \in ns
      PROVE  /\ Claim(m).of = m /\ Claim(m).generation > 0 /\ notice'[m].row # "no"
             /\ Claim(m).generation = notice'[m].generation /\ notice'[m].generation \in Nat
             /\ Claim(m).token = notice'[m].token
             /\ Claim(m).token[1] = Claim(m).generation /\ Claim(m).token[2] = notice'[m].claims
             /\ Claim(m).token[2] > 0 /\ notice'[m].claims \in Nat
             /\ phase'[m[1]] \in Final \cup {"pruned"} => Claim(m).phase \in Final
  <2>1. notice'[m] \in Record
    BY <1>2, <1>5
  <2> QED BY <1>3, <2>1, ClaimingClaims DEF Record
<1>10. ClaimsSayTheEnd'
  <2> SUFFICES ASSUME NEW c \in PushClaims' \cup PrintClaims' \cup taken'
               PROVE  /\ c.generation > 0 /\ notice'[c.of].row # "no"
                      /\ Exists(c.of)' => c.generation <= notice'[c.of].generation
                      /\ Present(c)' /\ phase'[c.of[1]] \in Final \cup {"pruned"} => c.phase \in Final
    BY DEF ClaimsSayTheEnd
  <2>1. CASE c \in PushClaims \cup PrintClaims \cup taken
    BY <1>3, <2>1, ClaimingClaims
  <2>2. CASE \E m \in ns : c = Claim(m)
    BY <1>9, <2>2
  <2> QED BY <1>1, <1>8, <2>1, <2>2
<1>11. ClaimsCounted'
  <2> SUFFICES ASSUME NEW c \in PushClaims' \cup taken'
               PROVE  /\ c.token[1] = c.generation /\ c.token[2] > 0
                      /\ Present(c)' => c.token[2] <= notice'[c.of].claims
    BY DEF ClaimsCounted
  <2>1. CASE c \in PushClaims \cup taken
    BY <1>3, <2>1, ClaimingClaims
  <2>2. CASE \E m \in ns : c = Claim(m)
    BY <1>9, <2>2
  <2> QED BY <1>1, <1>8, <2>1, <2>2
\* A claim of another pusher on a notice of the batch has an older token.
<1>12. ASSUME NEW q \in Pusher, NEW d \in push'[q], q # p
       PROVE  d \in push[q] /\ d \in PushClaims /\ d.of \in Notices
              /\ (d.of \in ns => d.token # notice'[d.of].token)
  <2>1. d \in push[q] /\ d \in PushClaims
    BY <1>7, <1>12, PushedAndPrinted
  <2> QED BY <1>3, <2>1, ClaimingClaims, ClaimTypes DEF IInv
<1>13. ClaimsApart'
  <2>1. ASSUME NEW c \in PushClaims' PROVE c.of[2] \notin Node
    <3>1. CASE c \in PushClaims
      BY <3>1 DEF IInv, ClaimsApart
    <3>2. CASE \E m \in ns : c = Claim(m)
      <4>1. PICK m \in ns : c = Claim(m)
        BY <3>2
      <4>2. c.of = m
        BY <1>9, <4>1
      <4> QED BY <1>1, <1>2, <4>2
    <3> QED BY <1>8, <3>1, <3>2
  <2>2. \A c \in taken' : c.of[2] \in Node
    BY <1>1 DEF IInv, ClaimsApart
  <2>3. ASSUME NEW q \in Pusher, NEW x \in Pusher, NEW c \in push'[q], NEW d \in push'[x],
               c.of = d.of, c.token = d.token
        PROVE  q = x
    <3>1. CASE q = p /\ x # p
      BY <1>7, <1>9, <1>12, <2>3, <3>1
    <3>2. CASE q # p /\ x = p
      BY <1>7, <1>9, <1>12, <2>3, <3>2
    <3>3. CASE q # p /\ x # p
      BY <1>7, <2>3, <3>3 DEF IInv, ClaimsApart
    <3> QED BY <3>1, <3>2, <3>3
  <2> QED BY <2>1, <2>2, <2>3 DEF ClaimsApart
<1>14. SentIsTold'
  <2>1. \A q \in Pusher : sent'[q] => q # p
    BY <1>1 DEF IInv, SentIsTold
  <2> QED BY <1>1, <1>3, <1>7, <2>1, SentWhileClaiming
\* The batch takes what was free of the swarm, and no member was under a lease.
<1>15. OneHolderPerSwarm'
  <2>1. ASSUME NEW c \in PushClaims, NEW m \in Notices, c.of = m, m \notin ns, Current(c)', notice'[m].live
        PROVE  Current(c) /\ notice[m].live /\ m \notin Members(n)
    <3>1. notice'[m] = notice[m]
      BY <1>3, <2>1, ClaimingRows
    <3>2. Current(c) /\ notice[m].live /\ ~notice[m].delivered
      BY <2>1, <3>1 DEF Current, Undelivered, Exists
    <3> QED BY <1>1, <3>2 DEF Held
  \* Whoever else holds a live claim holds one of another swarm.
  <2>2. ASSUME NEW q \in Pusher, q # p, NEW d \in push'[q], Current(d)', notice'[d.of].live
        PROVE  d.of \in Notices /\ d.of \notin ns /\ d.of \notin Members(n) /\ d \in push[q]
               /\ Current(d) /\ notice[d.of].live /\ Exists(d.of)
    <3>1. d \in push[q] /\ d \in PushClaims /\ d.of \in Notices /\ d.of \notin ns
      BY <1>12, <2>2 DEF Current
    <3> QED BY <2>1, <2>2, <3>1 DEF Current, Undelivered
  <2>3. ASSUME NEW c \in push'[p], NEW m \in Notices, Exists(m),
               (m \in Members(c.of))' \/ (c.of \in Members(m))'
        PROVE  m \in Members(n)
    <3>1. PICK k \in ns : c.of = k
      BY <1>7, <1>9
    <3>2. k \in Notices /\ k[2] = n[2] /\ (k = n \/ k \in Members(n)) /\ phase' = phase
      BY <1>1, <1>2
    <3>3. m[2] = k[2] /\ m[1] \in Swarm /\ phase[m[1]] \in Rows /\ k[1] \in Swarm /\ phase[k[1]] \in Rows
      BY <2>3, <3>1, <3>2 DEF Members
    <3>4. n[1] \in Swarm /\ phase[n[1]] \in Rows
      BY <3>2, <3>3 DEF Members
    <3> QED BY <2>3, <3>2, <3>3, <3>4 DEF Members
  <2> SUFFICES ASSUME NEW q \in Pusher, NEW x \in Pusher, NEW c \in push'[q], NEW d \in push'[x],
                      Current(c)', Current(d)', notice'[c.of].live, notice'[d.of].live,
                      (d.of \in Members(c.of))'
               PROVE  q = x
    BY DEF OneHolderPerSwarm
  <2>4. CASE q = p /\ x # p
    BY <2>2, <2>3, <2>4
  <2>5. CASE q # p /\ x = p
    BY <2>2, <2>3, <2>5
  <2>6. CASE q # p /\ x # p
    <3>1. /\ c \in push[q] /\ Current(c) /\ notice[c.of].live /\ c.of \in Notices
          /\ d \in push[x] /\ Current(d) /\ notice[d.of].live /\ d.of \in Notices
      BY <2>2, <2>6
    <3>2. d.of \in Members(c.of)
      <4>1. phase' = phase /\ notice'[d.of].row = notice[d.of].row
        BY <1>1, <1>3, <3>1, ClaimingRows
      <4> QED BY <3>1, <4>1 DEF Members, Exists
    <3> QED BY <3>1, <3>2 DEF IInv, OneHolderPerSwarm
  <2> QED BY <2>4, <2>5, <2>6
<1>16. ArmingsCounted' /\ RowsArmed' /\ EndedIsArmed' /\ OwedNodeNoticeIsNamed' /\ DeliveredWasHeard'
  BY <1>3, ClaimingRows
<1> QED BY <1>6, <1>10, <1>11, <1>13, <1>14, <1>15, <1>16 DEF IInv

-----------------------------------------------------------------------------
(* The runs: what admits, moves and prunes them, and their notices.        *)

\* A row that was never armed, or is gone.
LEMMA UnarmedRow ==
  ASSUME NEW n \in Notices, NEW w \in {"yes", "gone"}
  PROVE  LET x == [Absent EXCEPT !.row = w]
         IN  x \in Record /\ x.row = w /\ x.generation = 0 /\ x.token = <<0, 0>> /\ x.ready = FALSE
<1>1. <<0, 0>> \in Tokens /\ 0 \in Generations
  BY GenerationsInNat
<1>2. Absent \in Record
  BY <1>1 DEF Absent, Record
<1>3. \A y \in Record : LET x == [y EXCEPT !.row = w]
                        IN  /\ x \in Record /\ x.row = w /\ x.generation = y.generation
                            /\ x.token = y.token /\ x.ready = y.ready
  BY DEF Record
<1>4. Absent.generation = 0 /\ Absent.token = <<0, 0>> /\ Absent.ready = FALSE
  BY DEF Absent
<1> QED BY <1>2, <1>3, <1>4

\* A row nobody was told of and nobody may claim: a claim is of a row that was there.
LEMMA NewRow ==
  ASSUME IInv, NEW r \in Run, NEW a \in Addr, NEW x \in Record, NEW is \in {"running", "orphaned"},
         notice[<<r, a>>].row = "no", phase[r] \in {"none", is}, phase' = [phase EXCEPT ![r] = is],
         notice' = [notice EXCEPT ![<<r, a>>] = x],
         x.row = "yes", x.generation = 0, x.token = <<0, 0>>, x.ready => x.delivered,
         UNCHANGED <<revived, alive, push, sent, drain, taken, told, lost>>
  PROVE  IInv'
<1> DEFINE w == <<r, a>>
<1>0. /\ notice \in [Notices -> Record] /\ phase \in [Run -> Phases] /\ revived \in [Run -> Nat]
      /\ w \in Notices
  BY Types DEF IInv
<1> HIDE DEF w
<1>1. /\ \A n \in Notices \ {w} : notice'[n] = notice[n]
      /\ notice'[w] = x /\ w[1] = r /\ notice[w].row = "no"
      /\ \A s \in Run : phase'[s] = IF s = r THEN is ELSE phase[s]
      /\ \A n \in Notices : n[1] \in Run
  BY <1>0 DEF w
<1>2. TypeOK'
  <2>1. notice' \in [Notices -> Record] /\ phase' \in [Run -> Phases]
    BY <1>0
  <2> QED BY <2>1, Types DEF IInv, TypeOK, Record
<1>3. PushClaims' = PushClaims /\ PrintClaims' = PrintClaims /\ taken' = taken
  BY DEF PushClaims, PrintClaims
<1>4. ASSUME NEW c \in PushClaims \cup PrintClaims \cup taken
      PROVE  /\ c.of \in Notices /\ c.of # w /\ notice'[c.of] = notice[c.of]
             /\ phase'[c.of[1]] = phase[c.of[1]] /\ (Present(c)' <=> Present(c))
  <2>1. c.of \in Notices /\ notice[c.of].row # "no"
    BY ClaimTypes DEF IInv, ClaimsSayTheEnd
  <2>2. c.of # w /\ notice'[c.of] = notice[c.of] /\ phase[c.of[1]] # "none"
    BY <1>1, <2>1 DEF IInv, RowsArmed
  <2>3. phase'[c.of[1]] = phase[c.of[1]]
    BY <1>1, <2>1, <2>2
  <2> QED BY <2>1, <2>2, <2>3 DEF Present
<1>5. ArmingsCounted'
  <2> SUFFICES ASSUME NEW n \in Notices PROVE notice'[n].generation <= revived[n[1]] + Armings(phase'[n[1]])
    BY DEF ArmingsCounted
  <2>1. CASE n = w
    BY <1>0, <1>1, <2>1 DEF Armings
  <2>2. CASE n # w
    <3>1. notice[n].generation <= revived[n[1]] + Armings(phase[n[1]]) /\ notice'[n] = notice[n]
      BY <1>1, <2>2 DEF IInv, ArmingsCounted
    <3>2. phase[n[1]] = "none" => notice[n].generation = 0
      BY <2>2 DEF IInv, RowsArmed, Exists
    <3>3. CASE n[1] = r /\ phase[r] = "none"
      BY <1>0, <1>1, <3>1, <3>2, <3>3 DEF Armings
    <3>4. CASE ~(n[1] = r /\ phase[r] = "none")
      BY <1>1, <3>1, <3>4
    <3> QED BY <3>3, <3>4
  <2> QED BY <2>1, <2>2
<1>6. RowsArmed'
  BY <1>1 DEF IInv, RowsArmed, Exists, Undelivered
<1>7. EndedIsArmed' /\ OwedNodeNoticeIsNamed'
  BY <1>1 DEF IInv, EndedIsArmed, OwedNodeNoticeIsNamed, Exists
<1>8. ClaimsSayTheEnd'
  BY <1>3, <1>4 DEF IInv, ClaimsSayTheEnd, Exists
<1>9. ClaimsCounted' /\ ClaimsApart'
  BY <1>3, <1>4 DEF IInv, ClaimsCounted, ClaimsApart
<1>10. SentIsTold'
  BY <1>4, PushedAndPrinted DEF IInv, SentIsTold
<1>11. OneHolderPerSwarm'
  <2> SUFFICES ASSUME NEW p \in Pusher, NEW q \in Pusher, NEW c \in push[p], NEW d \in push[q],
                      Current(c)', Current(d)', notice'[c.of].live, notice'[d.of].live,
                      (d.of \in Members(c.of))'
               PROVE  p = q
    BY DEF OneHolderPerSwarm
  <2>1. /\ notice'[c.of] = notice[c.of] /\ phase'[c.of[1]] = phase[c.of[1]] /\ c.of \in Notices
        /\ notice'[d.of] = notice[d.of] /\ phase'[d.of[1]] = phase[d.of[1]] /\ d.of \in Notices
    BY <1>4, PushedAndPrinted
  <2>2. Current(c) /\ Current(d) /\ notice[c.of].live /\ notice[d.of].live
    BY <2>1 DEF Current, Undelivered, Exists
  <2>3. d.of \in Members(c.of)
    BY <2>1 DEF Members, Exists
  <2> QED BY <2>2, <2>3 DEF IInv, OneHolderPerSwarm
<1>12. DeliveredWasHeard'
  <2> SUFFICES ASSUME NEW n \in Notices, Exists(n)', notice'[n].delivered, notice'[n].generation > 0, ~lost[n]
               PROVE  \E ph \in told[n] \cup Printing(n)' : phase'[n[1]] \in Final => ph \in Final
    BY DEF DeliveredWasHeard
  <2>1. Exists(n) /\ notice[n].delivered /\ notice[n].generation > 0
    BY <1>1 DEF Exists
  <2>2. PICK ph \in told[n] \cup Printing(n) : phase[n[1]] \in Final => ph \in Final
    BY <2>1 DEF IInv, DeliveredWasHeard
  <2>3. Printing(n)' = Printing(n)
    BY <1>3, <1>4 DEF Printing
  <2>4. phase'[n[1]] \in Final => phase[n[1]] \in Final
    BY <1>1
  <2> QED BY <2>2, <2>3, <2>4
<1> QED BY <1>2, <1>5, <1>6, <1>7, <1>8, <1>9, <1>10, <1>11, <1>12 DEF IInv

\* A run that is admitted names rows that were not there.
LEMMA AdmitStep ==
  ASSUME IInv, NEW r \in Run, NEW a \in Addr, Admit(r, a) PROVE IInv'
<1>1. notice[<<r, a>>].row = "no"
  BY DEF IInv, RowsArmed, Admit
<1>2. Pending \in Record /\ Pending.row = "yes" /\ Pending.generation = 0 /\ Pending.token = <<0, 0>>
      /\ Pending.ready = FALSE
  BY <<r, a>> \in Notices, UnarmedRow DEF Pending
<1> QED BY <1>1, <1>2, NewRow DEF Admit

\* A run that is attached again names a row that was not there: pending, or delivered already for an orphan.
LEMMA ReattachStep ==
  ASSUME IInv, NEW r \in Run, NEW a \in Addr, Reattach(r, a) PROVE IInv'
<1> DEFINE x == Reattached(r)
<1>1. Pending \in Record /\ Pending.row = "yes" /\ Pending.generation = 0 /\ Pending.token = <<0, 0>>
      /\ Pending.ready = FALSE
  BY <<r, a>> \in Notices, UnarmedRow DEF Pending
<1>2. \A y \in Record : LET z == [y EXCEPT !.ready = TRUE, !.delivered = TRUE, !.armed = "orphaned"]
                        IN  z \in Record /\ z.row = y.row /\ z.generation = y.generation /\ z.token = y.token
                            /\ z.delivered = TRUE
  BY DEF Record
<1>3. x = Pending \/ x = [Pending EXCEPT !.ready = TRUE, !.delivered = TRUE, !.armed = "orphaned"]
  BY DEF Reattached
<1>4. x \in Record /\ x.row = "yes" /\ x.generation = 0 /\ x.token = <<0, 0>> /\ (x.ready => x.delivered)
  <2> HIDE DEF x
  <2> QED BY <1>1, <1>2, <1>3
<1>5. phase' = [phase EXCEPT ![r] = phase[r]] /\ phase[r] \in {"running", "orphaned"}
  BY Types DEF IInv, Reattach
<1>6. notice[<<r, a>>].row = "no" /\ notice' = [notice EXCEPT ![<<r, a>>] = x]
      /\ UNCHANGED <<revived, alive, push, sent, drain, taken, told, lost>>
  BY DEF Reattach
<1> HIDE DEF x
<1> QED BY <1>4, <1>5, <1>6, NewRow

\* A run that is pruned takes its rows along.
LEMMA PruneRunStep ==
  ASSUME IInv, NEW r \in Run, PruneRun(r) PROVE IInv'
<1>0. phase \in [Run -> Phases]
  BY Types DEF IInv
<1>1. /\ phase[r] = "closed" /\ phase' = [phase EXCEPT ![r] = "pruned"]
      /\ \A a \in Node : ~(Exists(<<r, a>>) /\ ~notice[<<r, a>>].delivered)
      /\ UNCHANGED <<revived, notice, alive, push, sent, drain, taken, told, lost>>
  BY DEF PruneRun, Prunable
<1>2. /\ \A s \in Run : phase'[s] = IF s = r THEN "pruned" ELSE phase[s]
      /\ \A n \in Notices : n[1] \in Run /\ n[2] \in Addr /\ n = <<n[1], n[2]>>
  BY <1>0, <1>1
<1>3. TypeOK'
  BY <1>0, <1>1, Types DEF IInv, TypeOK
<1>4. /\ PushClaims' = PushClaims /\ PrintClaims' = PrintClaims
      /\ \A c : Present(c)' <=> Present(c)
      /\ \A n : (Exists(n)' <=> Exists(n)) /\ (Undelivered(n)' <=> Undelivered(n))
      /\ \A n : Printing(n)' = Printing(n)
  BY <1>1 DEF PushClaims, PrintClaims, Present, Exists, Undelivered, Printing
<1>5. ArmingsCounted'
  <2> SUFFICES ASSUME NEW n \in Notices PROVE notice[n].generation <= revived[n[1]] + Armings(phase'[n[1]])
    BY <1>1 DEF ArmingsCounted
  <2>1. Armings(phase'[n[1]]) = Armings(phase[n[1]])
    BY <1>1, <1>2 DEF Armings
  <2> QED BY <2>1 DEF IInv, ArmingsCounted
<1>6. RowsArmed'
  BY <1>1, <1>2, <1>4 DEF IInv, RowsArmed
<1>7. EndedIsArmed'
  BY <1>1, <1>2, <1>4 DEF IInv, EndedIsArmed
<1>8. OwedNodeNoticeIsNamed'
  <2> SUFFICES ASSUME NEW n \in Notices, n[2] \in Node, Exists(n), ~notice[n].delivered PROVE phase'[n[1]] \in Rows
    BY <1>1, <1>4 DEF OwedNodeNoticeIsNamed
  <2>1. phase[n[1]] \in Rows
    BY DEF IInv, OwedNodeNoticeIsNamed
  <2>2. n[1] # r
    BY <1>1, <1>2
  <2> QED BY <1>2, <2>1, <2>2
<1>9. ClaimsSayTheEnd'
  <2> SUFFICES ASSUME NEW c \in PushClaims \cup PrintClaims \cup taken, Present(c), phase'[c.of[1]] \in Final \cup {"pruned"}
               PROVE  phase[c.of[1]] \in Final \cup {"pruned"}
    BY <1>1, <1>4 DEF IInv, ClaimsSayTheEnd
  <2>1. c.of[1] \in Run
    BY ClaimTypes DEF IInv, Notices
  <2> QED BY <1>1, <1>2, <2>1 DEF Final
<1>10. ClaimsCounted' /\ ClaimsApart' /\ SentIsTold'
  BY <1>1, <1>4 DEF IInv, ClaimsCounted, ClaimsApart, SentIsTold
<1>11. OneHolderPerSwarm'
  <2> SUFFICES ASSUME NEW p \in Pusher, NEW q \in Pusher, NEW c \in push[p], NEW d \in push[q],
                      Current(c), Current(d), notice[c.of].live, notice[d.of].live,
                      (d.of \in Members(c.of))'
               PROVE  p = q
    BY <1>1, <1>4 DEF OneHolderPerSwarm, Current
  <2>1. c.of \in Notices /\ d.of \in Notices
    BY PushedAndPrinted, ClaimTypes DEF IInv
  <2>2. d.of \in Members(c.of)
    BY <1>1, <1>2, <1>4, <2>1 DEF Members
  <2> QED BY <2>2 DEF IInv, OneHolderPerSwarm
<1>12. DeliveredWasHeard'
  <2>1. \A n \in Notices : phase'[n[1]] \in Final => phase[n[1]] \in Final
    BY <1>2
  <2> QED BY <1>1, <1>4, <2>1 DEF IInv, DeliveredWasHeard
<1> QED BY <1>3, <1>5, <1>6, <1>7, <1>8, <1>9, <1>10, <1>11, <1>12 DEF IInv

\* A row that goes takes its claims with it: their arming is over.
LEMMA PruneNoticeStep ==
  ASSUME IInv, NEW n \in Notices, PruneNotice(n) PROVE IInv'
<1> DEFINE x == [Absent EXCEPT !.row = "gone"]
<1>0. notice \in [Notices -> Record] /\ told \in [Notices -> SUBSET Phases] /\ lost \in [Notices -> BOOLEAN]
  BY Types DEF IInv
<1>1. /\ Exists(n) /\ notice' = [notice EXCEPT ![n] = x]
      /\ told' = [told EXCEPT ![n] = {}] /\ lost' = [lost EXCEPT ![n] = FALSE]
      /\ UNCHANGED <<run, alive, push, sent, drain, taken>>
  BY DEF PruneNotice
<1>2. x \in Record /\ x.row = "gone" /\ x.generation = 0 /\ x.token = <<0, 0>>
  BY UnarmedRow
<1> HIDE DEF x
<1>3. /\ \A m \in Notices \ {n} : notice'[m] = notice[m] /\ told'[m] = told[m] /\ lost'[m] = lost[m]
      /\ notice'[n] = x
  BY <1>0, <1>1
<1>4. TypeOK'
  <2>1. notice' \in [Notices -> Record] /\ told' \in [Notices -> SUBSET Phases] /\ lost' \in [Notices -> BOOLEAN]
    BY <1>0, <1>1, <1>2
  <2> QED BY <1>1, <2>1, Types DEF IInv, TypeOK, Record
<1>5. PushClaims' = PushClaims /\ PrintClaims' = PrintClaims /\ taken' = taken
  BY <1>1 DEF PushClaims, PrintClaims
<1>6. ASSUME NEW c \in PushClaims \cup PrintClaims \cup taken
      PROVE  /\ c.of \in Notices /\ c.generation > 0 /\ c.generation \in Nat
             /\ c.of = n \/ notice'[c.of] = notice[c.of]
             /\ Present(c)' => c.of # n /\ notice'[c.of] = notice[c.of] /\ Present(c)
  <2>1. c.of \in Notices /\ c.generation > 0 /\ c.generation \in Nat
    BY ClaimTypes DEF IInv, ClaimsSayTheEnd
  <2>2. ASSUME Present(c)' PROVE c.of # n
    BY <1>2, <1>3, <2>1, <2>2 DEF Present
  <2> QED BY <1>3, <2>1, <2>2 DEF Present
<1>7. ArmingsCounted'
  <2>1. revived[n[1]] + Armings(phase[n[1]]) \in Nat
    BY Types DEF IInv, Armings
  <2> QED BY <1>1, <1>2, <1>3, <2>1 DEF IInv, ArmingsCounted
<1>8. RowsArmed'
  <2>1. phase[n[1]] # "none"
    BY <1>1 DEF IInv, RowsArmed, Exists
  <2> QED BY <1>1, <1>2, <1>3, <2>1 DEF IInv, RowsArmed, Exists, Undelivered
<1>9. EndedIsArmed' /\ OwedNodeNoticeIsNamed'
  BY <1>1, <1>2, <1>3 DEF IInv, EndedIsArmed, OwedNodeNoticeIsNamed, Exists
<1>10. ClaimsSayTheEnd'
  <2> SUFFICES ASSUME NEW c \in PushClaims \cup PrintClaims \cup taken
               PROVE  /\ c.generation > 0 /\ notice'[c.of].row # "no"
                      /\ Exists(c.of)' => c.generation <= notice'[c.of].generation
                      /\ Present(c)' /\ phase'[c.of[1]] \in Final \cup {"pruned"} => c.phase \in Final
    BY <1>5 DEF ClaimsSayTheEnd
  <2>1. CASE c.of = n
    BY <1>2, <1>3, <1>6, <2>1 DEF Exists
  <2>2. CASE c.of # n
    BY <1>1, <1>6, <2>2 DEF IInv, ClaimsSayTheEnd, Exists
  <2> QED BY <2>1, <2>2
<1>11. ClaimsCounted' /\ ClaimsApart'
  BY <1>1, <1>5, <1>6 DEF IInv, ClaimsCounted, ClaimsApart
<1>12. SentIsTold'
  BY <1>1, <1>3, <1>6, PushedAndPrinted DEF IInv, SentIsTold
<1>13. OneHolderPerSwarm'
  <2> SUFFICES ASSUME NEW p \in Pusher, NEW q \in Pusher, NEW c \in push[p], NEW d \in push[q],
                      Current(c)', Current(d)', notice'[c.of].live, notice'[d.of].live,
                      (d.of \in Members(c.of))'
               PROVE  p = q
    BY <1>1 DEF OneHolderPerSwarm
  <2>1. /\ c.of \in Notices /\ d.of \in Notices /\ c.of # n /\ d.of # n
        /\ notice'[c.of] = notice[c.of] /\ notice'[d.of] = notice[d.of] /\ phase' = phase
    BY <1>1, <1>2, <1>3, <1>6, PushedAndPrinted DEF Current, Undelivered, Exists
  <2>2. Current(c) /\ Current(d) /\ notice[c.of].live /\ notice[d.of].live
    BY <2>1 DEF Current, Undelivered, Exists
  <2>3. d.of \in Members(c.of)
    BY <2>1 DEF Members, Exists
  <2> QED BY <2>2, <2>3 DEF IInv, OneHolderPerSwarm
<1>14. DeliveredWasHeard'
  <2> SUFFICES ASSUME NEW m \in Notices, Exists(m)', notice'[m].delivered, notice'[m].generation > 0, ~lost'[m]
               PROVE  \E ph \in told'[m] \cup Printing(m)' : phase[m[1]] \in Final => ph \in Final
    BY <1>1 DEF DeliveredWasHeard
  <2>1. m # n
    BY <1>2, <1>3 DEF Exists
  <2>2. Exists(m) /\ notice[m].delivered /\ notice[m].generation > 0 /\ ~lost[m] /\ told'[m] = told[m]
    BY <1>3, <2>1 DEF Exists
  <2>3. PICK ph \in told[m] \cup Printing(m) : phase[m[1]] \in Final => ph \in Final
    BY <2>2 DEF IInv, DeliveredWasHeard
  <2>4. Printing(m) \subseteq Printing(m)'
    <3>1. \A c \in PrintClaims : c.of = m /\ Present(c) => Present(c)'
      BY <1>3, <2>1 DEF Present
    <3> QED BY <1>5, <3>1 DEF Printing
  <2> QED BY <2>2, <2>3, <2>4
<1> QED BY <1>4, <1>7, <1>8, <1>9, <1>10, <1>11, <1>12, <1>13, <1>14 DEF IInv

\* The trigger arms an entry into a terminal phase, and nothing else that moves.
LEMMA MoveArms ==
  ASSUME NEW r \in Run, NEW is \in Rows, Move(r, is)
  PROVE  /\ phase[r] \in {"running", "orphaned", "ended"} /\ is # phase[r]
         /\ Arms(phase[r], is) <=> \/ phase[r] = "running" /\ is \in Terminal
                                   \/ phase[r] = "orphaned" /\ is \in Final
         /\ Arms(phase[r], is) \/ (phase[r] = "orphaned" /\ is = "running")
                               \/ (phase[r] = "ended" /\ is = "closed")
BY DEF Move, Arms

\* A phase that is written arms the rows it ends, and nothing else of them.
LEMMA MoveStep ==
  ASSUME IInv, NEW r \in Run, NEW is \in Rows, Move(r, is) PROVE IInv'
<1> DEFINE arms == Arms(phase[r], is)
           armed(n) == n[1] = r /\ Exists(n) /\ arms
<1>0. /\ notice \in [Notices -> Record] /\ phase \in [Run -> Phases] /\ revived \in [Run -> Nat]
      /\ told \in [Notices -> SUBSET Phases] /\ lost \in [Notices -> BOOLEAN]
      /\ \A s \in Run : revived[s] <= MaxRevived[s]
      /\ \A n \in Notices : n[1] \in Run /\ notice[n].generation \in Nat
  BY Types, GenerationsInNat DEF IInv, Record
<1>1. /\ phase[r] \in {"running", "orphaned", "ended"} /\ is # phase[r]
      /\ arms <=> \/ phase[r] = "running" /\ is \in Terminal
                  \/ phase[r] = "orphaned" /\ is \in Final
      /\ arms \/ (phase[r] = "orphaned" /\ is = "running") \/ (phase[r] = "ended" /\ is = "closed")
  BY MoveArms
<1>2. /\ phase' = [phase EXCEPT ![r] = is]
      /\ revived' = [revived EXCEPT ![r] = IF is = "running" THEN @ + 1 ELSE @]
      /\ is = "running" => revived[r] < MaxRevived[r]
      /\ notice' = [n \in Notices |-> IF armed(n) THEN Armed(n, is) ELSE notice[n]]
      /\ told' = [n \in Notices |-> IF n[1] = r /\ arms THEN {} ELSE told[n]]
      /\ lost' = [n \in Notices |-> ~(n[1] = r /\ arms) /\ lost[n]]
      /\ UNCHANGED <<alive, push, sent, drain, taken>>
  BY DEF Move
<1> HIDE DEF arms
<1>3. /\ \A s \in Run : phase'[s] = IF s = r THEN is ELSE phase[s]
      /\ \A s \in Run : revived'[s] = IF s = r /\ is = "running" THEN revived[s] + 1 ELSE revived[s]
      /\ revived' \in [Run -> Nat] /\ phase' \in [Run -> Phases]
  BY <1>0, <1>2
<1>4. ASSUME NEW n \in Notices, armed(n)
      PROVE  /\ notice'[n].row = notice[n].row /\ notice'[n].ready /\ ~notice'[n].delivered
             /\ notice'[n].generation = notice[n].generation + 1 /\ notice'[n].claims = 0
             /\ notice'[n].armed = Said(is) /\ notice'[n].token = <<0, 0>> /\ ~notice'[n].live
             /\ is \in Terminal /\ notice'[n] \in Record
             /\ notice[n].generation <= revived[r] + Armings(phase[r])
  <2>1. is \in Terminal /\ notice'[n] = Armed(n, is)
    BY <1>1, <1>2, <1>4
  <2>2. notice[n].generation <= revived[r] + Armings(phase[r])
    BY <1>4 DEF IInv, ArmingsCounted
  <2>3. Armings(phase[r]) <= 1 /\ Armings(phase[r]) \in Nat /\ MaxRevived[r] \in Nat
    BY <1>1, <1>4, ConstantsAssumption DEF Armings
  <2>4. notice[n].generation + 1 \in Nat /\ notice[n].generation + 1 <= MaxRevived[r] + 2
    BY <1>0, <2>2, <2>3
  <2>5. notice[n].generation + 1 \in Generations
    BY <2>4, GenerationsInNat
  <2> QED BY <2>1, <2>2, <2>5, ArmedFields DEF IInv
<1>5. \A n \in Notices : ~armed(n) => notice'[n] = notice[n]
  BY <1>2
<1>6. TypeOK'
  <2>1. notice' \in [Notices -> Record]
    BY <1>0, <1>2, <1>4, <1>5
  <2>2. told' \in [Notices -> SUBSET Phases] /\ lost' \in [Notices -> BOOLEAN]
    BY <1>0, <1>2
  <2>3. \A s \in Run : revived'[s] <= MaxRevived[s]
    BY <1>0, <1>2, <1>3, ConstantsAssumption
  <2> QED BY <1>2, <1>3, <2>1, <2>2, <2>3, Types DEF IInv, TypeOK, Record
<1>7. PushClaims' = PushClaims /\ PrintClaims' = PrintClaims /\ taken' = taken
  BY <1>2 DEF PushClaims, PrintClaims
\* A claim is not of the arming that begins.
<1>8. ASSUME NEW c \in PushClaims \cup PrintClaims \cup taken
      PROVE  /\ c.of \in Notices /\ c.generation > 0 /\ c.generation \in Nat
             /\ notice'[c.of].row = notice[c.of].row
             /\ Exists(c.of)' => c.generation <= notice'[c.of].generation
             /\ Present(c)' => /\ Present(c) /\ notice'[c.of] = notice[c.of]
                               /\ told'[c.of] = told[c.of] /\ ~(c.of[1] = r /\ arms)
  <2>1. c.of \in Notices /\ c.generation > 0 /\ c.generation \in Nat
        /\ (Exists(c.of) => c.generation <= notice[c.of].generation)
        /\ (~Exists(c.of) => notice[c.of].generation = 0)
    BY ClaimTypes DEF IInv, ClaimsSayTheEnd, RowsArmed
  <2>2. CASE armed(c.of)
    BY <1>0, <1>4, <2>1, <2>2 DEF Present
  <2>3. CASE ~armed(c.of)
    <3>1. notice'[c.of] = notice[c.of]
      BY <1>5, <2>1, <2>3
    <3>2. ASSUME Present(c)' PROVE Present(c) /\ told'[c.of] = told[c.of] /\ ~(c.of[1] = r /\ arms)
      BY <1>2, <2>1, <2>3, <3>1, <3>2 DEF Present
    <3> QED BY <2>1, <3>1, <3>2 DEF Exists
  <2> QED BY <2>2, <2>3
<1>9. ArmingsCounted'
  <2> SUFFICES ASSUME NEW n \in Notices PROVE notice'[n].generation <= revived'[n[1]] + Armings(phase'[n[1]])
    BY DEF ArmingsCounted
  <2>1. notice[n].generation <= revived[n[1]] + Armings(phase[n[1]])
    BY DEF IInv, ArmingsCounted
  <2>2. CASE armed(n)
    BY <1>0, <1>1, <1>3, <1>4, <2>1, <2>2 DEF Armings
  <2>3. CASE n[1] # r
    BY <1>0, <1>3, <1>5, <2>1, <2>3
  <2>4. CASE n[1] = r /\ ~Exists(n)
    <3>1. notice'[n].generation = 0
      BY <1>5, <2>4 DEF IInv, RowsArmed
    <3>2. revived'[n[1]] \in Nat /\ Armings(phase'[n[1]]) \in Nat
      BY <1>0, <1>3 DEF Armings
    <3> QED BY <3>1, <3>2
  <2>5. CASE n[1] = r /\ ~arms
    BY <1>0, <1>1, <1>3, <1>5, <2>1, <2>5 DEF Armings
  <2> QED BY <2>2, <2>3, <2>4, <2>5
<1>10. RowsArmed'
  <2> SUFFICES ASSUME NEW n \in Notices
               PROVE  /\ notice'[n].row # "no" => phase'[n[1]] # "none"
                      /\ ~Exists(n)' => notice'[n].generation = 0
                      /\ Undelivered(n)' => notice'[n].generation > 0
                      /\ notice'[n].token # <<0, 0>> => /\ notice'[n].token[1] = notice'[n].generation
                                                        /\ notice'[n].token[2] \in 1..notice'[n].claims
    BY DEF RowsArmed
  <2>1. phase[n[1]] # "none" => phase'[n[1]] # "none"
    BY <1>0, <1>3
  <2>2. CASE armed(n)
    BY <1>0, <1>4, <2>1, <2>2 DEF IInv, RowsArmed, Exists
  <2>3. CASE ~armed(n)
    BY <1>5, <2>1, <2>3 DEF IInv, RowsArmed, Exists, Undelivered
  <2> QED BY <2>2, <2>3
<1>11. EndedIsArmed'
  <2> SUFFICES ASSUME NEW n \in Notices, Exists(n)', phase'[n[1]] \in Final \cup {"pruned"}
               PROVE  notice'[n].ready /\ notice'[n].armed \in Final
    BY DEF EndedIsArmed
  <2>1. CASE armed(n)
    <3>1. is \in Final
      BY <1>3, <1>0, <2>1
    <3> QED BY <1>4, <2>1, <3>1 DEF Said
  <2>2. CASE ~armed(n)
    <3>1. notice'[n] = notice[n] /\ Exists(n)
      BY <1>5, <2>2 DEF Exists
    <3>2. phase[n[1]] \in Final \cup {"pruned"}
      BY <1>0, <1>1, <1>3, <2>2, <3>1
    <3> QED BY <3>1, <3>2 DEF IInv, EndedIsArmed
  <2> QED BY <2>1, <2>2
<1>12. OwedNodeNoticeIsNamed'
  <2> SUFFICES ASSUME NEW n \in Notices, n[2] \in Node, Exists(n)', ~notice'[n].delivered
               PROVE  phase'[n[1]] \in Rows
    BY DEF OwedNodeNoticeIsNamed
  <2>1. CASE n[1] = r
    BY <1>3, <2>1
  <2>2. CASE n[1] # r
    BY <1>0, <1>3, <1>5, <2>2 DEF IInv, OwedNodeNoticeIsNamed, Exists
  <2> QED BY <2>1, <2>2
<1>13. ClaimsSayTheEnd'
  <2> SUFFICES ASSUME NEW c \in PushClaims \cup PrintClaims \cup taken
               PROVE  /\ c.generation > 0 /\ notice'[c.of].row # "no"
                      /\ Exists(c.of)' => c.generation <= notice'[c.of].generation
                      /\ Present(c)' /\ phase'[c.of[1]] \in Final \cup {"pruned"} => c.phase \in Final
    BY <1>7 DEF ClaimsSayTheEnd
  <2>1. notice[c.of].row # "no" /\ (Present(c) /\ phase[c.of[1]] \in Final \cup {"pruned"} => c.phase \in Final)
    BY DEF IInv, ClaimsSayTheEnd
  <2>2. ASSUME Present(c)', phase'[c.of[1]] \in Final \cup {"pruned"} PROVE phase[c.of[1]] \in Final \cup {"pruned"}
    BY <1>0, <1>1, <1>3, <1>8, <2>2
  <2> QED BY <1>8, <2>1, <2>2
<1>14. ClaimsCounted' /\ ClaimsApart'
  BY <1>2, <1>7, <1>8 DEF IInv, ClaimsCounted, ClaimsApart
<1>15. SentIsTold'
  BY <1>2, <1>8, PushedAndPrinted DEF IInv, SentIsTold
<1>16. OneHolderPerSwarm'
  <2>1. ASSUME NEW c \in PushClaims, Current(c)' PROVE notice'[c.of] = notice[c.of]
    <3>1. c.token # <<0, 0>>
      BY ClaimTypes DEF IInv, ClaimsCounted
    <3> QED BY <1>4, <1>5, <1>8, <2>1, <3>1 DEF Current
  <2> SUFFICES ASSUME NEW p \in Pusher, NEW q \in Pusher, NEW c \in push[p], NEW d \in push[q],
                      Current(c)', Current(d)', notice'[c.of].live, notice'[d.of].live,
                      (d.of \in Members(c.of))'
               PROVE  p = q
    BY <1>2 DEF OneHolderPerSwarm
  <2>2. /\ c.of \in Notices /\ notice'[c.of] = notice[c.of]
        /\ d.of \in Notices /\ notice'[d.of] = notice[d.of]
    BY <1>8, <2>1, PushedAndPrinted
  <2>3. Current(c) /\ Current(d) /\ notice[c.of].live /\ notice[d.of].live
    BY <2>2 DEF Current, Undelivered, Exists
  <2>4. d.of \in Members(c.of)
    <3>1. \A n \in Notices : phase'[n[1]] \in Rows => phase[n[1]] \in Rows
      BY <1>0, <1>1, <1>3
    <3> QED BY <2>2, <3>1 DEF Members, Exists
  <2> QED BY <2>3, <2>4 DEF IInv, OneHolderPerSwarm
<1>17. DeliveredWasHeard'
  <2> SUFFICES ASSUME NEW n \in Notices, Exists(n)', notice'[n].delivered, notice'[n].generation > 0, ~lost'[n]
               PROVE  \E ph \in told'[n] \cup Printing(n)' : phase'[n[1]] \in Final => ph \in Final
    BY DEF DeliveredWasHeard
  <2>1. ~armed(n) /\ notice'[n] = notice[n] /\ Exists(n)
    BY <1>4, <1>5 DEF Exists
  <2>2. ~(n[1] = r /\ arms) /\ told'[n] = told[n] /\ ~lost[n]
    BY <1>2, <2>1
  <2>3. PICK ph \in told[n] \cup Printing(n) : phase[n[1]] \in Final => ph \in Final
    BY <2>1, <2>2 DEF IInv, DeliveredWasHeard
  <2>4. Printing(n) \subseteq Printing(n)'
    <3>1. \A c \in PrintClaims : c.of = n /\ Present(c) => Present(c)'
      BY <2>1 DEF Present
    <3> QED BY <1>7, <3>1 DEF Printing
  <2>5. phase'[n[1]] \in Final => phase[n[1]] \in Final
    BY <1>0, <1>1, <1>3, <2>2
  <2> QED BY <2>2, <2>3, <2>4, <2>5
<1> QED BY <1>6, <1>9, <1>10, <1>11, <1>12, <1>13, <1>14, <1>15, <1>16, <1>17 DEF IInv

-----------------------------------------------------------------------------
(* The invariant, and the theorems.                                        *)

\* There is no row and no claim at first.
LEMMA InitIInv ==
  ASSUME Init PROVE IInv
<1>1. PushClaims = {} /\ PrintClaims = {} /\ taken = {}
  BY DEF Init, PushClaims, PrintClaims
<1>2. \A n \in Notices : notice[n] = Absent
  BY DEF Init
<1>3. Absent.row = "no" /\ Absent.generation = 0 /\ Absent.token = <<0, 0>> /\ Absent.delivered = FALSE
  BY DEF Absent
<1>4. notice \in [Notices -> Record]
  <2>1. ASSUME NEW n \in Notices PROVE Absent \in Record
    BY GenerationsInNat DEF Absent, Record
  <2> QED BY <2>1 DEF Init
<1>5. TypeOK
  BY <1>4, Types, ConstantsAssumption DEF Init, TypeOK, Record
<1>6. ArmingsCounted
  BY <1>2, <1>3 DEF Init, ArmingsCounted, Armings
<1>7. RowsArmed /\ EndedIsArmed /\ OwedNodeNoticeIsNamed /\ DeliveredWasHeard
  BY <1>2, <1>3 DEF Init, RowsArmed, EndedIsArmed, OwedNodeNoticeIsNamed, DeliveredWasHeard, Exists, Undelivered
<1>8. ClaimsSayTheEnd /\ ClaimsCounted /\ ClaimsApart /\ SentIsTold /\ OneHolderPerSwarm
  BY <1>1 DEF Init, ClaimsSayTheEnd, ClaimsCounted, ClaimsApart, SentIsTold, OneHolderPerSwarm
<1> QED BY <1>5, <1>6, <1>7, <1>8 DEF IInv

\* A stutter changes nothing.
LEMMA StutterStep ==
  ASSUME IInv, UNCHANGED vars PROVE IInv'
<1>1. UNCHANGED <<run, notice, alive, push, sent, drain, taken, told, lost>>
  BY DEF vars
<1>2. TypeOK'
  BY <1>1, Types DEF IInv, TypeOK
<1>3. Calm
  BY <1>1 DEF Calm, Kept, NoClaimMade, NoTokenGiven, PrintClaims
<1>4. SentIsTold'
  BY <1>1, <1>3, SentKept
<1>5. DeliveredWasHeard'
  BY <1>1, <1>3, HeardKept DEF Printing, PrintClaims, Present
<1> QED BY <1>2, <1>3, <1>4, <1>5, CalmStep

\* A step of anybody keeps the invariant.
LEMMA NextIInv ==
  ASSUME IInv, [Next]_vars PROVE IInv'
<1>1. CASE Runs
  <2>1. ASSUME NEW r \in Run, NEW a \in Addr, Admit(r, a) \/ Reattach(r, a) PROVE IInv'
    BY <2>1, AdmitStep, ReattachStep
  <2>2. ASSUME NEW r \in Run, NEW is \in Rows, Move(r, is) PROVE IInv'
    BY <2>2, MoveStep
  <2>3. ASSUME NEW r \in Run, PruneRun(r) PROVE IInv'
    BY <2>3, PruneRunStep
  <2> QED BY <1>1, <2>1, <2>2, <2>3 DEF Runs
<1>2. CASE Callers
  <2>1. ASSUME NEW a \in Addr, Exit(a) PROVE IInv'
    BY <2>1, ExitStep
  <2>2. ASSUME NEW n \in Notices, Lapse(n) \/ GrowStale(n) \/ PruneNotice(n) PROVE IInv'
    BY <2>2, LapseOrGrowStaleStep, PruneNoticeStep
  <2> QED BY <1>2, <2>1, <2>2 DEF Callers
<1>3. CASE Host
  <2>1. ASSUME NEW n \in Notices, NEW answered \in BOOLEAN, Take(n, answered) PROVE IInv'
    BY <2>1, TakeStep
  <2>2. ASSUME NEW c \in taken, HostTell(c) \/ Ack(c) \/ Renew(c) PROVE IInv'
    BY <2>2, HostTellStep, AckStep, RenewStep
  <2>3. ASSUME NEW c \in taken, Forget(c) PROVE IInv'
    BY <2>3, ForgetStep DEF Forget
  <2>4. CASE Release
    BY <2>4, ReleaseStep
  <2> QED BY <1>3, <2>1, <2>2, <2>3, <2>4 DEF Host
<1>4. ASSUME NEW p \in Pusher, Pushes(p) PROVE IInv'
  <2>1. ASSUME NEW n \in Notices, Push(p, n) PROVE IInv'
    BY <2>1, PushStep
  <2> QED BY <1>4, <2>1, SendStep, MarkStep, GiveUpStep DEF Pushes
<1>5. ASSUME NEW d \in Drainer, Drains(d) \/ DrainKill(d) PROVE IInv'
  BY <1>5, DrainLookStep, DrainTakeStep, DrainPrintStep, DrainKillStep DEF Drains
<1>6. CASE UNCHANGED vars
  BY <1>6, StutterStep
<1> QED BY <1>1, <1>2, <1>3, <1>4, <1>5, <1>6 DEF Next

\* The inductive invariant holds of every behaviour.
THEOREM Invariance == Spec => []IInv
<1>1. Init => IInv
  BY InitIInv
<1>2. IInv /\ [Next]_vars => IInv'
  BY NextIInv
<1> QED BY <1>1, <1>2, PTL DEF Spec

\* The store, the pushers, the drains and the host stay within their types: above all, the
\* generations of a run's notices stay within what its revivals allow.
THEOREM TypeCorrect == Spec => []TypeOK
<1>1. IInv => TypeOK
  BY DEF IInv
<1> QED BY <1>1, Invariance, PTL

\* What is marked delivered was heard in that arming, or lost by a drain that had written, and
\* once the run is over it was its end that was heard (mark_notices_delivered, drain_main, ack_notice).
THEOREM DeliveredWasHeardAlways == Spec => []DeliveredWasHeard
<1>1. IInv => DeliveredWasHeard
  BY DEF IInv
<1> QED BY <1>1, Invariance, PTL

\* The trigger leaves no notice of a run that is over unarmed (runs_arm_notices).
THEOREM EndedIsArmedAlways == Spec => []EndedIsArmed
<1>1. IInv => EndedIsArmed
  BY DEF IInv
<1> QED BY <1>1, Invariance, PTL

\* A node's notice that is owed has its run's row still (prune_closed_runs).
THEOREM OwedNodeNoticeIsNamedAlways == Spec => []OwedNodeNoticeIsNamed
<1>1. IInv => OwedNodeNoticeIsNamed
  BY DEF IInv
<1> QED BY <1>1, Invariance, PTL

\* Two pushers never hold live claims of one swarm (claim_notice_rows).
THEOREM OneHolderPerSwarmAlways == Spec => []OneHolderPerSwarm
<1>1. IInv => OneHolderPerSwarm
  BY DEF IInv
<1> QED BY <1>1, Invariance, PTL

-----------------------------------------------------------------------------
(* Module Outbox: every step is one of its steps, or none.                 *)

\* What Outbox sees of a row is as it was.
SeenAs(n) == /\ notice'[n].row = notice[n].row /\ notice'[n].generation = notice[n].generation
             /\ notice'[n].delivered = notice[n].delivered

\* What is about to be printed depends on the claims and the armings alone.
LEMMA PrintingSame ==
  ASSUME PrintClaims' = PrintClaims, NEW n \in Notices, notice'[n].generation = notice[n].generation
  PROVE  Printing(n)' = Printing(n)
BY DEF Printing, Present

\* A step that Outbox does not see.
LEMMA UnseenMaps ==
  ASSUME \A r \in Run : Life(r)' = Life(r), \A n \in Notices : SeenAs(n),
         PrintClaims' = PrintClaims, UNCHANGED <<told, lost>>
  PROVE  UNCHANGED Out!outVars
<1>1. \A n \in Notices : Due(n)' = Due(n)
  BY DEF SeenAs, Due
<1>2. \A n \in Notices : Printing(n)' = Printing(n)
  BY PrintingSame DEF SeenAs
<1> QED BY <1>1, <1>2 DEF Out!outVars

\* A run whose phase stays keeps its life.
LEMMA LifeSame == ASSUME UNCHANGED phase PROVE \A r \in Run : Life(r)' = Life(r)
BY DEF Life

\* A message of any claim is heard of a notice that is owed or delivered, and says the end if there is one.
LEMMA HearMaps ==
  ASSUME IInv, NEW cs \in SUBSET (PushClaims \cup PrintClaims \cup taken), told' = Heard(cs),
         UNCHANGED <<run, notice, lost>>, PrintClaims' \subseteq PrintClaims,
         \A c \in PrintClaims : c \in PrintClaims' \/ c \in cs
  PROVE  Out!Next
<1>0. cs \in SUBSET Claims
  BY ClaimTypes DEF IInv
<1>1. /\ told' \in [Notices -> SUBSET Phases]
      /\ \A n \in Notices : told[n] \subseteq told'[n]
      /\ \A c \in cs : Present(c) => c.phase \in told'[c.of]
  BY <1>0, HeardOf DEF IInv
<1>2. ASSUME NEW n \in Notices, NEW word \in told'[n] \ told[n]
      PROVE  Due(n) \in {"owed", "delivered"} /\ (Life(n[1]) = "over" => word \in Final)
  <2>1. PICK c \in cs : c.of = n /\ Present(c) /\ c.phase = word
    BY <1>2 DEF Heard
  <2>2. /\ c.generation > 0 /\ notice[n].generation > 0 /\ notice[n].generation # 0
        /\ phase[n[1]] \in Final \cup {"pruned"} => word \in Final
    BY <2>1 DEF IInv, ClaimsSayTheEnd, Present
  <2>3. notice[n].row = "yes"
    BY <2>2 DEF IInv, RowsArmed, Exists
  <2>4. phase[n[1]] \in Phases
    BY Types DEF IInv
  <2> QED BY <2>2, <2>3, <2>4 DEF Due, Life
<1>3. \A n \in Notices : Printing(n)' \subseteq Printing(n)
  BY PushedAndPrinted, PushedAndPrintedNext DEF Present
<1>4. ASSUME NEW n \in Notices, Printing(n) # {}, Printing(n)' = {} PROVE told'[n] # {}
  <2>1. PICK c \in PrintClaims : c.of = n /\ Present(c)
    BY <1>4, PushedAndPrinted
  <2>2. c \notin PrintClaims'
    BY <1>4, <2>1, PushedAndPrintedNext DEF Present
  <2> QED BY <1>1, <2>1, <2>2
<1>5. \A r \in Run : Life(r)' = Life(r)
  BY LifeSame
<1>6. \A n \in Notices : Due(n)' = Due(n)
  BY DEF Due
<1>7. Out!Hear
  BY <1>1, <1>2, <1>3, <1>4, <1>5, <1>6 DEF Out!Hear, Out!Notice
<1> QED BY <1>7 DEF Out!Next

\* A delivery of owed notices whose callers have heard.
LEMMA DeliverMaps ==
  ASSUME IInv, NEW ns \in SUBSET Notices, notice' = Deliver(ns), PrintClaims' = PrintClaims,
         \A n \in ns : Undelivered(n) /\ told[n] # {}, UNCHANGED <<run, told, lost>>
  PROVE  Out!Next
<1>1. \A n \in Notices : /\ notice'[n].row = notice[n].row /\ notice'[n].generation = notice[n].generation
                         /\ notice'[n].delivered <=> notice[n].delivered \/ n \in ns
  BY DeliverFields DEF IInv
<1>2. \A n \in ns : Due(n) = "owed" /\ notice[n].row = "yes"
  BY DEF IInv, RowsArmed, Undelivered, Exists, Due
<1>3. \A n \in Notices : Due(n)' = IF n \in ns THEN "delivered" ELSE Due(n)
  BY <1>1, <1>2 DEF Due
<1>4. \A n \in Notices : Printing(n)' = Printing(n)
  BY <1>1, PrintingSame
<1>5. \A r \in Run : Life(r)' = Life(r)
  BY LifeSame
<1>6. Out!Deliver(ns)
  BY <1>2, <1>3, <1>4, <1>5 DEF Out!Deliver, Out!Delivered, Out!Notice
<1> QED BY <1>6 DEF Out!Next, Out!Notice

\* Leases, ages and exits are nothing that Outbox sees.
LEMMA CallersMap ==
  ASSUME IInv, (\E n \in Notices : Lapse(n) \/ GrowStale(n)) \/ \E a \in Addr : Exit(a)
  PROVE  UNCHANGED Out!outVars
<1>1. UNCHANGED <<run, drain, told, lost>>
  BY DEF Lapse, GrowStale, Exit
<1>2. \A r \in Run : Life(r)' = Life(r)
  BY <1>1, LifeSame
<1>3. CASE UNCHANGED notice
  BY <1>1, <1>2, <1>3, UnseenMaps DEF SeenAs, PrintClaims
<1>4. ASSUME NEW n \in Notices, Lapse(n) \/ GrowStale(n) PROVE UNCHANGED Out!outVars
  <2>1. Leased(n, FALSE) \/ Aged(n)
    BY <1>4 DEF Lapse, GrowStale, Leased, Aged
  <2>2. \A m \in Notices : SeenAs(m)
    BY <2>1, LeaseOrAge DEF SeenAs
  <2> QED BY <1>1, <1>2, <2>2, UnseenMaps DEF PrintClaims
<1> QED BY <1>3, <1>4 DEF Exit

\* Nor are the claims of anybody.
LEMMA ClaimingMaps ==
  ASSUME IInv, NEW ns, Claiming(ns)
  PROVE  UNCHANGED Out!outVars
<1>1. \A r \in Run : Life(r)' = Life(r)
  BY LifeSame DEF Claiming
<1>2. \A m \in Notices : SeenAs(m)
  BY ClaimingRows DEF SeenAs
<1>3. PrintClaims' = PrintClaims /\ UNCHANGED <<told, lost>>
  BY DEF Claiming, PrintClaims
<1> QED BY <1>1, <1>2, <1>3, UnseenMaps

\* A pusher: its claims are nobody's business, its message is heard, its mark delivers.
LEMMA PushesMap ==
  ASSUME IInv, NEW p \in Pusher, Pushes(p)
  PROVE  Out!Next \/ UNCHANGED Out!outVars
<1>1. ASSUME NEW n \in Notices, Push(p, n) PROVE UNCHANGED Out!outVars
  <2>1. Claiming(Batch(n))
    BY <1>1 DEF Push, Claiming, Batch, Members
  <2> QED BY <2>1, ClaimingMaps
<1>2. ASSUME Send(p) PROVE Out!Next
  <2>1. push[p] \in SUBSET (PushClaims \cup PrintClaims \cup taken)
    BY PushedAndPrinted
  <2>2. PrintClaims' = PrintClaims
    BY <1>2 DEF Send, PrintClaims
  <2> QED BY <1>2, <2>1, <2>2, HearMaps DEF Send
<1>3. ASSUME Mark(p) PROVE Out!Next
  <2>1. PrintClaims' = PrintClaims
    BY <1>3 DEF Mark, PrintClaims
  <2>2. ASSUME NEW n \in Marked(p) PROVE n \in Notices /\ Undelivered(n) /\ told[n] # {}
    <3>1. PICK c \in push[p] : c.of = n /\ Current(c)
      BY DEF Marked
    <3>2. c \in PushClaims
      BY PushedAndPrinted
    <3>3. Present(c) /\ c.of \in Notices /\ sent[p]
      BY <1>3, <3>1, <3>2, CurrentSays DEF Mark
    <3>4. c.phase \in told[n]
      BY <3>1, <3>3 DEF IInv, SentIsTold
    <3> QED BY <3>1, <3>3, <3>4 DEF Current
  <2> QED BY <1>3, <2>1, <2>2, DeliverMaps DEF Mark
<1>4. ASSUME GiveUp(p) PROVE UNCHANGED Out!outVars
  <2>1. \A r \in Run : Life(r)' = Life(r)
    BY <1>4, LifeSame DEF GiveUp
  <2> QED BY <1>4, <2>1, UnseenMaps DEF GiveUp, SeenAs, PrintClaims
<1> QED BY <1>1, <1>2, <1>3, <1>4 DEF Pushes

\* The host: a claim, a renewal and a release are not seen, what it tells is heard, its acknowledgement delivers.
LEMMA HostMaps ==
  ASSUME IInv, Host
  PROVE  Out!Next \/ UNCHANGED Out!outVars
<1>1. ASSUME NEW n \in Notices, NEW answered \in BOOLEAN, Take(n, answered) PROVE UNCHANGED Out!outVars
  <2>0. notice \in [Notices -> Record]
    BY Types DEF IInv
  <2>1. Claiming({n})
    BY <1>1, <2>0 DEF Take, Claiming
  <2> QED BY <2>1, ClaimingMaps
<1>2. ASSUME NEW c \in taken, HostTell(c) PROVE Out!Next
  <2>1. PrintClaims' = PrintClaims
    BY <1>2 DEF HostTell, PrintClaims
  <2> QED BY <1>2, <2>1, HearMaps DEF HostTell
<1>3. ASSUME NEW c \in taken, Ack(c), HeldByHost(c) PROVE Out!Next
  <2>1. Current(c) /\ notice' = Deliver({c.of}) /\ UNCHANGED <<run, drain, told, lost>>
    BY <1>3 DEF Ack, HeldByHost
  <2>2. Present(c) /\ c.of \in Notices
    BY <2>1, CurrentSays
  <2>3. Undelivered(c.of) /\ told[c.of] # {}
    BY <1>3, <2>1, <2>2 DEF Ack, Current
  <2>4. PrintClaims' = PrintClaims
    BY <2>1 DEF PrintClaims
  <2> QED BY <2>1, <2>2, <2>3, <2>4, DeliverMaps
<1>4. ASSUME NEW c \in taken, (Ack(c) /\ ~HeldByHost(c)) \/ Forget(c) PROVE UNCHANGED Out!outVars
  <2>1. UNCHANGED <<run, notice, drain, told, lost>>
    BY <1>4 DEF Ack, Forget
  <2>2. \A r \in Run : Life(r)' = Life(r)
    BY <2>1, LifeSame
  <2> QED BY <2>1, <2>2, UnseenMaps DEF SeenAs, PrintClaims
<1>5. ASSUME NEW c \in taken, Renew(c) PROVE UNCHANGED Out!outVars
  <2>1. Leased(c.of, TRUE) /\ UNCHANGED <<run, drain, told, lost>> /\ c.of \in Notices
    BY <1>5, ClaimTypes DEF IInv, Renew, Leased
  <2>2. \A r \in Run : Life(r)' = Life(r)
    BY <2>1, LifeSame
  <2>3. \A m \in Notices : SeenAs(m)
    <3> DEFINE n == c.of
    <3>1. n \in Notices /\ Leased(n, TRUE)
      BY <2>1
    <3> HIDE DEF n
    <3> QED BY <3>1, LeaseOrAge DEF SeenAs
  <2> QED BY <2>1, <2>2, <2>3, UnseenMaps DEF PrintClaims
<1>6. ASSUME Release PROVE UNCHANGED Out!outVars
  <2>1. /\ UNCHANGED <<run, alive, push, sent, drain, taken, told, lost>>
        /\ \A m \in Notices : SeenAs(m)
    BY <1>6, ReleaseFields DEF SeenAs
  <2>2. \A r \in Run : Life(r)' = Life(r)
    BY <2>1, LifeSame
  <2> QED BY <2>1, <2>2, UnseenMaps DEF PrintClaims
<1> QED BY <1>1, <1>2, <1>3, <1>4, <1>5, <1>6 DEF Host

\* A drain that writes promises what it has delivered, and no node's notice.
LEMMA DrainTakeMaps ==
  ASSUME IInv, NEW d \in Drainer, DrainTake(d) PROVE Out!Next
<1> DEFINE ns == Drained(drain[d].of)
<1>1. /\ notice' = Deliver(ns) /\ UNCHANGED <<run, told, lost>>
      /\ drain' = [drain EXCEPT ![d] = [pc |-> "print", of |-> {Claim(n) : n \in ns}]]
      /\ drain \in [Drainer -> Drain] /\ drain[d].pc = "looked"
  BY Types DEF IInv, DrainTake
<1>2. ns \in SUBSET Notices /\ \A n \in ns : Undelivered(n) /\ n[2] \notin Node
  BY DEF Drained, Free
<1> HIDE DEF ns
<1>3. \A n \in Notices : /\ notice'[n].row = notice[n].row /\ notice'[n].generation = notice[n].generation
                         /\ notice'[n].delivered <=> notice[n].delivered \/ n \in ns
  BY <1>1, DeliverFields DEF IInv
<1>4. \A n \in ns : Due(n) = "owed" /\ notice[n].row = "yes"
  BY <1>2 DEF IInv, RowsArmed, Undelivered, Exists, Due
<1>5. \A n \in Notices : Due(n)' = IF n \in ns THEN "delivered" ELSE Due(n)
  BY <1>3, <1>4 DEF Due
<1>6. \A c : c \in PrintClaims' <=> c \in PrintClaims \/ \E n \in ns : c = Claim(n)
  BY <1>1, PushedAndPrinted, PushedAndPrintedNext
<1>7. ASSUME NEW n \in Notices PROVE Printing(n)' # {} <=> Printing(n) # {} \/ n \in ns
  <2>1. ASSUME n \in ns PROVE Printing(n)' # {}
    <3>1. Claim(n).of = n /\ Claim(n).generation = notice'[n].generation /\ Claim(n) \in PrintClaims'
      BY <1>2, <1>3, <1>6, <2>1, FreshClaimOf
    <3> QED BY <3>1, PushedAndPrintedNext DEF Present
  <2>2. ASSUME NEW c \in PrintClaims, c.of = n, Present(c) PROVE Printing(n)' # {}
    <3>1. Present(c)' /\ c \in PrintClaims'
      BY <1>3, <1>6, <2>2 DEF Present
    <3>2. c.phase \in Printing(n)'
      BY <2>2, <3>1, PushedAndPrintedNext
    <3> QED BY <3>2
  <2>3. ASSUME NEW c \in PrintClaims', c.of = n, Present(c)' PROVE Printing(n) # {} \/ n \in ns
    <3>1. CASE c \in PrintClaims
      BY <1>3, <2>3, <3>1, PushedAndPrinted DEF Present
    <3>2. CASE \E m \in ns : c = Claim(m)
      BY <1>2, <2>3, <3>2, FreshClaimOf
    <3> QED BY <1>6, <3>1, <3>2
  <2> QED BY <2>1, <2>2, <2>3, PushedAndPrinted, PushedAndPrintedNext
<1>8. \A r \in Run : Life(r)' = Life(r)
  BY <1>1, LifeSame
<1>9. Out!Promise(ns)
  BY <1>1, <1>2, <1>4, <1>5, <1>7, <1>8 DEF Out!Promise, Out!Delivered, Out!Notice
<1> QED BY <1>2, <1>9 DEF Out!Next, Out!Notice

\* A drain's look is not seen, what it prints is heard, and its end breaks the promise.
LEMMA DrainsMap ==
  ASSUME IInv, NEW d \in Drainer, Drains(d) \/ DrainKill(d)
  PROVE  Out!Next \/ UNCHANGED Out!outVars
<1>1. ASSUME DrainLook(d) PROVE UNCHANGED Out!outVars
  <2>1. drain \in [Drainer -> Drain] /\ UNCHANGED <<run, notice, told, lost>>
    BY <1>1, Types DEF IInv, DrainLook
  <2>2. PICK ns \in SUBSET Notices : drain' = [drain EXCEPT ![d] = [pc |-> "looked", of |-> ns]]
    BY <1>1 DEF DrainLook
  <2>3. \A c : c \in PrintClaims' <=> c \in PrintClaims
    BY <1>1, <2>1, <2>2, PushedAndPrinted, PushedAndPrintedNext DEF DrainLook
  <2>4. PrintClaims' = PrintClaims
    BY <2>3 DEF PrintClaims
  <2>5. \A r \in Run : Life(r)' = Life(r)
    BY <2>1, LifeSame
  <2> QED BY <2>1, <2>4, <2>5, UnseenMaps DEF SeenAs
<1>2. ASSUME DrainPrint(d) PROVE Out!Next
  <2>1. /\ told' = Heard(drain[d].of) /\ drain[d].pc = "print" /\ UNCHANGED <<run, notice, lost>>
        /\ drain' = [drain EXCEPT ![d] = [pc |-> "idle", of |-> {}]]
    BY <1>2 DEF DrainPrint
  <2>2. drain[d].of \in SUBSET (PushClaims \cup PrintClaims \cup taken)
    BY <2>1, PushedAndPrinted
  <2>3. PrintClaims' \subseteq PrintClaims /\ \A c \in PrintClaims : c \in PrintClaims' \/ c \in drain[d].of
    BY <2>1, DrainEnds DEF IInv
  <2> QED BY <2>1, <2>2, <2>3, HearMaps
<1>3. ASSUME DrainKill(d) PROVE Out!Next
  <2>1. /\ drain' = [drain EXCEPT ![d] = [pc |-> "idle", of |-> {}]] /\ UNCHANGED <<run, notice, told>>
        /\ drain[d].pc # "idle" /\ drain[d] \in Drain
    BY <1>3, Types DEF IInv, DrainKill
  <2>2. PrintClaims' \subseteq PrintClaims
        /\ \A c \in PrintClaims : c \in PrintClaims' \/ (drain[d].pc = "print" /\ c \in drain[d].of)
    BY <2>1, DrainEnds DEF IInv
  <2>3. \A n \in Notices : Printing(n)' \subseteq Printing(n)
    BY <2>1, <2>2, PushedAndPrinted, PushedAndPrintedNext DEF Present
  <2>4. CASE drain[d].pc = "looked"
    <3>1. lost' = lost
      BY <1>3, <2>4 DEF DrainKill
    <3>2. \A n \in Notices : Printing(n) \subseteq Printing(n)'
      BY <2>1, <2>2, <2>4, PushedAndPrinted, PushedAndPrintedNext DEF Present
    <3>3. \A n \in Notices : Due(n)' = Due(n)
      BY <2>1 DEF Due
    <3>4. \A r \in Run : Life(r)' = Life(r)
      BY <2>1, LifeSame
    <3>5. Out!Break
      BY <2>1, <2>3, <3>1, <3>2, <3>3, <3>4 DEF Out!Break
    <3> QED BY <3>5 DEF Out!Next
  <2>5. CASE drain[d].pc = "print"
    <3>1. lost' = [n \in Notices |-> lost[n] \/ \E c \in drain[d].of : c.of = n /\ Present(c)]
      BY <1>3, <2>5 DEF DrainKill
    <3>2. ASSUME NEW n \in Notices PROVE /\ lost[n] => lost'[n]
                                         /\ lost'[n] => lost[n] \/ Printing(n) # {}
                                         /\ Printing(n) # {} /\ Printing(n)' = {} => lost'[n]
      <4>1. lost'[n] <=> lost[n] \/ \E c \in drain[d].of : c.of = n /\ Present(c)
        BY <3>1
      <4>2. \A c \in drain[d].of : c \in PrintClaims
        BY <2>5, PushedAndPrinted
      <4>3. ASSUME NEW c \in PrintClaims, c.of = n, Present(c), Printing(n)' = {} PROVE c \in drain[d].of
        <5>1. Present(c)'
          BY <2>1, <4>3 DEF Present
        <5>2. c \notin PrintClaims'
          BY <4>3, <5>1, PushedAndPrintedNext
        <5> QED BY <2>2, <4>3, <5>2
      <4> QED BY <4>1, <4>2, <4>3, PushedAndPrinted
    <3>3. \A n \in Notices : Due(n)' = Due(n)
      BY <2>1 DEF Due
    <3>4. \A r \in Run : Life(r)' = Life(r)
      BY <2>1, LifeSame
    <3>5. Out!Break
      BY <2>1, <2>3, <3>2, <3>3, <3>4 DEF Out!Break
    <3> QED BY <3>5 DEF Out!Next
  <2> QED BY <2>1, <2>4, <2>5 DEF Drain
<1> QED BY <1>1, <1>2, <1>3, DrainTakeMaps DEF Drains

\* A new row: its run is dispatched or joined, and nothing is printed of it.
LEMMA NewRowMaps ==
  ASSUME IInv, NEW r \in Run, NEW a \in Addr, Admit(r, a) \/ Reattach(r, a)
  PROVE  Out!Next
<1> DEFINE w == <<r, a>>
<1>0. phase \in [Run -> Phases] /\ notice \in [Notices -> Record] /\ w \in Notices /\ w[1] = r
  BY Types DEF IInv
<1>1. notice[w].row = "no" /\ notice[w].generation = 0
  BY <1>0 DEF IInv, RowsArmed, Admit, Reattach, Exists
<1>2. PICK x : notice' = [notice EXCEPT ![w] = x]
      /\ x = IF Admit(r, a) THEN Pending ELSE Reattached(r)
  BY <1>0 DEF Admit, Reattach
<1>3. x.row = "yes" /\ x.generation = 0
  BY <1>2 DEF Reattached, Pending, Absent
<1> HIDE DEF w
<1>4. \A n \in Notices : notice'[n] = IF n = w THEN x ELSE notice[n]
  BY <1>0, <1>2
<1>5. PrintClaims' = PrintClaims /\ UNCHANGED <<told, lost>>
  BY DEF Admit, Reattach, PrintClaims
<1>6. \A n \in Notices : Printing(n)' = Printing(n)
  BY <1>1, <1>3, <1>4, <1>5, PrintingSame
<1>7. \A n \in Notices : Due(n)' = IF n = w THEN (IF x.delivered THEN "delivered" ELSE "waiting") ELSE Due(n)
  BY <1>3, <1>4 DEF Due
<1>8. Due(w) = "none" /\ w \in Out!Of(r)
  BY <1>0, <1>1 DEF Due, Out!Of, Out!Notice
<1>9. CASE Admit(r, a)
  <2>1. phase[r] = "none" /\ \A s \in Run : phase'[s] = IF s = r THEN "running" ELSE phase[s]
    BY <1>0, <1>9 DEF Admit
  <2>2. Life(r) = "none" /\ \A s \in Run : Life(s)' = IF s = r THEN "live" ELSE Life(s)
    BY <2>1 DEF Life
  <2>3. ~x.delivered
    BY <1>2, <1>9 DEF Pending, Absent
  <2>4. Out!Dispatch(r, w)
    BY <1>0, <1>5, <1>6, <1>7, <1>8, <2>2, <2>3 DEF Out!Dispatch
  <2> QED BY <1>0, <2>4 DEF Out!Next, Out!Notice
<1>10. CASE ~Admit(r, a)
  <2>1. UNCHANGED phase /\ phase[r] \in {"running", "orphaned"} /\ x = Reattached(r)
    BY <1>2, <1>10 DEF Reattach
  <2>2. /\ phase[r] = "running" => ~x.delivered
        /\ phase[r] = "orphaned" => x.delivered
    BY <2>1 DEF Reattached, Pending, Absent
  <2>3. /\ phase[r] = "running" => Life(r) = "live"
        /\ phase[r] = "orphaned" => Life(r) = "orphaned"
        /\ \A s \in Run : Life(s)' = Life(s)
    BY <2>1 DEF Life
  <2>4. Out!Join(r, w)
    BY <1>0, <1>5, <1>6, <1>7, <1>8, <2>1, <2>2, <2>3 DEF Out!Join
  <2> QED BY <1>0, <2>4 DEF Out!Next, Out!Notice
<1> QED BY <1>9, <1>10

\* A row that goes is dropped with all that was heard of it.
LEMMA PruneNoticeMaps ==
  ASSUME IInv, NEW n \in Notices, PruneNotice(n) PROVE Out!Next
<1> DEFINE x == [Absent EXCEPT !.row = "gone"]
<1>0. notice \in [Notices -> Record] /\ told \in [Notices -> SUBSET Phases] /\ lost \in [Notices -> BOOLEAN]
  BY Types DEF IInv
<1>1. /\ notice[n].row = "yes" /\ (n[2] \in Node => notice[n].delivered) /\ notice' = [notice EXCEPT ![n] = x]
      /\ told' = [told EXCEPT ![n] = {}] /\ lost' = [lost EXCEPT ![n] = FALSE]
      /\ UNCHANGED <<run, drain>>
  BY DEF PruneNotice, Exists
<1>2. x.row = "gone" /\ x.generation = 0
  BY DEF Absent
<1> HIDE DEF x
<1>3. /\ \A m \in Notices : notice'[m] = IF m = n THEN x ELSE notice[m]
      /\ \A m \in Notices : lost'[m] <=> lost[m] /\ m # n
      /\ PrintClaims' = PrintClaims
  BY <1>0, <1>1 DEF PrintClaims
<1>4. \A m \in Notices : Due(m)' = IF m = n THEN "gone" ELSE Due(m)
  BY <1>2, <1>3 DEF Due
<1>5. Due(n) \notin {"none", "gone"} /\ (n[2] \in Node => Due(n) = "delivered")
  BY <1>1 DEF Due
<1>6. \A m \in Notices : m # n => Printing(m)' = Printing(m)
  BY <1>3, PrintingSame
<1>7. Printing(n)' = {}
  <2> SUFFICES ASSUME NEW c \in PrintClaims, c.of = n, Present(c)' PROVE FALSE
    BY <1>3, PushedAndPrintedNext
  <2>1. c.generation > 0 /\ c.generation = 0
    BY <1>2, <1>3 DEF IInv, ClaimsSayTheEnd, Present
  <2> QED BY <2>1
<1>8. \A r \in Run : Life(r)' = Life(r)
  BY <1>1, LifeSame
<1>9. Out!Drop(n)
  BY <1>1, <1>3, <1>4, <1>5, <1>6, <1>7, <1>8 DEF Out!Drop
<1> QED BY <1>9 DEF Out!Next, Out!Notice

\* A pruned run is over still.
LEMMA PruneRunMaps ==
  ASSUME IInv, NEW r \in Run, PruneRun(r) PROVE UNCHANGED Out!outVars
<1>1. phase \in [Run -> Phases] /\ phase[r] = "closed" /\ phase' = [phase EXCEPT ![r] = "pruned"]
      /\ UNCHANGED <<notice, drain, told, lost>>
  BY Types DEF IInv, PruneRun, Prunable
<1>2. \A s \in Run : phase'[s] = IF s = r THEN "pruned" ELSE phase[s]
  BY <1>1
<1>3. \A s \in Run : Life(s)' = Life(s)
  BY <1>1, <1>2 DEF Life
<1> QED BY <1>1, <1>3, UnseenMaps DEF SeenAs, PrintClaims

\* A phase that arms is a turn: all that is known of the run is owed again, and nothing was heard.
LEMMA ArmingMoveMaps ==
  ASSUME IInv, NEW r \in Run, NEW is \in Rows, Move(r, is), Arms(phase[r], is)
  PROVE  Out!Next
<1> DEFINE turned == IF is = "orphaned" THEN "orphaned" ELSE "over"
<1>0. /\ phase \in [Run -> Phases] /\ notice \in [Notices -> Record]
      /\ \A n \in Notices : n[1] \in Run /\ notice[n].generation \in Nat
  BY Types, GenerationsInNat DEF IInv, Record
<1>1. /\ is \in Terminal /\ phase[r] \in {"running", "orphaned"} /\ (phase[r] = "orphaned" => is \in Final)
      /\ \A s \in Run : phase'[s] = IF s = r THEN is ELSE phase[s]
      /\ \A n \in Notices : notice'[n] = IF n[1] = r /\ Exists(n) THEN Armed(n, is) ELSE notice[n]
      /\ \A n \in Notices : told'[n] = IF n[1] = r THEN {} ELSE told[n]
      /\ \A n \in Notices : lost'[n] <=> lost[n] /\ n[1] # r
      /\ PrintClaims' = PrintClaims
      /\ told' = [n \in Notices |-> IF n[1] = r THEN {} ELSE told[n]]
  <2>1. /\ phase' = [phase EXCEPT ![r] = is] /\ UNCHANGED drain
        /\ notice' = [n \in Notices |-> IF n[1] = r /\ Exists(n) /\ Arms(phase[r], is)
                                        THEN Armed(n, is) ELSE notice[n]]
        /\ told' = [n \in Notices |-> IF n[1] = r /\ Arms(phase[r], is) THEN {} ELSE told[n]]
        /\ lost' = [n \in Notices |-> ~(n[1] = r /\ Arms(phase[r], is)) /\ lost[n]]
    BY DEF Move
  <2>2. is \in Terminal /\ phase[r] \in {"running", "orphaned"} /\ (phase[r] = "orphaned" => is \in Final)
    BY MoveArms
  <2> QED BY <1>0, <2>1, <2>2 DEF PrintClaims
<1>2. \A n \in Notices : n[1] = r /\ Exists(n) =>
        /\ notice'[n].row = "yes" /\ ~notice'[n].delivered
        /\ notice'[n].generation = notice[n].generation + 1 /\ notice'[n].generation # 0
  BY <1>0, <1>1, ArmedFields DEF IInv, Exists
<1>3. ASSUME NEW n \in Notices
      PROVE  Due(n)' = IF n[1] = r /\ Due(n) \notin {"none", "gone"} THEN "owed" ELSE Due(n)
  <2>1. CASE n[1] = r /\ Exists(n)
    BY <1>2, <2>1 DEF Due, Exists
  <2>2. CASE n[1] = r /\ ~Exists(n)
    <3>1. notice'[n] = notice[n] /\ notice[n].row \in {"no", "gone"}
      BY <1>0, <1>1, <2>2 DEF Exists, Record
    <3> QED BY <3>1 DEF Due
  <2>3. CASE n[1] # r
    BY <1>1, <2>3 DEF Due
  <2> QED BY <2>1, <2>2, <2>3
<1>4. ASSUME NEW n \in Notices, n[1] = r PROVE Printing(n)' = {}
  <2> SUFFICES ASSUME NEW c \in PrintClaims, c.of = n, Present(c)' PROVE FALSE
    BY <1>1, PushedAndPrintedNext
  <2>1. c.generation > 0 /\ c.generation \in Nat /\ (Exists(n) => c.generation <= notice[n].generation)
        /\ (~Exists(n) => notice[n].generation = 0)
    BY ClaimTypes DEF IInv, ClaimsSayTheEnd, RowsArmed
  <2>2. CASE Exists(n)
    BY <1>0, <1>2, <1>4, <2>1, <2>2 DEF Present
  <2>3. CASE ~Exists(n)
    BY <1>1, <2>1, <2>3 DEF Present
  <2> QED BY <2>2, <2>3
<1>5. \A n \in Notices : n[1] # r => Printing(n)' = Printing(n)
  BY <1>1, PrintingSame
<1>6. /\ Life(r) \in {"live", "orphaned"} /\ turned # Life(r) /\ turned \in {"orphaned", "over"}
      /\ \A s \in Run : Life(s)' = IF s = r THEN turned ELSE Life(s)
  BY <1>0, <1>1 DEF Life
<1> HIDE DEF turned
<1>7. Out!Turn(r, turned)
  <2>1. [s \in Run |-> Life(s)]' = [[s \in Run |-> Life(s)] EXCEPT ![r] = turned]
    BY <1>6
  <2>2. {n \in Notices : Printing(n) # {}}' = {n \in Notices : Printing(n) # {}} \ {n \in Notices : n[1] = r}
    BY <1>4, <1>5
  <2>3. {n \in Notices : lost[n]}' = {n \in Notices : lost[n]} \ {n \in Notices : n[1] = r}
    BY <1>1
  <2>4. [n \in Notices |-> Due(n)]' =
          [n \in Notices |-> IF n[1] = r /\ Due(n) \notin {"none", "gone"} THEN "owed" ELSE Due(n)]
    BY <1>3
  <2> QED BY <1>1, <1>6, <2>1, <2>2, <2>3, <2>4 DEF Out!Turn, Out!Of, Out!Notice
<1> QED BY <1>6, <1>7 DEF Out!Next

\* A revival brings the run back and owes nothing; a close of a run that is over is not seen.
LEMMA MoveMaps ==
  ASSUME IInv, NEW r \in Run, NEW is \in Rows, Move(r, is)
  PROVE  Out!Next \/ UNCHANGED Out!outVars
<1>1. CASE Arms(phase[r], is)
  BY <1>1, ArmingMoveMaps
<1>2. CASE ~Arms(phase[r], is)
  <2>0. phase \in [Run -> Phases] /\ notice \in [Notices -> Record]
        /\ told \in [Notices -> SUBSET Phases] /\ lost \in [Notices -> BOOLEAN]
    BY Types DEF IInv
  <2>1. (phase[r] = "orphaned" /\ is = "running") \/ (phase[r] = "ended" /\ is = "closed")
    BY <1>2, MoveArms
  <2>2. /\ \A s \in Run : phase'[s] = IF s = r THEN is ELSE phase[s]
        /\ \A n \in Notices : notice'[n] = notice[n]
        /\ told' = told /\ lost' = lost /\ PrintClaims' = PrintClaims
    <3>1. /\ phase' = [phase EXCEPT ![r] = is] /\ UNCHANGED drain
          /\ notice' = [n \in Notices |-> IF n[1] = r /\ Exists(n) /\ Arms(phase[r], is)
                                          THEN Armed(n, is) ELSE notice[n]]
          /\ told' = [n \in Notices |-> IF n[1] = r /\ Arms(phase[r], is) THEN {} ELSE told[n]]
          /\ lost' = [n \in Notices |-> ~(n[1] = r /\ Arms(phase[r], is)) /\ lost[n]]
      BY DEF Move
    <3>2. told' = told /\ lost' = lost
      BY <1>2, <2>0, <3>1
    <3> QED BY <1>2, <2>0, <3>1, <3>2 DEF PrintClaims
  <2>3. CASE phase[r] = "ended" /\ is = "closed"
    <3>1. \A s \in Run : Life(s)' = Life(s)
      BY <2>2, <2>3 DEF Life
    <3> QED BY <2>2, <3>1, UnseenMaps DEF SeenAs
  <2>4. CASE phase[r] = "orphaned" /\ is = "running"
    <3>1. Life(r) = "orphaned" /\ \A s \in Run : Life(s)' = IF s = r THEN "live" ELSE Life(s)
      BY <2>2, <2>4 DEF Life
    <3>2. \A n \in Notices : Due(n)' = Due(n) /\ Printing(n)' = Printing(n)
      BY <2>2, PrintingSame DEF Due
    <3>3. Out!Revive(r)
      BY <2>2, <3>1, <3>2 DEF Out!Revive
    <3> QED BY <3>3 DEF Out!Next
  <2> QED BY <2>1, <2>3, <2>4
<1> QED BY <1>1, <1>2

\* Nobody has dispatched anything at first.
LEMMA InitMaps == Init => Out!Init
<1> SUFFICES ASSUME Init PROVE Out!Init
  OBVIOUS
<1>1. ASSUME NEW r \in Run PROVE Life(r) = "none"
  BY DEF Init, Life
<1>2. ASSUME NEW n \in Notices PROVE Due(n) = "none" /\ Printing(n) = {} /\ ~lost[n]
  BY DEF Init, Due, Absent, Printing, PrintClaims
<1> QED BY <1>1, <1>2 DEF Init, Out!Init, Out!Notice

\* Every step is one of the outbox's, or none.
LEMMA NextMaps ==
  ASSUME IInv, [Next]_vars
  PROVE  Out!Next \/ UNCHANGED Out!outVars
<1>1. CASE Runs
  <2>1. ASSUME NEW r \in Run, NEW a \in Addr, Admit(r, a) \/ Reattach(r, a) PROVE Out!Next
    BY <2>1, NewRowMaps
  <2>2. ASSUME NEW r \in Run, NEW is \in Rows, Move(r, is) PROVE Out!Next \/ UNCHANGED Out!outVars
    BY <2>2, MoveMaps
  <2>3. ASSUME NEW r \in Run, PruneRun(r) PROVE UNCHANGED Out!outVars
    BY <2>3, PruneRunMaps
  <2> QED BY <1>1, <2>1, <2>2, <2>3 DEF Runs
<1>2. CASE Callers
  <2>1. ASSUME NEW a \in Addr, Exit(a) PROVE UNCHANGED Out!outVars
    BY <2>1, CallersMap
  <2>2. ASSUME NEW n \in Notices, Lapse(n) \/ GrowStale(n) PROVE UNCHANGED Out!outVars
    BY <2>2, CallersMap
  <2>3. ASSUME NEW n \in Notices, PruneNotice(n) PROVE Out!Next
    BY <2>3, PruneNoticeMaps
  <2> QED BY <1>2, <2>1, <2>2, <2>3 DEF Callers
<1>3. CASE UNCHANGED vars
  <2>1. UNCHANGED <<run, notice, drain, told, lost>>
    BY <1>3 DEF vars
  <2>2. \A r \in Run : Life(r)' = Life(r)
    BY <2>1, LifeSame
  <2> QED BY <2>1, <2>2, UnseenMaps DEF SeenAs, PrintClaims
<1> QED BY <1>1, <1>2, <1>3, HostMaps, PushesMap, DrainsMap DEF Next

\* Refinement: whatever claims lapse, come late or are killed, a notice is owed from the step its run is
\* orphaned or over in, and is delivered after its caller heard of that arming, or to a drain's session.
THEOREM Implementation == Spec => ImplementsOutbox
<1>1. IInv /\ [Next]_vars => [Out!Next]_(Out!outVars)
  BY NextMaps
<1> QED BY <1>1, InitMaps, Invariance, PTL DEF Spec, ImplementsOutbox, Out!Spec
=============================================================================
