---------------------------- MODULE NoticeOutbox ----------------------------
(***************************************************************************)
(* The notice outbox of nspawn: a caller is told that the run it           *)
(* dispatched ended.  The database arms a run's notices on every entry     *)
(* into a terminal phase; pushers claim them under fresh tokens, send and  *)
(* mark; a session that starts drains what no live caller will hear; the   *)
(* host takes, renews and acknowledges the notices of its nodes.           *)
(*                                                                         *)
(* src/packages/nspawn/nspawn/notify.py, registry.py, schema.py.           *)
(*                                                                         *)
(* A notice is a pair of a run and the address it is owed to.  Time is     *)
(* what may happen: a lease lapses, a notice grows stale, a row gets old.  *)
(* "ended" stands for completed and failed.                                *)
(***************************************************************************)
EXTENDS Naturals

CONSTANTS Run, Addr, Pusher, Drainer,
          Node,        \* the addresses of non-centre nodes: the host's to deliver
          Remote,      \* the addresses with no socket on this machine
          Swarm,       \* the runs of one swarm: group
          MaxRevived,  \* bounds on how often each run leaves "orphaned" for "running"
          MaxClaims    \* bound on the claims of one arming, by address

ASSUME ConstantsAssumption ==
  /\ Node \subseteq Addr /\ Remote \subseteq Addr \ Node /\ Swarm \subseteq Run
  /\ MaxRevived \in [Run -> Nat] /\ MaxClaims \in [Addr -> Nat \ {0}]

VARIABLES phase,     \* the run's row: its phase, "none" before and "pruned" after it
          revived,   \* how often it was revived
          notice,    \* the rows of notices
          alive,     \* the process that owns an address lives
          push,      \* the claims each pusher works on
          sent,      \* it has sent their message
          drain,     \* each drain: what it has read, what it has to print
          taken,     \* the claims the host works on
          told,      \* the phases a reader heard of the present arming
          lost       \* a drain lost it after its delivery

run == <<phase, revived>>
vars == <<run, notice, alive, push, sent, drain, taken, told, lost>>

Notices == Run \X Addr
Final == {"ended", "closed"}
Terminal == Final \cup {"orphaned"}
\* A row of runs, or none.
Rows == {"running"} \cup Terminal
Phases == Rows \cup {"none", "pruned"}

Absent == [row |-> "no", ready |-> FALSE, delivered |-> FALSE, generation |-> 0, armed |-> "none",
           token |-> <<0, 0>>, claims |-> 0, live |-> FALSE, stale |-> FALSE]
Pending == [Absent EXCEPT !.row = "yes"]

Init ==
  /\ phase = [r \in Run |-> "none"] /\ revived = [r \in Run |-> 0]
  /\ notice = [n \in Notices |-> Absent]
  /\ alive = [a \in Addr |-> TRUE]
  /\ push = [p \in Pusher |-> {}] /\ sent = [p \in Pusher |-> FALSE]
  /\ drain = [d \in Drainer |-> [pc |-> "idle", of |-> {}]]
  /\ taken = {}
  /\ told = [n \in Notices |-> {}] /\ lost = [n \in Notices |-> FALSE]

-----------------------------------------------------------------------------
(* The rows.                                                               *)

Exists(n) == notice[n].row = "yes"
Undelivered(n) == Exists(n) /\ notice[n].ready /\ ~notice[n].delivered

\* Seeded fault: a claim, lapsed or not, keeps everybody else away.
FreeUnclaimed(n) == Undelivered(n) /\ notice[n].token = <<0, 0>>

\* _NOTICE_FREE_SQL: ready, undelivered, and no live claim on it.
Free(n) == Undelivered(n) /\ ~notice[n].live

\* _SWARM_MEMBERS_SQL: of one caller, and only while the runs' rows are there.
Members(n) ==
  IF n[1] \in Swarm /\ phase[n[1]] \in Rows
  THEN {m \in Notices : m[1] \in Swarm /\ phase[m[1]] \in Rows /\ m[2] = n[2] /\ Exists(m)}
  ELSE {}

\* Seeded fault: a member under another pusher's claim does not hold the swarm.
HeldByRuns(n) == \E m \in Members(n) : ~notice[m].ready

\* _SWARM_HELD_SQL: a member is not armed yet, or is under a live claim.
Held(n) ==
  \E m \in Members(n) : ~notice[m].ready \/ (~notice[m].delivered /\ notice[m].live)

\* What a message says of a run: that it is over, or not.
Said(is) == IF is \in Final THEN "ended" ELSE is

\* _NOTICE_PHASE_SQL: the run's phase, or the armed one once the run is pruned.
PhaseOf(n) == IF phase[n[1]] \in Rows THEN Said(phase[n[1]]) ELSE notice[n].armed

\* A claim: a fresh token under a lease.  An arming clears it, so generation and count name it.
Claimed(n) ==
  LET k == notice[n].claims + 1
  IN  [notice[n] EXCEPT !.token = <<notice[n].generation, k>>, !.claims = k, !.live = TRUE]

Claim(n) == [of |-> n, token |-> Claimed(n).token, generation |-> notice[n].generation, phase |-> PhaseOf(n)]
Current(c) == Undelivered(c.of) /\ notice[c.of].token = c.token
CanClaim(n) == notice[n].claims < MaxClaims[n[2]]

-----------------------------------------------------------------------------
(* The runs: admission, the phases, and the trigger that arms.             *)

\* Seeded fault: a run that leaves "orphaned" for its end is not armed again.
ArmsFromLife(was, is) == is \in Terminal /\ was \notin Terminal

\* runs_arm_notices: every entry into a terminal phase, and from "orphaned" into another.
Arms(was, is) == is \in Terminal /\ (was \notin Terminal \/ (was = "orphaned" /\ is # was))

\* Seeded fault: the arming leaves the claim of the generation before.
ArmedOver(n, is) ==
  [notice[n] EXCEPT !.armed = Said(is), !.ready = TRUE, !.delivered = FALSE, !.claims = 0,
                    !.generation = notice[n].generation + 1, !.live = FALSE, !.stale = FALSE]

Armed(n, is) ==
  [notice[n] EXCEPT !.armed = Said(is), !.ready = TRUE, !.delivered = FALSE, !.claims = 0, !.token = <<0, 0>>,
                    !.generation = notice[n].generation + 1, !.live = FALSE, !.stale = FALSE]

Admit(r, a) ==
  /\ phase[r] = "none"
  /\ phase' = [phase EXCEPT ![r] = "running"]
  /\ notice' = [notice EXCEPT ![<<r, a>>] = Pending]
  /\ UNCHANGED <<revived, alive, push, sent, drain, taken, told, lost>>

\* update_run, mark_orphans and the closes.
Move(r, is) ==
  /\ \/ phase[r] = "running" /\ is \in Terminal
     \/ phase[r] = "orphaned" /\ is \in Final \cup {"running"}
     \/ phase[r] = "ended" /\ is = "closed"
  /\ is = "running" => revived[r] < MaxRevived[r]
  /\ revived' = [revived EXCEPT ![r] = IF is = "running" THEN @ + 1 ELSE @]
  /\ phase' = [phase EXCEPT ![r] = is]
  /\ notice' = [n \in Notices |-> IF n[1] = r /\ Exists(n) /\ Arms(phase[r], is)
                                  THEN Armed(n, is) ELSE notice[n]]
  /\ LET again(n) == n[1] = r /\ Arms(phase[r], is)
     IN  /\ told' = [n \in Notices |-> IF again(n) THEN {} ELSE told[n]]
         /\ lost' = [n \in Notices |-> ~again(n) /\ lost[n]]
  /\ UNCHANGED <<alive, push, sent, drain, taken>>

\* KeyLock.reattach: pending for a live run, delivered as "orphaned" for an orphan.
Reattached(r) ==
  IF phase[r] = "running" THEN Pending
  ELSE [Pending EXCEPT !.ready = TRUE, !.delivered = TRUE, !.armed = "orphaned"]

Reattach(r, a) ==
  /\ phase[r] \in {"running", "orphaned"} /\ notice[<<r, a>>].row = "no"
  /\ notice' = [notice EXCEPT ![<<r, a>>] = Reattached(r)]
  /\ UNCHANGED <<run, alive, push, sent, drain, taken, told, lost>>

\* Seeded fault: the row of a closed run goes whatever its notices.
ClosedRow(r) == phase[r] = "closed"

\* prune_closed_runs keeps the row a host has not acknowledged the notice of.
Prunable(r) == phase[r] = "closed" /\ \A a \in Node : ~(Exists(<<r, a>>) /\ ~notice[<<r, a>>].delivered)

PruneRun(r) ==
  /\ Prunable(r)
  /\ phase' = [phase EXCEPT ![r] = "pruned"]
  /\ UNCHANGED <<revived, notice, alive, push, sent, drain, taken, told, lost>>

\* prune_notices: after seven days, delivered or not; a node's only once delivered.
PruneNotice(n) ==
  /\ Exists(n) /\ (n[2] \in Node => notice[n].delivered)
  /\ notice' = [notice EXCEPT ![n] = [Absent EXCEPT !.row = "gone"]]
  /\ told' = [told EXCEPT ![n] = {}] /\ lost' = [lost EXCEPT ![n] = FALSE]
  /\ UNCHANGED <<run, alive, push, sent, drain, taken>>

-----------------------------------------------------------------------------
(* Time, and the callers.                                                  *)

Exit(a) ==
  /\ alive[a] /\ a \notin Node
  /\ alive' = [alive EXCEPT ![a] = FALSE]
  /\ UNCHANGED <<run, notice, push, sent, drain, taken, told, lost>>

Lapse(n) ==
  /\ notice[n].live /\ (n[2] \in Node => CanClaim(n))
  /\ notice' = [notice EXCEPT ![n].live = FALSE]
  /\ UNCHANGED <<run, alive, push, sent, drain, taken, told, lost>>

\* Ready for longer than NOTICE_STALE_S; of a delivered notice only its swarm asks.
GrowStale(n) ==
  /\ Exists(n) /\ notice[n].ready /\ n[2] \notin Node /\ ~notice[n].stale
  /\ ~notice[n].delivered \/ n[1] \in Swarm
  /\ notice' = [notice EXCEPT ![n].stale = TRUE]
  /\ UNCHANGED <<run, alive, push, sent, drain, taken, told, lost>>

-----------------------------------------------------------------------------
(* push_ready: claim, send outside the lock, mark by token.                *)

\* claim_notice_rows: the notice and its swarm's other free ones, in one write.
Batch(n) == {n} \cup {m \in Members(n) : Free(m)}

Push(p, n) ==
  /\ push[p] = {}
  /\ n[2] \notin Node \cup Remote /\ alive[n[2]]
  /\ Free(n) /\ ~Held(n) /\ \A m \in Batch(n) : CanClaim(m)
  /\ push' = [push EXCEPT ![p] = {Claim(m) : m \in Batch(n)}]
  /\ notice' = [m \in Notices |-> IF m \in Batch(n) THEN Claimed(m) ELSE notice[m]]
  /\ UNCHANGED <<run, alive, sent, drain, taken, told, lost>>

Present(c) == c.generation = notice[c.of].generation
Heard(cs) == [n \in Notices |-> told[n] \cup {c.phase : c \in {x \in cs : x.of = n /\ Present(x)}}]

Send(p) ==
  /\ push[p] # {} /\ ~sent[p] /\ \A c \in push[p] : alive[c.of[2]]
  /\ told' = Heard(push[p])
  /\ sent' = [sent EXCEPT ![p] = TRUE]
  /\ UNCHANGED <<run, notice, alive, push, drain, taken, lost>>

\* mark_notices_delivered: every claim that is still current, in one write.
Marked(p) == {c.of : c \in {d \in push[p] : Current(d)}}

\* The lease of a delivered notice keeps nobody away: live is of the others.
Deliver(ns) ==
  [n \in Notices |-> IF n \in ns THEN [notice[n] EXCEPT !.delivered = TRUE, !.live = FALSE] ELSE notice[n]]

Mark(p) ==
  /\ sent[p]
  /\ notice' = Deliver(Marked(p))
  /\ push' = [push EXCEPT ![p] = {}] /\ sent' = [sent EXCEPT ![p] = FALSE]
  /\ UNCHANGED <<run, alive, drain, taken, told, lost>>

\* The socket refuses, the store refuses the mark, the deadline passes or the pusher dies.
GiveUp(p) ==
  /\ push[p] # {}
  /\ push' = [push EXCEPT ![p] = {}] /\ sent' = [sent EXCEPT ![p] = FALSE]
  /\ UNCHANGED <<run, notice, alive, drain, taken, told, lost>>

-----------------------------------------------------------------------------
(* drain_main: look, claim and deliver in one write, print after it.       *)

DrainLook(d) ==
  /\ drain[d].pc = "idle"
  /\ drain' = [drain EXCEPT ![d] =
       [pc |-> "looked", of |-> {n \in Notices : Free(n) /\ n[2] \notin Node /\ ~Held(n) /\ ~alive[n[2]]}]]
  /\ UNCHANGED <<run, notice, alive, push, sent, taken, told, lost>>

\* A swarm's age is its last member's.
SwarmStale(n) == \A m \in Members(n) \cup {n} : notice[m].stale

\* Seeded fault: only a dead caller's notices are drained.
DrainedIfDead(dead) == {n \in Notices : Free(n) /\ n[2] \notin Node /\ ~Held(n) /\ n \in dead}

Drained(dead) ==
  {n \in Notices :
     /\ Free(n) /\ n[2] \notin Node /\ ~Held(n)
     /\ SwarmStale(n) \/ (Members(n) \cup {n}) \cap dead # {}}

DrainTake(d) ==
  /\ drain[d].pc = "looked"
  /\ LET ns == Drained(drain[d].of)
     IN  /\ notice' = Deliver(ns)
         /\ drain' = [drain EXCEPT ![d] = [pc |-> "print", of |-> {Claim(n) : n \in ns}]]
  /\ UNCHANGED <<run, alive, push, sent, taken, told, lost>>

DrainPrint(d) ==
  /\ drain[d].pc = "print"
  /\ told' = Heard(drain[d].of)
  /\ drain' = [drain EXCEPT ![d] = [pc |-> "idle", of |-> {}]]
  /\ UNCHANGED <<run, notice, alive, push, sent, taken, lost>>

\* A kill, or a budget spent: before the write nothing happened, after it the batch is lost.
DrainKill(d) ==
  /\ drain[d].pc # "idle"
  /\ lost' = IF drain[d].pc = "looked" THEN lost
             ELSE [n \in Notices |-> lost[n] \/ \E c \in drain[d].of : c.of = n /\ Present(c)]
  /\ drain' = [drain EXCEPT ![d] = [pc |-> "idle", of |-> {}]]
  /\ UNCHANGED <<run, notice, alive, push, sent, taken, told>>

-----------------------------------------------------------------------------
(* The host and its nodes.                                                 *)

\* take_notices names the phase the generation was armed with; its answer may be lost.
Take(n, answered) ==
  /\ n[2] \in Node /\ Free(n) /\ CanClaim(n)
  /\ answered \/ notice[n].claims + 1 < MaxClaims[n[2]]
  /\ notice' = [notice EXCEPT ![n] = Claimed(n)]
  /\ taken' = IF answered THEN taken \cup {[Claim(n) EXCEPT !.phase = notice[n].armed]} ELSE taken
  /\ UNCHANGED <<run, alive, push, sent, drain, told, lost>>

HostTell(c) ==
  /\ Present(c) /\ c.phase \notin told[c.of]
  /\ told' = Heard({c})
  /\ UNCHANGED <<run, notice, alive, push, sent, drain, taken, lost>>

\* Seeded fault: an acknowledgment names the run and not the claim.
HeldByRun(c) == Undelivered(c.of)

HeldByHost(c) == Current(c) /\ notice[c.of].generation = c.generation

\* ack_notice, once the node has it: the claim that is no longer current marks nothing.
Ack(c) ==
  /\ Present(c) => c.phase \in told[c.of]
  /\ notice' = IF HeldByHost(c) THEN Deliver({c.of}) ELSE notice
  /\ taken' = taken \ {c}
  /\ UNCHANGED <<run, alive, push, sent, drain, told, lost>>

Renew(c) ==
  /\ HeldByHost(c) /\ ~notice[c.of].live
  /\ notice' = [notice EXCEPT ![c.of].live = TRUE]
  /\ UNCHANGED <<run, alive, push, sent, drain, taken, told, lost>>

\* The host forgets a claim (it restarts), and release_notices clears the claims it left.
Forget(c) ==
  /\ CanClaim(c.of) \/ ~HeldByHost(c)
  /\ taken' = taken \ {c}
  /\ UNCHANGED <<run, notice, alive, push, sent, drain, told, lost>>

Release ==
  LET held == {n \in Notices : n[2] \in Node /\ Undelivered(n) /\ notice[n].token # <<0, 0>>}
  IN  /\ held # {} /\ \A n \in held : CanClaim(n)
      /\ notice' = [n \in Notices |->
                      IF n \in held THEN [notice[n] EXCEPT !.live = FALSE, !.token = <<0, 0>>] ELSE notice[n]]
      /\ UNCHANGED <<run, alive, push, sent, drain, taken, told, lost>>

-----------------------------------------------------------------------------
Ends(r) == \E is \in Final : Move(r, is)
Runs == \E r \in Run :
  \/ \E a \in Addr : Admit(r, a) \/ Reattach(r, a)
  \/ \E is \in Rows : Move(r, is)
  \/ PruneRun(r)
Callers == \/ \E a \in Addr : Exit(a)
           \/ \E n \in Notices : Lapse(n) \/ GrowStale(n) \/ PruneNotice(n)
Pushes(p) == (\E n \in Notices : Push(p, n)) \/ Send(p) \/ Mark(p) \/ GiveUp(p)
Drains(d) == DrainLook(d) \/ DrainTake(d) \/ DrainPrint(d)
Host == \/ \E n \in Notices, answered \in BOOLEAN : Take(n, answered)
        \/ \E c \in taken : HostTell(c) \/ Ack(c) \/ Renew(c) \/ Forget(c)
        \/ Release

Next == \/ Runs \/ Callers \/ Host
        \/ \E p \in Pusher : Pushes(p)
        \/ \E d \in Drainer : Drains(d) \/ DrainKill(d)

Spec == Init /\ [][Next]_vars

\* A run ends in the end (its worker or an orphan pass and a close), time passes, sessions
\* start and are not all killed before their drain writes, and the host polls, tells its nodes and acknowledges.
FairSpec ==
  /\ Spec
  /\ WF_vars(\E r \in Run : Ends(r))
  /\ WF_vars(\E n \in Notices : Lapse(n) \/ GrowStale(n))
  /\ WF_vars(\E n \in Notices : Take(n, TRUE))
  /\ \A d \in Drainer : WF_vars(Drains(d)) /\ SF_vars(DrainTake(d))
  /\ WF_vars(\E c \in taken : HostTell(c) \/ Ack(c))

-----------------------------------------------------------------------------
Generations == UNION {0..(MaxRevived[r] + 2) : r \in Run}
Tokens == Generations \X Nat
Claims == [of : Notices, token : Tokens, generation : Generations, phase : Phases]

TypeOK ==
  /\ phase \in [Run -> Phases]
  /\ revived \in [Run -> Nat] /\ \A r \in Run : revived[r] <= MaxRevived[r]
  /\ notice \in [Notices -> [row : {"no", "yes", "gone"}, ready : BOOLEAN, delivered : BOOLEAN,
                             generation : Generations, armed : Terminal \cup {"none"}, token : Tokens,
                             claims : Nat, live : BOOLEAN, stale : BOOLEAN]]
  /\ alive \in [Addr -> BOOLEAN]
  /\ push \in [Pusher -> SUBSET Claims] /\ sent \in [Pusher -> BOOLEAN]
  /\ drain \in [Drainer -> [pc : {"idle"}, of : {{}}] \cup [pc : {"looked"}, of : SUBSET Notices]
                           \cup [pc : {"print"}, of : SUBSET Claims]]
  /\ taken \subseteq Claims
  /\ told \in [Notices -> SUBSET Phases] /\ lost \in [Notices -> BOOLEAN]

PushClaims == UNION {push[p] : p \in Pusher}
PrintClaims == UNION {drain[d].of : d \in {e \in Drainer : drain[e].pc = "print"}}

\* A notice marked delivered was heard in this arming, or lost by a drain killed after its
\* write or about to print; and once the run is over, what was heard is its end and not the
\* "orphaned" that came before it.
Printing(n) == {c.phase : c \in {x \in PrintClaims : x.of = n /\ Present(x)}}

DeliveredWasHeard ==
  \A n \in Notices :
    Exists(n) /\ notice[n].delivered /\ notice[n].generation > 0 =>
      \/ lost[n]
      \/ \E ph \in told[n] \cup Printing(n) : phase[n[1]] \in Final => ph \in Final

\* Nobody waits for a run that is over: the notices of such a run are all armed with it.
EndedIsArmed ==
  \A n \in Notices : Exists(n) /\ phase[n[1]] \in Final \cup {"pruned"} =>
    notice[n].ready /\ (notice[n].armed \in Final)

\* A swarm leaves as one unit: its claims that are live are one pusher's.
OneHolderPerSwarm ==
  \A p, q \in Pusher : \A c \in push[p], d \in push[q] :
    /\ Current(c) /\ Current(d) /\ notice[c.of].live /\ notice[d.of].live
    /\ d.of \in Members(c.of)
    => p = q

\* A node's notice that is still owed names its run, its group and its key.
OwedNodeNoticeIsNamed ==
  \A n \in Notices : n[2] \in Node /\ Exists(n) /\ ~notice[n].delivered => phase[n[1]] \in Rows

-----------------------------------------------------------------------------
(* What it promises to the callers: module Outbox.                         *)

Life(r) == IF phase[r] = "running" THEN "live" ELSE IF phase[r] \in Final \cup {"pruned"} THEN "over" ELSE phase[r]

\* An undelivered notice is owed from its first arming on.
Due(n) ==
  IF notice[n].row = "no" THEN "none" ELSE IF notice[n].row = "gone" THEN "gone"
  ELSE IF notice[n].delivered THEN "delivered" ELSE IF notice[n].generation = 0 THEN "waiting" ELSE "owed"

Out == INSTANCE Outbox WITH Kept <- Node, Word <- Phases, Over <- Final,
         life <- [r \in Run |-> Life(r)], due <- [n \in Notices |-> Due(n)], heard <- told,
         promised <- {n \in Notices : Printing(n) # {}}, lost <- {n \in Notices : lost[n]}

(* Refinement: whatever claims lapse, are repeated, come late or are       *)
(* killed, a notice is owed from the step in which its run is orphaned or  *)
(* over, and it is delivered after its caller heard of that very arming;   *)
(* a drain alone may hand one over first, and never a node's.              *)
ImplementsOutbox == Out!Spec

-----------------------------------------------------------------------------
(* Why they hold: the inductive invariant.                                 *)

\* A run arms once for an orphaning and once for its end, and a revival allows one more.
Armings(ph) == CASE ph \in Final \cup {"pruned"} -> 2 [] ph = "orphaned" -> 1 [] OTHER -> 0
ArmingsCounted ==
  \A n \in Notices : notice[n].generation <= revived[n[1]] + Armings(phase[n[1]])

\* A row has a run; what can be claimed was armed; a token names the arming it was given in.
RowsArmed ==
  \A n \in Notices :
    /\ notice[n].row # "no" => phase[n[1]] # "none"
    /\ ~Exists(n) => notice[n].generation = 0
    /\ Undelivered(n) => notice[n].generation > 0
    /\ notice[n].token # <<0, 0>> =>
         notice[n].token[1] = notice[n].generation /\ notice[n].token[2] \in 1..notice[n].claims

\* A claim is of an arming, and of the present one only if it says what the run has come to.
ClaimsSayTheEnd ==
  \A c \in PushClaims \cup PrintClaims \cup taken :
    /\ c.generation > 0 /\ notice[c.of].row # "no"
    /\ Exists(c.of) => c.generation <= notice[c.of].generation
    /\ Present(c) /\ phase[c.of[1]] \in Final \cup {"pruned"} => c.phase \in Final

\* Its token is one that its notice has counted.
ClaimsCounted ==
  \A c \in PushClaims \cup taken :
    /\ c.token[1] = c.generation /\ c.token[2] > 0
    /\ Present(c) => c.token[2] <= notice[c.of].claims

\* Pushers and the host have addresses of their own, and no two pushers one token.
ClaimsApart ==
  /\ \A c \in PushClaims : c.of[2] \notin Node
  /\ \A c \in taken : c.of[2] \in Node
  /\ \A p, q \in Pusher : \A c \in push[p], d \in push[q] :
       c.of = d.of /\ c.token = d.token => p = q

\* What was sent is a claim's, and is heard as long as it is of the present arming.
SentIsTold ==
  \A p \in Pusher : sent[p] =>
    push[p] # {} /\ \A c \in push[p] : Present(c) => c.phase \in told[c.of]

IInv == /\ TypeOK /\ ArmingsCounted /\ RowsArmed
        /\ ClaimsSayTheEnd /\ ClaimsCounted /\ ClaimsApart /\ SentIsTold
        /\ EndedIsArmed /\ OwedNodeNoticeIsNamed /\ OneHolderPerSwarm /\ DeliveredWasHeard

-----------------------------------------------------------------------------
\* What is said of a run is that it ended.
ToldItEnded == \A n \in Notices : told[n] \subseteq Terminal

\* Every notice of a run that is over is delivered in the end, or pruned with age.
NoticesAreDelivered ==
  \A n \in Notices : (Exists(n) /\ phase[n[1]] \in Final) ~> (~Exists(n) \/ notice[n].delivered)
=============================================================================
