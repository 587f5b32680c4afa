------------------------- MODULE EmbeddingLifecycle -------------------------
(***************************************************************************)
(* The vectors of one nmemory store: the queue of embedding jobs, the one  *)
(* elected worker that drains it through a remote provider, the space the  *)
(* vectors live in and the one they are being rebuilt for, and the writers *)
(* that append, forget and search meanwhile.                               *)
(*                                                                         *)
(* src/nmemory/repositories/embeddings.py, embedding_index.py, and the     *)
(* callers in store.py, repositories/capsules.py and retrieve.py.          *)
(*                                                                         *)
(* Every SQLite transaction of the worker's cycle is one action, and so is *)
(* every answer of the provider: the worker holds no lock between them.    *)
(* The embedding text of a capsule depends on the capsule, whose content   *)
(* never changes, and on the build that computes it, so the fingerprint of *)
(* a text is the build's entry in TextOf.  Clocks are abstracted to        *)
(* whether a job's available_at has passed.                                *)
(***************************************************************************)
EXTENDS Integers, FiniteSets, Functions

CONSTANTS Process,        \* the servers that open the store for writing
          Capsule,        \* the identities capsules may take
          Space,          \* embedding space fingerprints
          SpaceOf,        \* SpaceOf[p]: SpaceFingerprint.current() in process p
          Fingerprint,    \* what a build's headline_of makes of a capsule's text
          TextOf,         \* TextOf[p]: the one of p's build
          Keyless,        \* processes whose client is not configured
          Misconfigured,  \* processes whose client has a config_error
          Batch,          \* the batch limit
          MaxAttempts,    \* MAX_EMBEDDING_ATTEMPTS
          MaxGeneration,  \* bound on canonical writes
          MaxRefusals,    \* bound on the provider's failures
          MaxCrashes,     \* bound on owners that die
          MaxErrors,      \* bound on cycles ended by a database error
          MaxMishaps,     \* bound on both together
          NoProcess, NoSpace

ASSUME ConstantsAssumption ==
  /\ SpaceOf \in [Process -> Space]
  /\ TextOf \in [Process -> Fingerprint]
  /\ Keyless \subseteq Process
  /\ Misconfigured \subseteq Keyless
  /\ {Batch, MaxAttempts, MaxGeneration} \subseteq Nat \ {0}
  /\ {MaxRefusals, MaxCrashes, MaxErrors, MaxMishaps} \subseteq Nat
  /\ NoProcess \notin Process
  /\ NoSpace \notin Space

VARIABLES live,        \* capsules with a canonical_json
          forgotten,   \* tombstones
          generation,  \* canonical writes committed
          active,      \* embedding_state.active_space
          target,      \* embedding_state.target_space
          phase,       \* embedding_state.phase
          jobs,        \* embedding_jobs, by capsule
          vectors,     \* capsule_embeddings, by capsule
          owner,       \* the process that holds the "embedding" lock
          at,          \* where its cycle is
          began,       \* its local: this cycle began a transition
          seen,        \* its local: the generation it read
          inputs,      \* its local: the live capsules it listed
          goal,        \* its local: the space it read
          left,        \* its local: claimed jobs not yet dealt with
          request,     \* its local: the jobs of the current provider call
          alone,       \* its local: the batch failed, jobs go one by one
          failure,     \* its local: the class of the last failure
          done,        \* its local: some vector was stored
          synced,      \* _synced_generation of each process's worker, 0 for None
          asking,      \* processes whose recall waits for a query embedding
          refusals, crashes, errors,  \* what has happened of each bounded kind
          covered      \* history: the capsules live at the last activation

capsules == <<live, forgotten, generation>>
state == <<active, target, phase>>
call == <<left, request, alone, failure, done>>
sync == <<began, seen, inputs, goal>>
counts == <<refusals, crashes, errors>>
vars == <<capsules, state, jobs, vectors, owner, at, sync, call, synced, asking, counts, covered>>

Phases == {"ready", "reindexing", "lexical_only", "stalled"}
EndpointFailures == {"failover_eligible", "rate_limited", "quota_exhausted"}
Classes == EndpointFailures \cup {"operator_action", "none"}
Steps == {"standby", "begin", "generation", "list", "status", "prune", "queue", "config",
          "claim", "submit", "answer", "complete", "pick", "fail", "refuse", "lexical",
          "resume", "activate"}

\* A row of embedding_jobs.  `spent` is history: the claims of this row that ended
\* neither with a vector nor with a failure of the endpoint.
Rows == [space : Space, text : Fingerprint, attempts : 0..MaxAttempts, ready : BOOLEAN, spent : Nat]
\* A row of capsule_embeddings.  `by` is history: the space of the client that computed it.
Vectors == [space : Space, text : Fingerprint, by : Space]
\* An EmbeddingJob: what a worker remembers of the row it claimed.
EmbeddingJobs == [capsule : Capsule, space : Space, text : Fingerprint]

Goal == IF target = NoSpace THEN active ELSE target
Without(f, S) == Restrict(f, DOMAIN f \ S)
Row(j) == /\ j.capsule \in DOMAIN jobs
          /\ jobs[j.capsule].space = j.space
          /\ jobs[j.capsule].text = j.text
Current(j) == Row(j) /\ j.capsule \in live /\ j.space = Goal
\* Seeded fault: the phase always resumes as ready.
ResumedReady == "ready"
Resumed == IF target = NoSpace THEN "ready" ELSE "reindexing"

-----------------------------------------------------------------------------
(* What any process does, beside the worker. *)

\* Seeded fault: the snapshot the worker listed is taken for what lives.
QueuedFromSnapshot(S, s, t) ==
  LET kept == Without(jobs, {c \in S \cap DOMAIN jobs : jobs[c].space # s})
      wanted == {c \in S \ DOMAIN kept :
                   ~(c \in DOMAIN vectors /\ vectors[c].space = s /\ vectors[c].text = t)}
  IN [c \in DOMAIN kept \cup wanted |->
        IF c \in wanted
        THEN [space |-> s, text |-> t, attempts |-> 0, ready |-> TRUE, spent |-> 0]
        ELSE kept[c]]

\* Queue the capsules of S for space s: what is queued for another space goes, what is
\* queued or embedded already for this text and space stays, the rest starts afresh.
Queued(S, s, t) ==
  LET kept == Without(jobs, {c \in S \cap DOMAIN jobs : jobs[c].space # s})
      wanted == {c \in S \cap live :
                   /\ ~(c \in DOMAIN vectors /\ vectors[c].space = s /\ vectors[c].text = t)
                   /\ ~(c \in DOMAIN kept /\ kept[c].text = t)}
  IN [c \in DOMAIN kept \cup wanted |->
        IF c \in wanted
        THEN [space |-> s, text |-> t, attempts |-> 0, ready |-> TRUE, spent |-> 0]
        ELSE kept[c]]

\* Store.append: the capsule and its job, unless this process cannot name a space.
Append(p, c) ==
  /\ c \notin live \cup forgotten
  /\ generation < MaxGeneration
  /\ live' = live \cup {c}
  /\ generation' = generation + 1
  /\ \/ jobs' = [d \in DOMAIN jobs \cup {c} |->
                   IF d = c THEN [space |-> SpaceOf[p], text |-> TextOf[p], attempts |-> 0,
                                  ready |-> TRUE, spent |-> 0]
                            ELSE jobs[d]]
     \/ p \in Misconfigured /\ UNCHANGED jobs
  /\ UNCHANGED <<forgotten, state, vectors, owner, at, sync, call, synced, asking, counts, covered>>

\* forget_capsule: the text, its job and its vector go together.
Forget(c) ==
  /\ c \in live
  /\ generation < MaxGeneration
  /\ live' = live \ {c}
  /\ forgotten' = forgotten \cup {c}
  /\ generation' = generation + 1
  /\ jobs' = Without(jobs, {c})
  /\ vectors' = Without(vectors, {c})
  /\ UNCHANGED <<state, owner, at, sync, call, synced, asking, counts, covered>>

\* Any other canonical write, the worker's own consolidation among them.
OtherWrite ==
  /\ generation < MaxGeneration
  /\ generation' = generation + 1
  /\ UNCHANGED <<live, forgotten, state, jobs, vectors, owner, at, sync, call, synced, asking, counts,
                 covered>>

\* A recall passes the gate of the vector lane and asks the provider for its query.
Ask(p) ==
  /\ p \notin Keyless \cup asking
  /\ target = NoSpace /\ active = SpaceOf[p]
  /\ asking' = asking \cup {p}
  /\ UNCHANGED <<capsules, state, jobs, vectors, owner, at, sync, call, synced, counts, covered>>

\* The provider answers the query, or does not: set_lexical_only either way.
Asked(p) ==
  /\ p \in asking
  /\ asking' = asking \ {p}
  /\ \/ /\ phase' = IF phase \in {"lexical_only", "stalled"} THEN Resumed ELSE phase
        /\ UNCHANGED refusals
     \/ /\ refusals < MaxRefusals
        /\ refusals' = refusals + 1
        /\ phase' = "lexical_only"
  /\ UNCHANGED <<capsules, active, target, jobs, vectors, owner, at, sync, call, synced, crashes, errors,
                 covered>>

\* Time passes: a claimed or failed job becomes available again.  Claiming a batch takes less
\* than the two minutes a claim defers its job, so no batch holds a job twice.
Due(c) ==
  /\ c \in DOMAIN jobs /\ ~jobs[c].ready
  /\ ~(at = "claim" /\ \E j \in left : j.capsule = c)
  /\ jobs' = [jobs EXCEPT ![c].ready = TRUE]
  /\ UNCHANGED <<capsules, state, vectors, owner, at, sync, call, synced, asking, counts, covered>>

-----------------------------------------------------------------------------
(* The worker's cycle; it runs in the one process that holds the lock. *)

\* The locals of a cycle that is not running.
FreshSync == began' = FALSE /\ seen' = 0 /\ inputs' = {} /\ goal' = NoSpace
FreshCall == left' = {} /\ request' = {} /\ alone' = FALSE /\ failure' = "none" /\ done' = FALSE
EndCycle == at' = "begin" /\ FreshCall
Release == at' = "standby" /\ owner' = NoProcess /\ FreshSync /\ FreshCall

Elect(p) ==
  /\ owner = NoProcess
  /\ owner' = p /\ at' = "begin"
  /\ UNCHANGED <<capsules, state, jobs, vectors, sync, call, synced, asking, counts, covered>>

\* begin_current_space_transition_if_needed, skipped by a refused configuration.
BeginTransition ==
  /\ at = "begin" /\ at' = "generation"
  /\ \/ /\ owner \in Misconfigured \/ Goal = SpaceOf[owner]
        /\ began' = FALSE /\ UNCHANGED state
     \/ /\ owner \notin Misconfigured /\ Goal # SpaceOf[owner]
        /\ target' = SpaceOf[owner] /\ phase' = "reindexing" /\ began' = TRUE
        /\ UNCHANGED active
  /\ UNCHANGED <<capsules, jobs, vectors, owner, seen, inputs, goal, call, synced, asking, counts, covered>>

ReadGeneration ==
  /\ at = "generation"
  /\ seen' = generation
  /\ at' = IF began \/ generation # synced[owner] THEN "list" ELSE "config"
  /\ UNCHANGED <<capsules, state, jobs, vectors, owner, began, inputs, goal, call, synced, asking, counts,
                 covered>>

ListCapsules ==
  /\ at = "list" /\ at' = "status"
  /\ inputs' = live
  /\ UNCHANGED <<capsules, state, jobs, vectors, owner, began, seen, goal, call, synced, asking, counts,
                 covered>>

ReadStatus ==
  /\ at = "status" /\ at' = "prune"
  /\ goal' = Goal
  /\ UNCHANGED <<capsules, state, jobs, vectors, owner, began, seen, inputs, call, synced, asking, counts,
                 covered>>

Prune ==
  /\ at = "prune" /\ at' = "queue"
  /\ jobs' = Restrict(jobs, DOMAIN jobs \cap live)
  /\ vectors' = Restrict(vectors, DOMAIN vectors \cap live)
  /\ UNCHANGED <<capsules, state, owner, sync, call, synced, asking, counts, covered>>

\* Seeded fault: what another process committed since the list was read counts as synced.
QueueSyncsNow ==
  /\ at = "queue" /\ at' = "config"
  /\ jobs' = Queued(inputs, goal, TextOf[owner])
  /\ synced' = [synced EXCEPT ![owner] = generation]
  /\ UNCHANGED <<capsules, state, vectors, owner, sync, call, asking, counts, covered>>

Queue ==
  /\ at = "queue" /\ at' = "config"
  /\ jobs' = Queued(inputs, goal, TextOf[owner])
  /\ synced' = [synced EXCEPT ![owner] = seen]
  /\ UNCHANGED <<capsules, state, vectors, owner, sync, call, asking, counts, covered>>

\* mark_config_error or clear_config_error; a worker without a client gives up the lock.
Configure ==
  /\ at = "config"
  /\ phase' = IF owner \in Misconfigured THEN "stalled"
              ELSE IF phase = "stalled" THEN Resumed ELSE phase
  /\ IF owner \in Keyless THEN Release
     ELSE at' = "claim" /\ FreshSync /\ FreshCall /\ UNCHANGED owner
  /\ UNCHANGED <<capsules, active, target, jobs, vectors, synced, asking, counts, covered>>

\* Seeded fault: a job is claimed again however often it failed.
ClaimableForEver == {c \in DOMAIN jobs \cap live : jobs[c].ready /\ jobs[c].space = SpaceOf[owner]}

Claimable == {c \in DOMAIN jobs \cap live :
                jobs[c].ready /\ jobs[c].attempts < MaxAttempts /\ jobs[c].space = SpaceOf[owner]}

Claim(c) ==
  /\ at = "claim" /\ Cardinality(left) < Batch
  /\ c \in Claimable
  /\ jobs' = [jobs EXCEPT ![c].attempts = @ + 1, ![c].ready = FALSE]
  /\ left' = left \cup {[capsule |-> c, space |-> jobs[c].space, text |-> jobs[c].text]}
  /\ UNCHANGED <<capsules, state, vectors, owner, at, sync, request, alone, failure, done, synced, asking,
                 counts, covered>>

Claimed ==
  /\ at = "claim"
  /\ Cardinality(left) = Batch \/ Claimable = {}
  /\ at' = IF left = {} THEN "activate" ELSE "submit"
  /\ request' = left
  /\ UNCHANGED <<capsules, state, jobs, vectors, owner, sync, left, alone, failure, done, synced, asking,
                 counts, covered>>

\* The batch failed in some other way than a refusal: its jobs go one by one.  A job
\* that failed alone is deferred.
GiveUp(class) ==
  IF alone THEN at' = "fail" /\ failure' = class /\ UNCHANGED <<alone, request>>
  ELSE at' = "pick" /\ alone' = TRUE /\ request' = {} /\ UNCHANGED failure

\* submission: under the write lock, every job is current while the text is sent.
Submit ==
  /\ at = "submit"
  /\ \A j \in request : Current(j)
  /\ at' = "answer"
  /\ UNCHANGED <<capsules, state, jobs, vectors, owner, sync, call, synced, asking, counts, covered>>

NotCurrent ==
  /\ at = "submit"
  /\ \E j \in request : ~Current(j)
  /\ GiveUp("operator_action")
  /\ UNCHANGED <<capsules, state, jobs, vectors, owner, sync, left, done, synced, asking, counts, covered>>

Answer ==
  /\ at = "answer" /\ at' = "complete"
  /\ UNCHANGED <<capsules, state, jobs, vectors, owner, sync, call, synced, asking, counts, covered>>

\* The call fails; a status that waiting cures is sent again, under submission.
Refusal(class) ==
  /\ at = "answer" /\ refusals < MaxRefusals
  /\ refusals' = refusals + 1
  /\ \/ /\ class = "quota_exhausted" \/ (class = "rate_limited" /\ ~alone)
        /\ at' = "refuse" /\ failure' = class
        /\ UNCHANGED <<alone, request>>
     \/ /\ class # "quota_exhausted" /\ (class = "rate_limited" => alone)
        /\ GiveUp(class)
     \/ /\ class \in {"rate_limited", "failover_eligible"}
        /\ at' = "submit"
        /\ UNCHANGED <<alone, request, failure>>
  /\ UNCHANGED <<capsules, state, jobs, vectors, owner, sync, left, done, synced, asking, crashes, errors,
                 covered>>

\* Seeded fault: the vector is filed under the active space, not the one it was made for.
CompleteInActive(j) ==
  /\ at = "complete" /\ j \in request
  /\ IF Current(j) /\ j.space = SpaceOf[owner]
     THEN /\ vectors' = [c \in DOMAIN vectors \cup {j.capsule} |->
                           IF c = j.capsule
                           THEN [space |-> active, text |-> j.text, by |-> SpaceOf[owner]]
                           ELSE vectors[c]]
          /\ jobs' = Without(jobs, {j.capsule})
          /\ done' = TRUE
     ELSE UNCHANGED <<vectors, jobs, done>>
  /\ request' = request \ {j} /\ left' = left \ {j}
  /\ at' = IF request = {j} THEN "pick" ELSE "complete"
  /\ UNCHANGED <<capsules, state, owner, sync, alone, failure, synced, asking, counts, covered>>

\* complete_embedding: a vector of the job's space, computed by the owner's client.
Complete(j) ==
  /\ at = "complete" /\ j \in request
  /\ IF Current(j) /\ j.space = SpaceOf[owner]
     THEN /\ vectors' = [c \in DOMAIN vectors \cup {j.capsule} |->
                           IF c = j.capsule
                           THEN [space |-> j.space, text |-> j.text, by |-> SpaceOf[owner]]
                           ELSE vectors[c]]
          /\ jobs' = Without(jobs, {j.capsule})
          /\ done' = TRUE
     ELSE UNCHANGED <<vectors, jobs, done>>
  /\ request' = request \ {j} /\ left' = left \ {j}
  /\ at' = IF request = {j} THEN "pick" ELSE "complete"
  /\ UNCHANGED <<capsules, state, owner, sync, alone, failure, synced, asking, counts, covered>>

\* Seeded fault: a failure of the endpoint keeps the claim it charged.
FailedUnrefunded(j) ==
  IF ~Row(j) THEN jobs
  ELSE IF failure \in EndpointFailures
       THEN [jobs EXCEPT ![j.capsule].ready = FALSE]
       ELSE [jobs EXCEPT ![j.capsule].spent = @ + 1, ![j.capsule].ready = FALSE]

\* fail_embedding with attempt_charged: the claim is given back for a failure of the endpoint.
Failed(j) ==
  IF ~Row(j) THEN jobs
  ELSE IF failure \in EndpointFailures
       THEN [jobs EXCEPT ![j.capsule].attempts = @ - 1, ![j.capsule].ready = FALSE]
       ELSE [jobs EXCEPT ![j.capsule].spent = @ + 1, ![j.capsule].ready = FALSE]

\* Seeded fault: the item-by-item fallback trusts the check the batch went through.
PickUnguarded(j) ==
  /\ at = "pick" /\ j \in left
  /\ request' = {j} /\ at' = "answer"
  /\ UNCHANGED <<capsules, state, jobs, vectors, owner, sync, left, alone, failure, done, synced, asking,
                 counts, covered>>

Pick(j) ==
  /\ at = "pick" /\ j \in left
  /\ request' = {j} /\ at' = "submit"
  /\ UNCHANGED <<capsules, state, jobs, vectors, owner, sync, left, alone, failure, done, synced, asking,
                 counts, covered>>

Fail ==
  /\ at = "fail" /\ at' = "pick"
  /\ \E j \in request : jobs' = Failed(j) /\ left' = left \ {j}
  /\ request' = {} /\ failure' = "none"
  /\ UNCHANGED <<capsules, state, vectors, owner, sync, alone, done, synced, asking, counts, covered>>

\* Nothing is left of the batch.
Picked ==
  /\ at = "pick" /\ left = {}
  /\ IF done THEN at' = "resume" /\ FreshCall ELSE EndCycle
  /\ UNCHANGED <<capsules, state, jobs, vectors, owner, sync, synced, asking, counts, covered>>

\* A refused batch, or the rest of it, is deferred job by job.
Refuse(j) ==
  /\ at = "refuse" /\ j \in left
  /\ jobs' = Failed(j)
  /\ left' = left \ {j} /\ request' = {}
  /\ UNCHANGED <<capsules, state, vectors, owner, at, sync, alone, failure, done, synced, asking, counts,
                 covered>>

Refused ==
  /\ at = "refuse" /\ left = {}
  /\ IF failure = "quota_exhausted" THEN at' = "lexical" /\ FreshCall ELSE EndCycle
  /\ UNCHANGED <<capsules, state, jobs, vectors, owner, sync, synced, asking, counts, covered>>

\* set_lexical_only(True) after an exhausted quota, set_lexical_only(False) after a vector.
SetLexicalOnly ==
  /\ at \in {"lexical", "resume"}
  /\ phase' = IF at = "lexical" THEN "lexical_only"
              ELSE IF phase \in {"lexical_only", "stalled"} THEN Resumed ELSE phase
  /\ EndCycle
  /\ UNCHANGED <<capsules, active, target, jobs, vectors, owner, sync, synced, asking, counts, covered>>

Covers(c) == c \in DOMAIN vectors /\ vectors[c].space = target /\ vectors[c].text = TextOf[owner]
\* Seeded fault: an empty queue is taken for a complete space.
TargetQueueEmpty == target # NoSpace /\ \A c \in DOMAIN jobs : jobs[c].space # target

TargetComplete == /\ target # NoSpace
                  /\ \A c \in DOMAIN jobs : jobs[c].space # target
                  /\ \A c \in live : Covers(c)

\* activate_target_if_complete, at the end of a cycle that found nothing to claim.
Activate ==
  /\ at = "activate"
  /\ IF TargetComplete
     THEN /\ active' = target /\ target' = NoSpace /\ phase' = "ready"
          /\ vectors' = Restrict(vectors, {c \in DOMAIN vectors : vectors[c].space = target})
          /\ covered' = live
     ELSE UNCHANGED <<state, vectors, covered>>
  /\ EndCycle
  /\ UNCHANGED <<capsules, jobs, owner, sync, synced, asking, counts>>

-----------------------------------------------------------------------------
(* What ends a cycle early.  A lost claim stays charged. *)

Lost == [c \in DOMAIN jobs |->
           IF \E j \in left : j.capsule = c /\ Row(j)
           THEN [jobs[c] EXCEPT !.spent = @ + 1] ELSE jobs[c]]

\* The owner dies, and starts again as a new process that has synced nothing.
Crash ==
  /\ owner # NoProcess /\ crashes < MaxCrashes /\ crashes + errors < MaxMishaps
  /\ crashes' = crashes + 1
  /\ synced' = [synced EXCEPT ![owner] = 0]
  /\ asking' = asking \ {owner}
  /\ jobs' = Lost
  /\ Release
  /\ UNCHANGED <<capsules, state, vectors, refusals, errors, covered>>

\* A database error leaves the cycle and the election; the worker lives on.
CycleError ==
  /\ owner # NoProcess /\ errors < MaxErrors /\ crashes + errors < MaxMishaps
  /\ errors' = errors + 1
  /\ jobs' = Lost
  /\ Release
  /\ UNCHANGED <<capsules, state, vectors, synced, asking, refusals, crashes, covered>>

-----------------------------------------------------------------------------
Init ==
  /\ live = {} /\ forgotten = {} /\ generation = 1
  /\ active \in {SpaceOf[p] : p \in Process} /\ target = active /\ phase = "reindexing"
  /\ jobs = [c \in {} |-> 0] /\ vectors = [c \in {} |-> 0]
  /\ owner = NoProcess /\ at = "standby"
  /\ began = FALSE /\ seen = 0 /\ inputs = {} /\ goal = NoSpace
  /\ left = {} /\ request = {} /\ alone = FALSE /\ failure = "none" /\ done = FALSE
  /\ synced = [p \in Process |-> 0]
  /\ asking = {}
  /\ refusals = 0 /\ crashes = 0 /\ errors = 0
  /\ covered = {}

Cycle ==
  \/ BeginTransition \/ ReadGeneration \/ ListCapsules \/ ReadStatus \/ Prune \/ Queue
  \/ Configure \/ Claimed \/ Submit \/ NotCurrent \/ Answer \/ Picked \/ Fail \/ Refused
  \/ SetLexicalOnly \/ Activate
  \/ \E c \in Capsule : Claim(c)
  \/ \E j \in EmbeddingJobs : Complete(j) \/ Pick(j) \/ Refuse(j)

Next ==
  \/ Cycle
  \/ \E class \in EndpointFailures \cup {"operator_action"} : Refusal(class)
  \/ \E p \in Process : Elect(p) \/ Ask(p) \/ Asked(p)
  \/ \E c \in Capsule : Forget(c) \/ Due(c)
  \/ \E p \in Process, c \in Capsule : Append(p, c)
  \/ OtherWrite \/ Crash \/ CycleError

Spec == Init /\ [][Next]_vars

\* The worker that holds the lock runs on, somebody takes a free lock, and clocks move.
FairSpec == /\ Spec
            /\ WF_vars(Cycle)
            /\ WF_vars(\E p \in Process : Elect(p))
            /\ \A c \in Capsule : WF_vars(Due(c))

-----------------------------------------------------------------------------
(* Properties. *)

\* The variables hold what the schema and the code allow; attempts, which failures of the
\* endpoint decrement, stays within its CHECK and its cap.
TypeOK ==
  /\ live \subseteq Capsule /\ forgotten \subseteq Capsule
  /\ generation \in 1..MaxGeneration
  /\ active \in Space /\ target \in Space \cup {NoSpace} /\ phase \in Phases
  /\ DOMAIN jobs \subseteq Capsule /\ \A c \in DOMAIN jobs : jobs[c] \in Rows
  /\ DOMAIN vectors \subseteq Capsule /\ \A c \in DOMAIN vectors : vectors[c] \in Vectors
  /\ owner \in Process \cup {NoProcess} /\ at \in Steps
  /\ (owner = NoProcess) = (at = "standby")
  /\ began \in BOOLEAN /\ alone \in BOOLEAN /\ done \in BOOLEAN
  /\ seen \in 0..MaxGeneration /\ synced \in [Process -> 0..MaxGeneration]
  /\ inputs \subseteq Capsule /\ goal \in Space \cup {NoSpace}
  /\ left \subseteq EmbeddingJobs /\ request \subseteq left
  /\ failure \in Classes
  /\ asking \subseteq Process
  /\ refusals \in 0..MaxRefusals /\ crashes \in 0..MaxCrashes /\ errors \in 0..MaxErrors
  /\ covered \subseteq Capsule

\* Nothing is kept of a forgotten capsule: whatever a worker listed, claimed or sent before
\* the purge, and whenever the provider answers, no job and no vector of it comes back.
NothingOfForgotten == forgotten \cap (live \cup DOMAIN jobs \cup DOMAIN vectors) = {}

\* The text of a capsule leaves the machine only while the capsule lives and somebody wants
\* its vector in the space of this very client; retries and the item-by-item fallback too.
SentOnlyWanted ==
  [][at # "answer" /\ at' = "answer" =>
       \A j \in request' : j.capsule \in live /\ j.space = Goal /\ j.space = SpaceOf[owner]]_vars

\* No vector is filed under a space other than the one of the client that computed it, though
\* spaces change and jobs are queued by servers of other spaces.
VectorsOfTheirSpace == \A c \in DOMAIN vectors : vectors[c].space = vectors[c].by

\* While recall serves the active space, no capsule that was live when it was activated has
\* lost its vector there, and the table holds no vector of another space.
ServingIsWhole ==
  target = NoSpace =>
    /\ covered \cap live \subseteq DOMAIN vectors
    /\ \A c \in DOMAIN vectors : vectors[c].space = active

\* `ready` is never reported while a space is being built, nor `reindexing` when none is.
PhaseOfTarget ==
  /\ phase = "ready" => target = NoSpace
  /\ phase = "reindexing" => target # NoSpace

\* The claims charged to a job are those in flight and those spent on the job itself: an
\* endpoint that is down, however long, strands no job, and no claim is refunded twice.
AttemptsAreEarned ==
  \A c \in DOMAIN jobs :
    jobs[c].attempts = jobs[c].spent + Cardinality({j \in left : j.capsule = c /\ Row(j)})

\* The cycles that ended early.
Mishaps == crashes + errors
Stored(c, s) == \/ c \in DOMAIN vectors /\ vectors[c].space = s
                \/ c \in DOMAIN jobs /\ jobs[c].space = s

\* A worker that claims in a generation it has synced has lost no capsule: each one is
\* embedded for its space or queued for it.  One cycle that ends early does not change
\* that; two do, when the second one ends between its BeginTransition and its Queue.
SyncedIsQueued ==
  Mishaps <= 1 /\ at = "claim" /\ synced[owner] = generation =>
    \A c \in live : Stored(c, SpaceOf[owner])

\* The phase leaves `lexical_only` only for `stalled`, or because the provider embeds again:
\* the worker stored a vector or a recall got its query's.
LexicalUntilVector ==
  [][phase = "lexical_only" /\ phase' \in {"ready", "reindexing"} =>
       at = "resume" \/ asking' # asking]_vars

\* A space that is being built is served in the end.
TransitionEnds == target # NoSpace ~> target = NoSpace

\* The same, but for a database error that leaves a cycle, and for a server whose client is
\* not configured being elected again and again.
TransitionEndsUntroubled ==
  \/ target # NoSpace ~> (target = NoSpace \/ errors > 0)
  \/ []<>(owner \in Keyless)

-----------------------------------------------------------------------------
(* Why they hold: an inductive invariant. *)

\* What was served whole is known to the store: it lives still, or was forgotten.
CoveredKnown == covered \subseteq live \cup forgotten

InFlight(c) == \E j \in left : j.capsule = c /\ Row(j)

\* The worker holds jobs only while it deals with a batch: one for each capsule, all of
\* its own space, and none that may fall due while it still claims.
ClaimsOfOwner ==
  /\ \A j \in left : owner \in Process /\ j.space = SpaceOf[owner] /\ j.capsule \in live \cup forgotten
  /\ \A j, k \in left : j.capsule = k.capsule => j = k
  /\ at = "claim" => \A j \in left : j.capsule \in DOMAIN jobs => ~jobs[j.capsule].ready
  /\ left # {} => at \in {"claim", "submit", "answer", "complete", "pick", "fail", "refuse"}

\* A worker that works embeds for the very space the store wants.
WorkerOfGoal ==
  /\ at \notin {"standby", "begin"} /\ owner \notin Misconfigured => Goal = SpaceOf[owner]
  /\ at \in {"claim", "submit", "answer", "complete", "pick", "fail", "refuse"} => owner \notin Keyless

\* AttemptsAreEarned without counting.
AttemptsInFlight ==
  \A c \in DOMAIN jobs : jobs[c].attempts = jobs[c].spent + (IF InFlight(c) THEN 1 ELSE 0)

IInv ==
  /\ TypeOK
  /\ NothingOfForgotten
  /\ VectorsOfTheirSpace
  /\ ServingIsWhole
  /\ PhaseOfTarget
  /\ at \in {"prune", "queue"} => goal \in Space
  /\ WorkerOfGoal
  /\ ClaimsOfOwner
  /\ AttemptsInFlight

(* And SyncedIsQueued: an invariant on top of it. *)

Syncing == {"generation", "list", "status", "prune", "queue"}

\* Nobody has synced a generation that is still to come, or one later than the worker has read;
\* a list it read in the present generation is of what lives, and the goal it read is the goal.
SyncedBehind ==
  /\ seen <= generation
  /\ \A p \in Process : /\ synced[p] <= generation
                        /\ at \in Syncing \ {"generation"} => synced[p] <= seen
  /\ at \in {"status", "prune", "queue"} /\ seen = generation => inputs = live
  /\ at \in {"prune", "queue"} => goal = Goal

\* Until a cycle ends early, a server that can embed keeps the lock it has synced under.
SyncedUndisturbed ==
  Mishaps = 0 =>
    \A p \in Process \ Keyless : synced[p] # 0 =>
      p = owner /\ Goal = SpaceOf[p] /\ (at \in Syncing => ~began)

\* What has been synced for the space the store wants is stored or queued in it, but while a
\* worker that has begun a transition is about to queue.
QueuedForGoal ==
  Mishaps <= 1 =>
    \A p \in Process \ Keyless :
      synced[p] = generation /\ Goal = SpaceOf[p] /\ ~(at \in Syncing /\ began) =>
        \A c \in live : Stored(c, SpaceOf[p])

SInv == SyncedBehind /\ SyncedUndisturbed /\ QueuedForGoal
=============================================================================
