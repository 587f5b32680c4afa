# A verification project for n-memory

TLA+ models of the n-memory repository, TLC configurations that check them on small instances, and TLAPS
proofs of the facts that matter for every instance. The reference is the code under `src/`; paths below are
relative to it. `PROJECT.json` maps each definition to the lines it models.

## The system

The repository holds two programs and the small packages they stand on.

**n-memory** (`nmemory/`) keeps typed memory capsules for coding agents in one SQLite file, `nmemory.sqlite3`.
Every agent session starts its own server process (`nmemory/server.py`); a command line (`nmemory/cli.py`,
`nmemory/commands/`) and the hooks (`nmemory/hooks/`) open the same file. There is no server in the middle:
the processes meet only in the file, through its transactions, its triggers and a few kernel file locks.
**nSPAWN** (`packages/nspawn/`) runs and supervises child agents: a registry of runs in its own SQLite file,
one supervisor process per run, an append-only journal of events and a roster of hosts with quotas.

### Inventory

| Component | State | Operations | Talks to | Hard behaviour | What makes it correct |
|---|---|---|---|---|---|
| Store boundary (`nmemory/database.py` `Database`, `queries/work.py`) | generation, per-thread boundary, deferred traffic rows, work cursors | `tool_boundary`, `begin_write`, `writing`, `write_boundary`, `record_traffic`, `flush_traffic`, `work_page` | every repository | a call that reads, then writes, then fails; traffic kept when the call rolls back; pages of two states | what is decided under the lock does not rest on what was read before it; a generation names one state; no traffic row is lost or doubled |
| Term index (`database.py`, `repositories/capsules.py`) | postings, document lengths, covered sequence, validity, build cursor | append, forget, build, resume, catch-up, invalidate, search | SQLite triggers, the "term-index" lock | slices of a build interleave with writers, a builder dies, builds with two tokenizers, statements from outside | a search of a usable index equals a scan of every capsule; no posting of a text that is gone |
| Capsules (`repositories/capsules.py`, `store.py`) | capsules, handles, tombstones, source hashes | `insert`, `forget_capsule`, `append`, list, search | all others | a capsule forgotten while somebody works on it | a forgotten capsule never comes back |
| Embeddings (`repositories/embeddings.py`, `embedding_index.py`, `space.py`) | active and target space, phase, jobs with attempts and back-off, vectors | queue, claim, complete, fail, prune, activate, defer, lexical-only | one elected worker, the embedding provider | the provider answers after the capsule, the job or the space is gone; spaces change under a running worker; retries | no vector for a forgotten capsule or of a wrong space; activation only at full coverage; bounded attempts; progress |
| Read traffic and last read (`database.py`) | `read_traffic`, `served`, `last_read` with its covered sequence | record, revoke, delete, aggregate, rebuild | tiers, review | an aggregate kept up to date in chunks by whoever reads | the aggregate equals what a full scan would give |
| Tiers and consolidation (`consolidate.py`, `embedding_index.py`, `repositories/tiers.py`, `relations.py`, `pins.py`) | tier of each capsule, its history, relations, pins; the worker's memory of what it settled | `set_tier`, protective moves, archive at deadline, supersession archives | the embedding worker runs it | decisions made on a snapshot, applied under a later lock, cycles skipped | no tier moves without a reason that holds as it moves; nothing due is skipped for ever |
| Review, sessions, definition of done (`review.py`, `repositories/sessions.py`, `dod.py`, `epistemics.py`) | reviews, session outcomes, DoD events | assert, close, approve, waive | tools | a state machine driven by independent sessions | transitions only along the allowed edges |
| Curator (`curator.py`, `rules_writer.py`, `curator_brief.py`) | staged proposals, locks, rules file | stage, expire, apply, write rules | file system, provider | two curators, a lock owner that died, a file written beside the store | one owner at a time; staged work is applied at most once |
| Audit journal (`journal.py`, `repositories/audit.py`) | hash-chained events | append, verify | every write | a break in the middle of the chain | the chain verifies iff nothing was changed |
| Recall (`retrieve.py`, `context.py`, `lexical.py`, `queries/`) | none | rank, fuse, budget | term index, embeddings | degraded lanes | pure functions of a snapshot |
| Corpus (`repositories/corpus.py`) | sources, chunks, occurrences | import, prune | capsules | partial import | chunks without occurrences are gone |
| nSPAWN registry and supervisor (`registry.py`, `supervisor.py`, `custody.py`) | runs with phases and processes, the claim of each worktree, instances with heartbeats | admit, launch, publish, drain, finish, tick, close, reconcile | systemd slices, child processes, Git | supervisors crash, leave and stall at any step; a child outlives its supervisor | one writer per worktree; what is closed is dead; a fence goes by proof and does go |
| nSPAWN close requests (`registry.py`, `supervisor.py`, `driver.py`) | `run_control`: one request per run | request, claim, record, poll | driver, askers | the driver exits or dies with the request in hand | one closer; an answer is to the call that reads it; every call is answered |
| nSPAWN notices (`notify.py`, `registry.py`, `schema.py`) | outbox of notices with generations, tokens, leases | arm, claim, send, mark, drain, take, renew, acknowledge, release, prune | callers' sockets, hosts of nodes | a mark or acknowledgment of an earlier arming; a swarm as one unit; kills between commit and print | a delivered notice was heard; no end goes untold |
| nSPAWN routing and quotas (`route.py`, `picker.py`, `owner_roster.py`, `quota_sources.py`) | rosters, cooldowns, quotas | pick, cool down, admit | registry | quota exhausted, accounts that are spent | no pick of a cooling host |
| nSPAWN journal and adapters (`journal/`, `mcp.py`, `native.py`, `cli.py`) | transcripts of the hosts | parse, follow, show | hosts' files | wire formats | input and output |
| Shared packages (`packages/database`, `packages/socket`, `packages/system1`, `packages/netdoor`) | connections, locks, sockets | connect, write, lock, snapshot | both programs | lock files, busy databases | mutual exclusion of writers |
| Evaluations, hooks, command line, documents, benchmarks | none of their own | | | | not modelled |

### How the parts meet

A *tool call* enters through the MCP door, opens a *tool boundary* (a read snapshot until the call declares a
write, the write lock from then on) and calls repositories. Committed rows reach other processes only through
SQLite. SQLite *triggers* keep derived structures honest when a statement comes from outside: the served
counts, the last-read aggregate, the term index, and in nSPAWN's file the arming of notices and the generation
of a worktree's claim. *File locks* elect one builder of the term index and one embedding worker per store;
the kernel frees them when their holder dies. The embedding worker computes outside every transaction, so each
of its writes must ask again whether what it computed is still wanted; between two batches it runs the
consolidation of the tiers.

In nSPAWN every session starts supervisors of its own. They share the registry's SQLite file, the kernel's
processes and slices, and nothing else: a supervisor lock fences the threads of one process alone. What a dead
one leaves behind is found by the others through its heartbeat, and closed by whoever asks. The end of a run
arms the notices of its callers; pushers, drains of later sessions and the hosts of nodes deliver them.

## The modules

Each component has a module of its own, an `MC...` module with the values TLC needs, one configuration per
question, and where the facts are proved a module of proofs. An action is one SQLite transaction, one kernel
call or one answer of a provider: whatever runs without letting another process in between. A comment that
begins *Seeded fault* stands over a changed form of the definition next to it; it is no part of any
specification, and serves to show that each property notices such a mistake.

| Module | Models | Proofs |
|---|---|---|
| `TermIndex` | `nmemory/database.py` (index objects, triggers, build), `repositories/capsules.py` (append, forget) | `TermIndexProofs` |
| `EmbeddingLifecycle` | `repositories/embeddings.py`, `embedding_index.py`, the vector gate of `retrieve.py` | `EmbeddingProofs` |
| `WriteAdmission` | `packages/database` (`_Gate`, `_Wait`, `Connection.begin`, `finish`, `close`) | `WriteAdmissionProofs` |
| `ReadTraffic` | `nmemory/database.py` (`read_traffic`, `served`, `last_read`) | `ReadTrafficProofs` |
| `TierPolicy` | `consolidate.py`: what it promises, with no worker in sight | |
| `Consolidation` | `embedding_index.py` (`_consolidate`), `consolidate.py`, `store.py`, `queries/sidecars.py`, `repositories/tiers.py`; implements `TierPolicy` | `ConsolidationProofs` |
| `StoreBoundary` | `nmemory/database.py` (`tool_boundary`, `begin_write`, traffic), `queries/work.py` | `StoreBoundaryProofs` |
| `Outbox` | `nspawn/schema.py`, `registry.py`, `notify.py`: what the notices promise to a caller, with no token, lease, swarm or host in sight | |
| `NoticeOutbox` | `nspawn/notify.py`, `registry.py`, `schema.py` (notices); implements `Outbox` | `NoticeOutboxProofs` |
| `Worktree` | `nspawn/registry.py`: what the claim promises of a worktree, with no lease, heartbeat or slice in sight | |
| `WriterCustody` | `nspawn/registry.py`, `supervisor.py`, `custody.py` (claims, launch, sweep, close); implements `Worktree` | `CustodyProofs` |
| `CloseControl` | `nspawn/registry.py`, `supervisor.py`, `driver.py` (`run_control`) | `CustodyProofs` |

How they compose: `ReadTraffic`'s rows are written by the `WriteTraffic` of `StoreBoundary`, whose lock is
`WriteAdmission`'s; `EmbeddingLifecycle` elects the worker whose consolidation is `Consolidation`, with
`TierPolicy` as its abstract specification; `WriterCustody` has `Worktree` as its abstract specification, its
close is the local close that `CloseControl` hands to one process, and its ends are the phases that arm
`NoticeOutbox`, which has `Outbox` as its own. `CustodyProofs` extends both `WriterCustody` and `CloseControl`, so the names of the smaller
one carry the prefix `Close` where the two would have met.

### TermIndex

*State.* `text` is the capsules table by sequence number, with `Absent` for no row and `Forgotten` for a
tombstone. `objects, covered, valid, cursor, tokenizer, documents, termDocs, postings` are the tables
`term_index_state`, `term_documents` and `term_postings`; `valid` is 0 invalid, 1 complete, 2 being built, as
in the code. `builder` holds the "term-index" lock, and `pc, through, place, lengths, rows` are the locals of
its call of `_add_term_index`.

*Actions.* `Insert` and `Forget` are the two writers that know the index. `OtherInsert`, `OtherUpdate`,
`OtherMove`, `OtherDelete` are statements of an older build or a shell: only the triggers see them
(`InsertWatched`, `UpdateWatched`, `MoveWatched`, `DeleteWatched`). `OtherDrop` and `AddObjects` take the
objects away and bring them back. `BuildOpen`, `BuildReset`, `BuildRead`, `BuildLengths`, `BuildPostings`,
`CatchUp` are the transactions of a build in their order; `BuildCrash` frees the lock at any of them.

*Abstractions.* Term frequencies and the token total are written by the same statements as the posting and the
document count, and are left out. What a tokenizer finds in a text is the constant `Words`.

*Run.* `term_index`: two processes with different tokenizers, two texts, two sequence numbers, slices and
chunks of one, so that every build takes several transactions, every statement falls between any two of them,
a build is resumed with something left on both sides of the cursor, and the catch-up crosses a tombstone.

*Fairness.* Weak fairness of `BuildStep(p)`: a process that is building keeps running. Nothing is asked of
writers, of openers or of crashes; `BuildEnds` holds although statements from outside may go on for ever,
because a build whose state was taken from it leaves.

*Proved.* `IndexExact`, `NoStalePosting`, `NoKeyConflict`, `BuildLeavesUsable`, `BuildKeepsProgress` and
`TypeOK`. The inductive
invariant `IInv` (in `TermIndex`) says what an unfinished index is: `PartialExact`, the postings are exactly
those up to the cursor and the documents a prefix of the live ones; `BuilderReads`, what the builder has in
memory holds what the index still lacks; `CatchUpOwns`, nobody completes an index under its builder. Without
these nothing is known of the moment `valid` turns 1. `BuildKeepsProgress` needs one invariant more,
`ResetIsOfAnother`: who is about to start an index over has found it to be of another tokenizer, and nothing
between the look and the reset makes it its own. The assumptions are those of the constants: `Word` is
finite and its members are positive numbers, the slice and the chunk are positive.

### EmbeddingLifecycle

*State.* `live`, `forgotten`, `generation` stand for the capsules; `active`, `target`, `phase` are the row of
`embedding_state`; `jobs` and `vectors` are `embedding_jobs` and `capsule_embeddings` by capsule. `owner`
holds the "embedding" lock, `at` says where its cycle is, and `began, seen, inputs, goal, left, request,
alone, failure, done` are the locals of `cycle` and of the batch it deals with. `synced` is
`_synced_generation` of each process's worker, which survives the loss of the lock.

*Actions.* `Append`, `Forget` and `OtherWrite` are canonical writes; `Ask` and `Asked` are a recall that
embeds its query and moves the phase. The worker's cycle is `BeginTransition`, `ReadGeneration`,
`ListCapsules`, `ReadStatus`, `Prune`, `Queue`, `Configure`, `Claim`/`Claimed`, `Submit`/`NotCurrent`,
`Answer`/`Refusal`, `Complete`, `Pick`, `Fail`, `Refuse`/`Refused`, `SetLexicalOnly`, `Activate`. `Crash`
kills the owner, `CycleError` is an error of the database that ends a cycle and leaves the worker alive.

*Abstractions.* The fingerprint of a text depends only on the build that computes it, since a capsule's text
never changes. A job's `available_at` is the flag `ready`, and `Due` is the passing of its time; claiming a
batch is taken to last less than the two minutes for which a claim defers its job, so a batch never holds a
job twice. Only the crash of the owner is an action: another process that dies changes nothing the module has.
`spent`, `by` and `covered` are history: the claims that a job used up for good, the space of the client that
computed a vector, the capsules that were live at the last activation. `OtherWrite` stands for the
consolidation the worker runs, too.

*Run.* `embedding`: three servers, two spaces and two capsules in batches of two. Two servers are configured
for different spaces, so a worker's space is changed under jobs already claimed; the third one's configuration
is refused, and it still prunes and queues when it is elected. One refusal of the provider, and one mishap,
which is a dead owner or a cycle that ends with a database error (`MaxMishaps` bounds the two together).
`embedding_lost_transition` expects a violation, see *Findings*.

*Fairness.* `WF(Cycle)`: the owner's worker is a loop in a thread of its own. `WF(Elect)`: every standby polls
the lock. `WF(Due)` for each capsule: clocks move. Refusals, crashes and canonical writes are bounded by
constants; with an endless supply of them no space would ever be complete, and the code does not claim
otherwise. `TransitionEndsUntroubled` excuses the database errors that refute `TransitionEnds` (the finding),
and servers without a working client that are elected again and again: the lock may be theirs each time, and
they cannot embed.

*Proved.* Every invariant, and `SentOnlyWanted`. `IInv` adds to them where the claims of
a worker come from (`ClaimsOfOwner`), that it works for the space the store wants (`WorkerOfGoal`), and
`AttemptsInFlight`, which says `AttemptsAreEarned` without counting. `CoveredKnown` (what was served lives or
was forgotten) is an invariant of its own, proved first and used in the step of `ServingIsWhole`.
`SyncedIsQueued` has its own invariant on top of `IInv`, `SInv`, whose middle part is the reason: until a cycle
ends early, a server that can embed still has the lock under which it synced, the goal is its space, and it has
begun nothing that it has not queued. One cycle that ends early is repaired, since who syncs next lists
everything again; two are not, when the second one ends between its begin and its queue. This is the safety
side of the finding, and the bound of one mishap in `SyncedIsQueued` is what `embedding_lost_transition` breaks.

### WriteAdmission

*State.* For each connection `pc` (where its call is), `by` (the thread), `depth`, `gate` (`_Gate.fd`), `wait`
(its kernel wait: queued, granted, or done, which is granted and told), `wanted`, `claimed`; for each process
`claims` and `released`, the queue through which a finalizer undoes a claim; `sql`, who holds SQLite's lock.

*Actions.* `Begin`/`Refuse`, `Take`, `Resume`, `Grant`, `Granted`, `Claim`, `GiveUp`, `Interrupt`,
`BeginImmediate`, `Record`, `BeginFails` are `begin` in the order of its steps; `Finish`, `Commit`,
`Rollback`, `Release`, `Unclaim` are `finish` and `_end`, with admission handed on before the COMMIT;
`BeginInner`/`FinishInner` are savepoints. `Close`/`Drop`, `Collect`/`Collected`, `Connect` and `Die` end and
begin a connection; `ForeignWrite` is a writer without admission. `Grant` is the kernel: it is not in `src/`,
and is modelled by what the code relies on, one holder of a flock.

*Abstractions.* A deadline is the choice to give up at any time before the grant is told; errors of `flock`
and a refused sidecar are the third choice of `Take`; the content of the file is left out. A name of a
connection is used again only when its old wait has ended: the kernel wait belongs to a descriptor that a new
connection does not have.

*Run.* `write_admission`: two processes, two threads and three connections, depth two: one thread that has two
connections and a thread of another process. Two threads that share one connection are left to the theorems,
which hold for any `Users`.

*Fairness.* `WF(Working(c))`: a call that has begun runs on. `WF(Granted(c))`: the daemon thread reads the
kernel's answer. `SF` of the ends of a write, one for nested and one for outer ones: a block that opened a
write ends, but its thread may be busy in between with another connection, so weak fairness would not oblige
it.

*Proved.* `NoSelfWait`, `RefusedJustly`, `WaitsOnlyForCommit`, `AtRestHoldsNothing` and `TypeOK`. `IInv` adds
who holds the flock and where (`Admitted`), from where to where a transaction is open (`Transactions`), that a
claim names a connection that still has it or has queued its release (`ClaimsTold`), and that a thread is in
one call at a time (`OneCall`).

### ReadTraffic

*State.* `rows` is `read_traffic` by sequence number; `kept, counts` the table `served`; `intact, last,
covered, valid` the tables `last_read` and `last_read_state`; `pc` where each process is in opening the store
and `seen` what it read without a lock; `changes` counts crashes and statements of others.

*Actions.* `Open`, `AddServed`, `ReadState`, `ReadNewest`, `BuildChunk`, `BuildDone` are the open; `Append`
writes the rows of one call. `OtherAppend` is an older build, `OtherUpdate` and `OtherDelete` any statement
that revokes, restores, rewrites or deletes a row, `OtherDrop` takes the objects away. Every change of rows
runs the `served` triggers (`Counted`) in the same action. `Complete` is the condition under which a reader
answers from the aggregate, evaluated in one snapshot, and `Scan` is the full scan it replaces.

*Abstractions.* A row lists a set of capsules at a time; a live row the aggregate cannot account for is one
with the time `Unreadable`. Sequence numbers are given as the code gives them, the newest plus one, so the
number of a deleted last row is used again; rows inserted with a number of the inserter's choice are left out.
Trimming and splitting the ids is left out.

*Run.* `read_traffic`: two processes, an old store of up to two rows of which the aggregate knows nothing,
chunks of one, so a build takes two chunks, may be restarted between them, and two unelected builders meet.

*Fairness.* `WF(BuildStep(p))`: a process that opens the store runs on. Crashes and statements of others are
bounded by `MaxChanges`: every one of them can restart a build, so an endless supply would keep a build from
ending, whatever the code did. Appends are not counted, since they disturb no build.

*Proved.* Everything but `BuilderEnds`. The strengthening is `Sound`: whenever the aggregate is not invalid,
each of its times is that of a live row, none of the rows it covers is later, all of them can be read, and it
covers no more than there is. For a complete aggregate this is equality with the scan. `ServedExact` is
inductive together with the types, with one lemma that counts what a statement takes away and adds.

An opener's look at the state and at the newest number are two reads without a lock, so it may leave an
aggregate that has just become invalid; no reader is deceived by that, because each looks again.

### TierPolicy and Consolidation

*State.* `live, created, tier, movedAt, bound, superseded, pinned, usage, served, reads` are what
`digest_sidecars` reads of the tables, by capsule; `bound` says whether the journal names the present archive
as one made for a supersession. `audit, generation` are the two marks. `pc, now, state, mark, plan, records`
are the locals of `_consolidate`, and `settled, due` its memory between cycles.

*Actions.* The worker's `ReadWatermark`, `ReadGeneration` (two connections, hence two steps), `Collect` (one
read snapshot), `Apply` (the lock, the second look at the marks, the second plan and the moves: one
transaction), `Defer`, `Settle`; between any two of them `Capture`, `Forget`, `SetPin`, `Supersede`,
`RevokeRelation`, `RecordRecall` of other processes, and `ServeContext`, which moves no mark. `Crash` gives
the election to a worker with no memory.

*Refinement.* `TierPolicy` has no worker: any set of live records moves at any time, each with a reason that
holds at that instant. `Implements == Policy!Spec`, with `recalled` for usage or a live ranking row, says that
whatever the worker read, planned and settled along the way, no plan outlives the facts it was made on.

*Abstractions.* Merge proposals, relations other than `supersedes`, reasons, the journal's text, and reads as
of an instant are left out. An age is a number of ticks.

*Run.* `consolidation`: a record that grows stale at the first tick past its birth and expires one later, and
a flagged import; two ticks, two canonical calls, one read, one crash. Two ticks put `now` before, on and
after each deadline; two canonical calls make a supersession and its revocation, or one change before the
snapshot and one between it and the lock.

*Fairness.* `WF(Worker)`: the elected worker's loop runs on. `SF(Apply)`: a lock it may have is not refused
for ever. `OutlivedIsArchived` and `RevokedIsRestored` speak of records that are not flagged: those are
quarantined at once and never return.

*Proved.* `Implements` and `SkipIsSound`, for every set of capsules. `Basics` is what a plan keeps: births do
not change, and a record planned as never recalled has no ranking row up to the mark, so a second look at the
rows past it finds every recall. `Rest` is what a memory means: a generation that was settled and is not
passed names a store that plans no move before one of the noted deadlines (`MemoryHolds`), and so does the
generation a settling cycle is about to remember, its own commit included (`SettleHolds`); it needs that a
plan's records are the store's, up to recalls, while its generation stands (`LockHolds`).

### StoreBoundary

*State.* `rows` counts the copies of each canonical record, `notes` bookkeeping, `generation` the canonical
commits, `traffic` the copies of each read-traffic row, `lock` the holder of SQLite's write lock. A caller is
a thread of a server: `pc, kind, defer` its call, `snap` its read snapshot and `seen` what it read there,
`began, bump, pending, deferred` the fields of `_State`, `work, noted` what its transaction changed, `page,
cursor` a page in hand and the cursor its client keeps. `recorded, dropped` are history.

*Actions.* `Enter`, `Look`, `PageGeneration`, `PageRows`, `Record` read; `BeginWrite` and `JoinWrite` end the
snapshot and wait, `Acquire` or `Busy` end the wait; `Insert` and `Note` write; `Leave` commits or rolls back
and counts the generation in the same transaction; `WriteTraffic` and `FlushTraffic` write what the call
recorded, after it, in a transaction of its own; `Crash` takes the process.

*Abstractions.* A record dedups by its identity; what a row says is left out. The wait is `WriteAdmission`'s.
Only the next unrecorded traffic row is recorded: rows differ in nothing but their name.

*Run.* `store_boundary`: two callers, one record, one note, one traffic row. One record is enough for two
writers to race for it, for a cursor to be cut before and after it, and for two cursors to disagree.

*Fairness.* `WF(Acquire \/ Busy \/ Ends)` for each caller: a wait for the lock ends, a handler returns, and
the server writes the traffic after the answer or before the next call.

*Proved.* `OneRowEach`, `CursorsAgree`, `TrafficAccounted` and `TypeOK`. The inductive invariant adds
`Boundary`, who holds the lock and what a call may have changed without it; `OneStateEach`, that a generation
seen anywhere (in a snapshot, a page or a cursor) and still current comes with the rows that are there, and
that any two places that saw one generation saw one set of rows; and `HeldOnce`, that a traffic row is in one
caller's hands at most.

### NoticeOutbox

*State.* `phase` is a run's row and `revived` how often it left "orphaned" for "running"; `notice` is the row
of notices for a run and an address: delivered, generation, the phase it was armed with, the claim's token and
lease. `push, sent, drain, taken` are the claims that pushers, drains and the host work on. `told` (the phases
a reader heard of the present arming) and `lost` (a drain was killed after its commit) are history.

*Actions.* `Move` changes a phase, and arms the notices where the trigger does (`Arms`); `Admit`, `Reattach`,
`PruneRun` and `PruneNotice` make and drop rows. `Push`, `Send`, `Mark`, `GiveUp` are a pusher; `DrainLook`,
`DrainTake`, `DrainPrint`, `DrainKill` a drain; `Take`, `HostTell`, `Ack`, `Renew`, `Forget`, `Release` the
host of a node. `Exit`, `Lapse` and `GrowStale` are callers that go, leases that end and notices that age.

*Abstractions.* A token is the pair of a generation and a count, since an arming clears the claim and the
code's tokens are random. "ended" stands for completed and failed, and what a message says is whether the run
is over (`Said`). The history starts again with each arming and with a pruned row. The lease of a delivered
notice is read by nobody and is let go. Project notices (`queue_project_notice`, `registry.py:3457`) are left
out: rows with a stored body and no run, which no trigger arms and no pusher sends, queued once by their text
and handed out once by a session's drain whatever their age. Nothing under `src/` calls it but the tests, and
`RULEBOOK.md:58` names it.

*Runs.* `notices`: one run with a session and a node's address, a pusher, a drain and the host, which may
claim a notice twice in an arming, so that a late acknowledgment meets a second claim; the run passes
"orphaned" before its end, so that every claim may be one of an earlier arming. `notice_swarm`: two runs of
one swarm and two pushers; one run is revived between two orphanings. `MaxClaims` (by address) and
`MaxRevived` (by run) bound retries and revivals.

*Fairness.* Runs end; leases lapse and notices grow stale; sessions start, and not every one is killed before
its drain's write (`SF(DrainTake)`); the host polls, tells its nodes and acknowledges. Nothing is asked of
pushers: a notice they fail to push is drained.

*Proved.* `DeliveredWasHeard`, `EndedIsArmed`, `OwedNodeNoticeIsNamed`, `OneHolderPerSwarm` and `TypeOK`. They
are inductive only together with `RowsArmed` (a token names the arming in which it was given), `ClaimsSayTheEnd`
(a claim of the present arming of a run that is over, pruned or not, says so), `ClaimsCounted` (its token is one its notice has
counted, so a later claim never has the same), `ClaimsApart` (pushers and the host never claim the same notice,
and no two pushers have one token) and `SentIsTold` (what a pusher sent was heard, as long as the arming
stands). `ArmingsCounted` bounds the armings by the orphanings, revivals and ends of the run, which is where the
trigger could run away. `NoticesAreDelivered` is liveness and stays with TLC.

*Refinement*, proved (`Implementation`) and checked by TLC (`ImplementsOutbox`). `Outbox` says what a caller
may count on. Every notice of a run is owed from the very step in which the run is orphaned or over, and what
was heard before counts for nothing from then on; a notice is delivered once its caller has heard of this
arming, at least once and possibly often. The one exception is written into it: a session that starts is handed
its notices first and prints them after (`Promise`), so a kill in between loses them (`Break`); that is at most
once, and never a node's, which is not dropped either while it is owed. Of a run that is over nothing is heard
but its end, also after its row is pruned. The mapping reads `due` off the row (`Due`), `life` off the phase,
and `promised` off what the drains have still to print of the present arming; tokens, leases, pushers, swarms,
ages, the host and its claims disappear. What makes the late ones of them harmless is `CurrentSays`: a claim
whose token is still the row's is of the present arming, and what is not current marks nothing.

### WriterCustody

*State.* One worktree. For each run the row (`phase, owner, ident`: the process it names), the kernel (`proc`
its child, `job` a process the child left, `slice`) and `pc`, the thread that admits and drives it; the row of
`claims` and its `generation`, which the triggers count; `head`, the worktree's commit, and `red`, what an
admission with a RED receipt has read; for each instance `up, row, stale` and the `closer` it works on.

*Actions.* `Admit`, `BeginRed`/`ReadHead`/`AdmitRed` admit; `OpenSlice`, `Check`, `Spawn`, `Publish` launch;
`Exit`, `JobEnds`, `Commit` are the child; `Reaped`, `NextAccount`, `DrainOwn`, `GiveUp`, `Finish` end the
drive, and `FailStart` breaks it off anywhere. `Crash`, `Leave` (shutdown), `GoStale`, `Tick` (heartbeat,
sweep and the claims it poisons or drops), `Lapse` are the instances; `StartClose`, `Prove`, `CommitClose` are
a close by any instance, step by step, and `Reconcile` is a pass over stopped slices. `LockHeld` says which
steps the supervisor lock of one instance keeps apart; nothing keeps two instances apart.

*Abstractions.* Every run is a native writer with its slice on record; hosts without slices and rows of older
builds are left out. Git is one commit counter. A shutdown is one step; the code holds the lock only to stop
the tick (`supervisor.py:3423`), then stops children, closes slices and drops its row one after the other. The
preparation of a Codex turn is left out too: the MCP catalog and the metadata server
(`supervisor.py:6432`-`6467`), two children that the drive starts in the run's slice, each behind its own
check, before the turn's process is on the row, and stops before it goes on. What they add is a slice with
processes and no identity on the row, which a `Spawn` not yet published is as well.

*Assumptions on time.* `SlowLaunch` and `LongStart` are constants, FALSE in the runs: a live instance never goes
stale, and no claim lapses before its run has a process. The code rests on the same timing
(`supervisor.py:3036`, `supervisor.py:3228`) and does not enforce it. So what `LaunchKeepsItsRun`,
`WriterHoldsClaim` and the refinement say of a close by another instance is said of owners that are gone and
of launches that the heartbeat outlasts. Of a launch that stalls for longer and is closed meanwhile they say
nothing: there the properties fail, and `WriterStalled.cfg` and `WriterLapsed.cfg` show how (*Divergences*).

*Runs.* `writer_custody`: two runs of one session, three instances that all may crash, leave or close, and a
continuation that goes on with the next account: with three, a close, a sweep and a driver can all be
different processes. `writer_custody_live`: two instances, of which one stays up, an admission with a RED
receipt and one commit, so another run can take the worktree, commit and give it back between the read of HEAD
and the write.

*Fairness.* Of the instance that stays up, ticks and reconcile passes come again and get the lock between
other things it does (`SF`), and what is begun under the lock ends. A heartbeat that stopped goes stale.
Nothing is asked of children: they may run for ever.

*Proved*, for any number of runs and instances, under the two assumptions on time (`~SlowLaunch`, `~LongStart`;
`WriterStalled.cfg` and `WriterLapsed.cfg` end in a violation without them): `WriterHoldsClaim`,
`ClosedIsDead`, `LaunchKeepsItsRun`, `RedStartsOnItsCommit`, `PoisonNeedsProof` and `TypeOK`. The invariant
goes around in a circle, which is why no part of it can be left out. Who drives is up and beats
(`DriversBeat`), so no sweep and no foreign close takes its run; therefore a drive is where its row says
(`PhaseOfDrive`) and a slice is empty where the drive has started nothing or has emptied it (`Quiet`); so what
ended writes only behind a poisoned claim (`EndedIsQuiet`); the claim is of who writes or may still launch, and
of a run that has custody in any case (`ClaimIsKept`); a closer holds the lock of its instance over a slice
that nobody fills again (`CloserHolds`); and while the generation stands that a RED admission has read, nobody
writes or may start to (`RedIsAlone`).

*Refinement*, proved under the same two assumptions (`Implementation`) and checked by TLC
(`ImplementsWorktree`). `Worktree` says what the claim is for: one run at a time has the worktree, only that
run starts processes and commits in it, and it is let go while nothing writes: given back by a live or ended
run, or with the close of its run; what happens to an orphan never takes it. The mapping reads `holder` off the
claim, `fenced` off a poisoned lease, `writing` off the slices and `life` off the phases. `by`, leases,
generations, heartbeats, locks and slices disappear. The reason why a lapsed lease is invisible above is
`ClaimedIsHeld`: a run with a claim that is not fenced is either still spawning, and then its lease has not
lapsed, or has a process on its row or is an orphan, and then it has custody; so neither an admission nor the
sweep's deletion of lapsed claims ever finds a claim that it may take.

### CloseControl

*State.* `request` is the row of `run_control`: pending, by whom claimed, whether its lease lapsed, the
outcome; `present, beats` are the driver's row and heartbeat; `stage` says where each asker and the driver are,
`awaiting` who polls for an outcome. `new, late, excused` are history: who had called when the outcome was
written, whether the driver serves after its row went, and who closes on a lapsed claim or without a
heartbeat.

*Actions.* `Call`, `Look`, `AskCustody`, `Ask`, `Claim`, `Told`, `StopWaiting` are an asker's loop; `Serve`,
`ShutDown`, `Beat`, `BeatStops`, `LeaseLapses` the driver's watcher, its exit and its time; `CloseRun` and
`Record` are the close itself in either, `ProcessDies` takes a process.

*Abstractions.* One run. What a local close does is `WriterCustody`'s; here it closes the run or is refused,
and both are an outcome.

*Run.* `close_control`: two askers, a driver that stalls, exits or dies, an asker that dies, four calls, so a
run is asked to be closed again after an answer.

*Fairness.* Every process that lives goes on, and the heartbeat of a dead or stalled driver gets old.

*Proved.* `OneServerWhileRegistered`, `AnswerIsNew` and `CloseTypeOK`, with the invariants `WaitsInCall` (who waits
has called) and `ServerHolds` (who serves holds the claim, or is excused, or is the driver without its row).

## Runs

Passing runs check forty properties in all; each has a seeded fault in `PROJECT.json` ("mutants") that breaks
it.

| Run | Checks | Shows |
|---|---|---|
| `term_index` | `IndexExact`, `BuildKeepsProgress`, `BuildEnds` | a search may trust an index that two builds and any statement have worked on; no build is thrown away without cause; a builder leaves |
| `embedding` | `NothingOfForgotten`, `ServingIsWhole`, `AttemptsAreEarned`, `SyncedIsQueued`, `SentOnlyWanted`, `TransitionEndsUntroubled` | late answers, purges, changes of space and broken cycles leave the vectors right, and a space being built is served in the end |
| `embedding_lost_transition` | `TransitionEnds` | violated: the finding |
| `write_admission` | `NoSelfWait`, `AtRestHoldsNothing`, `AdmissionPassesOn` | no interrupted, abandoned or collected write leaves a lock or a claim behind |
| `read_traffic` | `LastReadExact`, `ServedExact`, `BuilderEnds` | both derived tables equal what a scan finds; two unelected builders both end |
| `consolidation` | `SkipIsSound`, `Implements`, `OutlivedIsArchived`, `RevokedIsRestored` | every move has its reason as it is made; nothing due is skipped |
| `store_boundary` | `OneRowEach`, `CursorsAgree`, `TrafficAccounted`, `TrafficSettles` | no record twice, no cursor over changed rows, no traffic row lost with a rollback |
| `notices` | `ImplementsOutbox`, `DeliveredWasHeard`, `EndedIsArmed`, `OwedNodeNoticeIsNamed`, `NoticesAreDelivered` | an end is owed from the step it comes in until it was heard in that arming, and is delivered in the end |
| `notice_swarm` | `OneHolderPerSwarm` | a swarm leaves as one unit |
| `writer_custody` | `ImplementsWorktree`, `WriterHoldsClaim`, `ClosedIsDead`, `PoisonNeedsProof` | whatever crashes or lapses, what writes holds the claim, what is closed is dead, and a worktree is let go only while nothing writes |
| `writer_custody_live` | `LaunchKeepsItsRun`, `RedStartsOnItsCommit`, `LostRunsAreOrphaned`, `PoisonHeals` | lost runs are found, fences are lifted, a RED run starts on its commit |
| `close_control` | `OneServerWhileRegistered`, `AnswerIsNew`, `EveryCallIsAnswered` | one closer, fresh answers, no call without one |

Some properties are in no run because they are theorems: `TypeOK` of every module,
`NoStalePosting`, `NoKeyConflict`, `BuildLeavesUsable`, `VectorsOfTheirSpace`, `PhaseOfTarget`,
`RefusedJustly`, `WaitsOnlyForCommit`, `BuildHoldsNoStaleTime`, `BuilderLeavesComplete`. TLC agreed with each
before it was proved.

Symmetry is used only in `writer_custody`, over the instances, where no liveness property is checked. The
deadlock check is off where an instance really may stop: in `read_traffic`, `notices`, `notice_swarm`,
`writer_custody`, `writer_custody_live` and `close_control`, because every run ends and the bounds are used
up.

### Finding

`embedding_lost_transition`. `docs/ARCHITECTURE.md:53` promises automatic re-indexing after a change of space.
A worker commits the transition first and remembers only in a local variable that it did; when a database
error ends that cycle before the queue is filled, and the worker had already synced the current generation in
an earlier turn as owner, its next cycle neither begins nor queues anything (`embedding_index.py:160`). The
vector lane stays off until the next canonical write. A worker that dies instead starts with nothing synced,
and repairs it: so `TransitionEndsUntroubled` holds with a crash in place of the error.

### Divergences

Each of these is a place where the models leave what the code or its comments say; the configuration named
checks one invariant and stops at its violation. They are kept beside the runs as witnesses.

1. `EmbeddingLexical.cfg`. The comment at `repositories/embeddings.py:326` says that the phase stays
   `lexical_only` until a vector lands. When the capsule whose job the provider refused is forgotten during a
   transition, the target space is covered and activated, and the phase becomes `ready`
   (`repositories/embeddings.py:391`) though no vector has landed.
2. `NoticeRunning.cfg`. A push or drain names the phase the run's row has when it is claimed; of a run that
   was orphaned and revived before the claim it tells the caller "running" (`_NOTICE_PHASE_SQL`).
3. `WriterStalled.cfg` (`SlowLaunch`). The comment at `supervisor.py:6023` says that a close cannot release a
   run between its last check and the publication of its process. That is so within one instance. A launch
   that outlasts the heartbeat lets another instance take the driver for gone and close the run in between.
4. `WriterLapsed.cfg` (`LongStart`). A claim is never renewed (`registry.py:2418`); it holds past its lease
   because the run has a process on its row. A run that is still without one when the lease ends loses the
   worktree to the next admission, and may then start beside it.
5. `CloseFinish.cfg`. `supervisor.py:9229` says that exactly one side closes. A driver takes one more request
   after its row is gone (`driver.py:996`); its claim of the request then keeps nobody away, and an asker that
   finds the driver gone takes the same request over; both close. `OneServerWhileRegistered` is what remains
   true.

## What is proved, and what is not

The theorems hold for every set of processes, threads, connections, capsules and records, every slice, chunk
and batch, and every value of the bounds. They rest on the named assumption of each module's constants and on
the library's facts about finite sets. The bounds (`MaxSeq`, `MaxGeneration`, `MaxRefusals`, ...) remain in
the theorems as parameters: since they are arbitrary, no behaviour of a finite length is lost. Each module of
proofs states the inductive invariant, that the initial states have it, that each action keeps it (one lemma
for each action), and what follows from it; the temporal step is the last one.

Every safety property that a passing run checks, invariant or action property, is stated by a theorem, and so
are the three refinements (`TierPolicy`, `Worktree`, `Outbox`). Three kinds of hypotheses stand in front of them: the named assumptions on the constants,
the two assumptions on time in `WriterCustody`, and the bounds that a property itself names (`SyncedIsQueued`
speaks of runs with at most one mishap). Fairness is in none of them.

| Module of proofs | Theorems about | What carries the induction |
|---|---|---|
| `TermIndexProofs` | `TermIndex` | the postings of an unfinished index, and what its builder has in memory |
| `EmbeddingProofs` | `EmbeddingLifecycle` | where a worker's claims come from, and what it has synced for which space |
| `WriteAdmissionProofs` | `WriteAdmission` | where a claim can be that has no connection any more |
| `ReadTrafficProofs` | `ReadTraffic` | each time of the aggregate is a live row's, and none of the rows it covers is later |
| `ConsolidationProofs` | `Consolidation`, `TierPolicy` | what a plan that was made outside the lock still knows under it |
| `StoreBoundaryProofs` | `StoreBoundary` | one generation is one set of rows, wherever it was read |
| `NoticeOutboxProofs` | `NoticeOutbox`, `Outbox` | tokens and armings, counted |
| `CustodyProofs` | `WriterCustody`, `Worktree`, `CloseControl` | who drives beats; who is claimed has custody |

Only model-checked: the liveness properties (`BuildEnds`, `TransitionEndsUntroubled`, `AdmissionPassesOn`,
`BuilderEnds`, `OutlivedIsArchived`, `RevokedIsRestored`, `TrafficSettles`, `NoticesAreDelivered`,
`LostRunsAreOrphaned`, `PoisonHeals`, `EveryCallIsAnswered`): liveness under fairness and `ENABLED` are out of
the prover's reach. Nothing was lost to the other two limits, induction over data and `RECURSIVE` operators: no
module has either. That a definition says what the code does rests on reading both.

## Not modelled

`PROJECT.json` lists every component with its status. Left out:

- reviews, sessions, definition of done, curator and rules, audit chain, corpus: state machines of single
  transactions on rows of their own; worth modelling next, in this order of concurrency: curator, definition
  of done, reviews.
- keyed dispatch and its `KeyLock` (only re-attachment is in `NoticeOutbox`), reservations of drivers,
  rosters, quotas and picks: the admission of `WriterCustody` is unbounded by them.
- project notices (of the outbox) and the preparation children of a Codex turn (of the writer's drive): see
  the abstractions of `NoticeOutbox` and `WriterCustody`.
- `journal/`, adapters, command lines, hooks, doors: parsing and framing of other programs' formats, without
  shared state.
- recall, ranking and context: pure functions of a snapshot; what they rely on (an index that is exact, a
  space that is whole) is checked where it is kept.
- most lines of the large files (`supervisor.py`, `registry.py`, `driver.py`) are prompts, wire formats,
  readers and rows of older builds: the models have the state changes of claims, phases, slices, closes and
  notices alone.

## Plan

Done: the modules above, and the proofs of every safety property that a run checks. Next, in order:

1. Abstract specifications still worth stating and proving: a lock with one holder that is let go
   (`WriteAdmission`), a search as a function of the live texts (`TermIndex`).
2. `KeyedDispatch`: one run for a key, whoever dispatches it and whoever joins; the ceiling of drivers and its
   reservations.
3. The curator: staged proposals, its lock, the rules file beside the store; then reviews and the definition
   of done.
