-------------------------- MODULE EmbeddingProofs --------------------------
(***************************************************************************)
(* Proofs about EmbeddingLifecycle, for every set of servers, spaces,      *)
(* builds and capsules and every bound: IInv is an inductive invariant, so *)
(* nothing is kept of a forgotten capsule, what is served stays whole, and *)
(* a claim is charged exactly once.                                        *)
(***************************************************************************)
EXTENDS EmbeddingLifecycle, FiniteSetTheorems, TLAPS

USE DEF capsules, state, call, sync, counts, Phases, Steps, Classes, EndpointFailures, Restrict, Without

(* TypeOK in three parts: the rows that change seldom, the two tables, the worker. *)
TypeStore ==
  /\ live \subseteq Capsule /\ forgotten \subseteq Capsule
  /\ generation \in 1..MaxGeneration
  /\ active \in Space /\ target \in Space \cup {NoSpace} /\ phase \in Phases
  /\ asking \subseteq Process
  /\ refusals \in 0..MaxRefusals /\ crashes \in 0..MaxCrashes /\ errors \in 0..MaxErrors
  /\ covered \subseteq Capsule

TypeTables ==
  /\ DOMAIN jobs \subseteq Capsule /\ \A c \in DOMAIN jobs : jobs[c] \in Rows
  /\ DOMAIN vectors \subseteq Capsule /\ \A c \in DOMAIN vectors : vectors[c] \in Vectors

TypeWorker ==
  /\ owner \in Process \cup {NoProcess} /\ at \in Steps
  /\ owner = NoProcess <=> at = "standby"
  /\ began \in BOOLEAN /\ alone \in BOOLEAN /\ done \in BOOLEAN
  /\ seen \in 0..MaxGeneration /\ synced \in [Process -> 0..MaxGeneration]
  /\ inputs \subseteq Capsule /\ goal \in Space \cup {NoSpace}
  /\ left \subseteq EmbeddingJobs /\ request \subseteq left
  /\ failure \in Classes

GoalRead == at \in {"prune", "queue"} => goal \in Space

Quiet ==
  \/ ReadGeneration \/ ListCapsules \/ ReadStatus \/ Claimed \/ Submit \/ NotCurrent \/ Answer
  \/ Picked \/ Refused \/ OtherWrite
  \/ \E j \in EmbeddingJobs : Pick(j)
  \/ \E class \in EndpointFailures \cup {"operator_action"} : Refusal(class)
  \/ \E p \in Process : Elect(p) \/ Ask(p)

\* The parts make up TypeOK.
LEMMA TypeParts == TypeOK <=> TypeStore /\ TypeTables /\ TypeWorker
BY Zenon DEF TypeOK, TypeStore, TypeTables, TypeWorker

\* The assumption, one constant at a time.
LEMMA Constants ==
  /\ SpaceOf \in [Process -> Space] /\ TextOf \in [Process -> Fingerprint]
  /\ MaxAttempts \in Nat \ {0} /\ MaxGeneration \in Nat \ {0}
  /\ MaxRefusals \in Nat /\ MaxCrashes \in Nat /\ MaxErrors \in Nat
  /\ NoProcess \notin Process /\ NoSpace \notin Space
BY ConstantsAssumption

\* Whoever runs a cycle is a process with a space and a build.
LEMMA OwnerRuns ==
  ASSUME TypeWorker, at # "standby" \/ owner # NoProcess
  PROVE  owner \in Process /\ SpaceOf[owner] \in Space /\ TextOf[owner] \in Fingerprint
BY Constants DEF TypeWorker

\* The actions that leave the store's rows alone: the worker's reads, the provider's answers.
LEMMA QuietStep ==
  ASSUME IInv, Quiet PROVE IInv'
<1> USE Constants
<1>0. TypeStore /\ TypeTables /\ TypeWorker
  BY TypeParts DEF IInv
<1>1. UNCHANGED <<live, forgotten, active, target, phase, jobs, vectors, covered>>
  BY DEF Quiet, ReadGeneration, ListCapsules, ReadStatus, Claimed, Submit, NotCurrent, Answer, Pick,
         Picked, Refused, Refusal, Elect, Ask, OtherWrite
<1>2. TypeTables' /\ NothingOfForgotten' /\ VectorsOfTheirSpace' /\ ServingIsWhole' /\ PhaseOfTarget'
  BY <1>0, <1>1 DEF IInv, TypeTables, Rows, Vectors, NothingOfForgotten, VectorsOfTheirSpace,
                    ServingIsWhole, PhaseOfTarget
<1>3. TypeStore' /\ TypeWorker' /\ GoalRead' /\ WorkerOfGoal' /\ ClaimsOfOwner' /\ AttemptsInFlight'
  <2>1. CASE ReadGeneration
    <3>1. TypeStore' /\ TypeWorker' /\ GoalRead'
      BY <1>0, <2>1 DEF IInv, ReadGeneration, TypeStore, TypeWorker, GoalRead
    <3>2. WorkerOfGoal'
      BY <1>0, <2>1, ConstantsAssumption DEF IInv, ReadGeneration, TypeWorker, WorkerOfGoal, Goal
    <3>3. ClaimsOfOwner' /\ AttemptsInFlight'
      BY <1>0, <2>1 DEF IInv, ReadGeneration, TypeWorker, ClaimsOfOwner, AttemptsInFlight, InFlight, Row
    <3> QED BY <3>1, <3>2, <3>3
  <2>2. CASE ListCapsules
    <3>1. TypeStore' /\ TypeWorker' /\ GoalRead'
      BY <1>0, <2>2 DEF IInv, ListCapsules, TypeStore, TypeWorker, GoalRead
    <3>2. WorkerOfGoal'
      BY <1>0, <2>2, ConstantsAssumption DEF IInv, ListCapsules, TypeWorker, WorkerOfGoal, Goal
    <3>3. ClaimsOfOwner' /\ AttemptsInFlight'
      BY <1>0, <2>2 DEF IInv, ListCapsules, TypeWorker, ClaimsOfOwner, AttemptsInFlight, InFlight, Row
    <3> QED BY <3>1, <3>2, <3>3
  <2>3. CASE ReadStatus
    <3>1. TypeStore' /\ TypeWorker' /\ GoalRead'
      BY <1>0, <2>3 DEF IInv, ReadStatus, Goal, TypeStore, TypeWorker, GoalRead
    <3>2. WorkerOfGoal'
      BY <1>0, <2>3, ConstantsAssumption DEF IInv, ReadStatus, TypeWorker, WorkerOfGoal, Goal
    <3>3. ClaimsOfOwner' /\ AttemptsInFlight'
      BY <1>0, <2>3 DEF IInv, ReadStatus, Goal, TypeWorker, ClaimsOfOwner, AttemptsInFlight, InFlight, Row
    <3> QED BY <3>1, <3>2, <3>3
  <2>4. CASE Claimed
    <3>1. TypeStore' /\ TypeWorker' /\ GoalRead'
      BY <1>0, <2>4 DEF IInv, Claimed, TypeStore, TypeWorker, GoalRead
    <3>2. WorkerOfGoal'
      BY <1>0, <2>4, ConstantsAssumption DEF IInv, Claimed, TypeWorker, WorkerOfGoal, Goal
    <3>3. ClaimsOfOwner' /\ AttemptsInFlight'
      BY <1>0, <2>4 DEF IInv, Claimed, TypeWorker, ClaimsOfOwner, AttemptsInFlight, InFlight, Row
    <3> QED BY <3>1, <3>2, <3>3
  <2>5. CASE Submit
    <3>1. TypeStore' /\ TypeWorker' /\ GoalRead'
      BY <1>0, <2>5 DEF IInv, Submit, TypeStore, TypeWorker, GoalRead
    <3>2. WorkerOfGoal'
      BY <1>0, <2>5, ConstantsAssumption DEF IInv, Submit, TypeWorker, WorkerOfGoal, Goal
    <3>3. ClaimsOfOwner' /\ AttemptsInFlight'
      BY <1>0, <2>5 DEF IInv, Submit, TypeWorker, ClaimsOfOwner, AttemptsInFlight, InFlight, Row
    <3> QED BY <3>1, <3>2, <3>3
  <2>6. CASE NotCurrent
    <3>1. TypeStore' /\ TypeWorker' /\ GoalRead'
      BY <1>0, <2>6 DEF IInv, NotCurrent, GiveUp, TypeStore, TypeWorker, GoalRead
    <3>2. WorkerOfGoal'
      BY <1>0, <2>6, ConstantsAssumption DEF IInv, NotCurrent, GiveUp, TypeWorker, WorkerOfGoal, Goal
    <3>3. ClaimsOfOwner' /\ AttemptsInFlight'
      BY <1>0, <2>6 DEF IInv, NotCurrent, GiveUp, TypeWorker, ClaimsOfOwner, AttemptsInFlight, InFlight, Row
    <3> QED BY <3>1, <3>2, <3>3
  <2>7. CASE Answer
    <3>1. TypeStore' /\ TypeWorker' /\ GoalRead'
      BY <1>0, <2>7 DEF IInv, Answer, TypeStore, TypeWorker, GoalRead
    <3>2. WorkerOfGoal'
      BY <1>0, <2>7, ConstantsAssumption DEF IInv, Answer, TypeWorker, WorkerOfGoal, Goal
    <3>3. ClaimsOfOwner' /\ AttemptsInFlight'
      BY <1>0, <2>7 DEF IInv, Answer, TypeWorker, ClaimsOfOwner, AttemptsInFlight, InFlight, Row
    <3> QED BY <3>1, <3>2, <3>3
  <2>8. CASE \E j \in EmbeddingJobs : Pick(j)
    <3>1. TypeStore' /\ TypeWorker' /\ GoalRead'
      BY <1>0, <2>8 DEF IInv, Pick, TypeStore, TypeWorker, GoalRead
    <3>2. WorkerOfGoal'
      BY <1>0, <2>8, ConstantsAssumption DEF IInv, Pick, TypeWorker, WorkerOfGoal, Goal
    <3>3. ClaimsOfOwner' /\ AttemptsInFlight'
      BY <1>0, <2>8 DEF IInv, Pick, TypeWorker, ClaimsOfOwner, AttemptsInFlight, InFlight, Row
    <3> QED BY <3>1, <3>2, <3>3
  <2>9. CASE Picked
    <3>1. TypeStore' /\ TypeWorker' /\ GoalRead'
      BY <1>0, <2>9 DEF IInv, Picked, EndCycle, FreshCall, TypeStore, TypeWorker, GoalRead
    <3>2. WorkerOfGoal'
      BY <1>0, <2>9, ConstantsAssumption DEF IInv, Picked, EndCycle, FreshCall, TypeWorker, WorkerOfGoal, Goal
    <3>3. ClaimsOfOwner' /\ AttemptsInFlight'
      BY <1>0, <2>9 DEF IInv, Picked, EndCycle, FreshCall, TypeWorker, ClaimsOfOwner, AttemptsInFlight, InFlight, Row
    <3> QED BY <3>1, <3>2, <3>3
  <2>10. CASE Refused
    <3>1. TypeStore' /\ TypeWorker' /\ GoalRead'
      BY <1>0, <2>10 DEF IInv, Refused, EndCycle, FreshCall, TypeStore, TypeWorker, GoalRead
    <3>2. WorkerOfGoal'
      BY <1>0, <2>10, ConstantsAssumption DEF IInv, Refused, EndCycle, FreshCall, TypeWorker, WorkerOfGoal, Goal
    <3>3. ClaimsOfOwner' /\ AttemptsInFlight'
      BY <1>0, <2>10 DEF IInv, Refused, EndCycle, FreshCall, TypeWorker, ClaimsOfOwner, AttemptsInFlight, InFlight, Row
    <3> QED BY <3>1, <3>2, <3>3
  <2>11. CASE \E class \in EndpointFailures \cup {"operator_action"} : Refusal(class)
    <3>0. PICK class \in EndpointFailures \cup {"operator_action"} : Refusal(class)
      BY <2>11
    <3>1. TypeStore' /\ GoalRead'
      BY <1>0, <3>0 DEF IInv, Refusal, GiveUp, TypeStore, GoalRead
    <3>2. TypeWorker'
      BY <1>0, <3>0 DEF Refusal, GiveUp, TypeWorker
    <3>3. WorkerOfGoal'
      BY <1>0, <3>0 DEF IInv, Refusal, GiveUp, TypeWorker, WorkerOfGoal, Goal
    <3>4. ClaimsOfOwner' /\ AttemptsInFlight'
      BY <1>0, <3>0 DEF IInv, Refusal, GiveUp, ClaimsOfOwner, AttemptsInFlight, InFlight, Row
    <3> QED BY <3>1, <3>2, <3>3, <3>4
  <2>12. CASE \E p \in Process : Elect(p)
    <3>1. TypeStore' /\ TypeWorker' /\ GoalRead'
      BY <1>0, <2>12 DEF IInv, Elect, TypeStore, TypeWorker, GoalRead
    <3>2. WorkerOfGoal'
      BY <1>0, <2>12, ConstantsAssumption DEF IInv, Elect, TypeWorker, WorkerOfGoal, Goal
    <3>3. ClaimsOfOwner' /\ AttemptsInFlight'
      BY <1>0, <2>12 DEF IInv, Elect, TypeWorker, ClaimsOfOwner, AttemptsInFlight, InFlight, Row
    <3> QED BY <3>1, <3>2, <3>3
  <2>13. CASE \E p \in Process : Ask(p)
    <3>1. TypeStore' /\ TypeWorker' /\ GoalRead'
      BY <1>0, <2>13 DEF IInv, Ask, TypeStore, TypeWorker, GoalRead
    <3>2. WorkerOfGoal'
      BY <1>0, <2>13, ConstantsAssumption DEF IInv, Ask, TypeWorker, WorkerOfGoal, Goal
    <3>3. ClaimsOfOwner' /\ AttemptsInFlight'
      BY <1>0, <2>13 DEF IInv, Ask, TypeWorker, ClaimsOfOwner, AttemptsInFlight, InFlight, Row
    <3> QED BY <3>1, <3>2, <3>3
  <2>14. CASE OtherWrite
    <3>1. TypeStore' /\ TypeWorker' /\ GoalRead'
      BY <1>0, <2>14 DEF IInv, OtherWrite, TypeStore, TypeWorker, GoalRead
    <3>2. WorkerOfGoal'
      BY <1>0, <2>14, ConstantsAssumption DEF IInv, OtherWrite, TypeWorker, WorkerOfGoal, Goal
    <3>3. ClaimsOfOwner' /\ AttemptsInFlight'
      BY <1>0, <2>14 DEF IInv, OtherWrite, TypeWorker, ClaimsOfOwner, AttemptsInFlight, InFlight, Row
    <3> QED BY <3>1, <3>2, <3>3
  <2> QED BY <2>1, <2>2, <2>3, <2>4, <2>5, <2>6, <2>7, <2>8, <2>9, <2>10, <2>11, <2>12, <2>13, <2>14 DEF Quiet
<1> QED BY <1>2, <1>3, TypeParts DEF IInv, GoalRead, TypeOK, TypeStore, TypeTables, TypeWorker

\* Beginning a transition: what is served is off from here on.
LEMMA BeginTransitionStep == ASSUME IInv, BeginTransition PROVE IInv'
<1> USE Constants
<1>0. TypeStore /\ TypeTables /\ TypeWorker
  BY TypeParts DEF IInv
<1>1. owner \in Process /\ SpaceOf[owner] \in Space /\ SpaceOf[owner] # NoSpace
  BY <1>0, OwnerRuns DEF BeginTransition
<1>2. TypeStore' /\ TypeWorker' /\ GoalRead'
  BY <1>0, <1>1 DEF BeginTransition, TypeStore, TypeWorker, GoalRead
<1>3. TypeTables' /\ NothingOfForgotten' /\ VectorsOfTheirSpace'
  BY <1>0 DEF IInv, BeginTransition, TypeTables, NothingOfForgotten, VectorsOfTheirSpace, Rows, Vectors
<1>4. ServingIsWhole' /\ PhaseOfTarget'
  BY <1>0, <1>1 DEF IInv, BeginTransition, ServingIsWhole, PhaseOfTarget
<1>5. WorkerOfGoal'
  BY <1>0, <1>1 DEF BeginTransition, WorkerOfGoal, Goal
<1>6. ClaimsOfOwner' /\ AttemptsInFlight'
  BY <1>0 DEF IInv, BeginTransition, TypeWorker, ClaimsOfOwner, AttemptsInFlight, InFlight, Row
<1> QED BY <1>2, <1>3, <1>4, <1>5, <1>6 DEF IInv, GoalRead, TypeOK, TypeStore, TypeTables, TypeWorker

\* Pruning takes no row and no vector of a capsule that lives.
LEMMA PruneStep == ASSUME IInv, Prune PROVE IInv'
<1> USE Constants
<1>0. TypeStore /\ TypeTables /\ TypeWorker
  BY TypeParts DEF IInv
<1>1. TypeStore' /\ TypeWorker' /\ GoalRead'
  BY <1>0 DEF IInv, Prune, TypeStore, TypeWorker, GoalRead
<1>2. TypeTables' /\ NothingOfForgotten' /\ VectorsOfTheirSpace'
  BY <1>0 DEF IInv, Prune, TypeTables, NothingOfForgotten, VectorsOfTheirSpace, Rows, Vectors
<1>3. ServingIsWhole' /\ PhaseOfTarget'
  BY <1>0 DEF IInv, Prune, ServingIsWhole, PhaseOfTarget
<1>4. left = {}
  BY DEF IInv, Prune, ClaimsOfOwner
<1>5. ClaimsOfOwner' /\ AttemptsInFlight'
  BY <1>0, <1>4 DEF IInv, Prune, TypeWorker, ClaimsOfOwner, AttemptsInFlight, InFlight, Row
<1>6. WorkerOfGoal'
  BY DEF IInv, Prune, WorkerOfGoal, Goal
<1> QED BY <1>1, <1>2, <1>3, <1>5, <1>6 DEF IInv, GoalRead, TypeOK, TypeStore, TypeTables, TypeWorker

\* Queueing writes fresh rows, of live capsules only, and leaves the others as they were.
LEMMA QueueStep == ASSUME IInv, Queue PROVE IInv'
<1> USE Constants
<1>0. TypeStore /\ TypeTables /\ TypeWorker
  BY TypeParts DEF IInv
<1>1. TypeStore' /\ TypeWorker' /\ GoalRead'
  BY <1>0 DEF IInv, Queue, TypeStore, TypeWorker, GoalRead
<1>2. owner \in Process /\ TextOf[owner] \in Fingerprint /\ goal \in Space /\ left = {} /\ left' = {}
  BY <1>0, OwnerRuns DEF IInv, Queue, ClaimsOfOwner
<1> DEFINE fresh == [space |-> goal, text |-> TextOf[owner], attempts |-> 0, ready |-> TRUE, spent |-> 0]
<1>3. fresh \in Rows /\ fresh.attempts = fresh.spent
  BY <1>2 DEF Rows
<1>4. /\ DOMAIN jobs' \subseteq DOMAIN jobs \cup live
      /\ \A c \in DOMAIN jobs' : jobs'[c] = fresh \/ (c \in DOMAIN jobs /\ jobs'[c] = jobs[c])
  BY DEF Queue, Queued
<1> HIDE DEF fresh
<1>5. TypeTables'
  BY <1>0, <1>3, <1>4 DEF Queue, TypeTables, TypeStore, Rows, Vectors
<1>6. NothingOfForgotten' /\ VectorsOfTheirSpace' /\ ServingIsWhole' /\ PhaseOfTarget'
  BY <1>4 DEF IInv, Queue, NothingOfForgotten, VectorsOfTheirSpace, ServingIsWhole, PhaseOfTarget
<1>7. ClaimsOfOwner'
  BY <1>2 DEF ClaimsOfOwner
<1>8. \A c \in DOMAIN jobs : jobs[c].attempts = jobs[c].spent /\ jobs[c].spent \in Nat
  BY <1>0, <1>2 DEF IInv, AttemptsInFlight, InFlight, TypeTables, Rows
<1>9. \A c \in DOMAIN jobs' : jobs'[c].attempts = jobs'[c].spent /\ jobs'[c].spent \in Nat
  BY <1>3, <1>4, <1>8 DEF Rows
<1>10. AttemptsInFlight'
  BY <1>2, <1>9 DEF AttemptsInFlight, InFlight
<1>11. WorkerOfGoal'
  BY DEF IInv, Queue, WorkerOfGoal, Goal
<1> QED BY <1>1, <1>5, <1>6, <1>7, <1>10, <1>11 DEF IInv, GoalRead, TypeOK, TypeStore, TypeTables, TypeWorker

\* A worker whose client cannot embed gives up the lock; the phase follows the target.
LEMMA ConfigureStep == ASSUME IInv, Configure PROVE IInv'
<1> USE Constants
<1>0. TypeStore /\ TypeTables /\ TypeWorker
  BY TypeParts DEF IInv
<1>1. TypeStore' /\ PhaseOfTarget'
  BY <1>0 DEF IInv, Configure, Resumed, TypeStore, PhaseOfTarget
<1>2. \/ owner' = NoProcess /\ at' = "standby" /\ FreshSync /\ FreshCall
      \/ owner' = owner /\ at' = "claim" /\ at = "config" /\ FreshSync /\ FreshCall
  BY DEF Configure, Release
<1>3. TypeWorker' /\ GoalRead'
  <2>1. left' = {} /\ request' = {} /\ alone' = FALSE /\ failure' = "none" /\ done' = FALSE
    BY <1>2 DEF FreshCall
  <2>2. began' = FALSE /\ seen' = 0 /\ inputs' = {} /\ goal' = NoSpace
    BY <1>2 DEF FreshSync
  <2>3. synced' = synced /\ owner # NoProcess
    BY <1>0 DEF Configure, TypeWorker
  <2>4. owner' \in Process \cup {NoProcess} /\ at' \in Steps /\ (owner' = NoProcess <=> at' = "standby")
    BY <1>0, <1>2, <2>3 DEF TypeWorker
  <2>5. GoalRead'
    BY <1>2 DEF GoalRead
  <2>6. began' \in BOOLEAN /\ alone' \in BOOLEAN /\ done' \in BOOLEAN /\ failure' \in Classes
    BY <2>1, <2>2
  <2>7. /\ seen' \in 0..MaxGeneration /\ synced' \in [Process -> 0..MaxGeneration]
        /\ inputs' \subseteq Capsule /\ goal' \in Space \cup {NoSpace}
        /\ left' \subseteq EmbeddingJobs /\ request' \subseteq left'
    <3>1. 0 \in 0..MaxGeneration /\ synced \in [Process -> 0..MaxGeneration]
      BY <1>0 DEF TypeWorker
    <3> QED BY <3>1, <2>1, <2>2, <2>3
  <2> QED BY <2>4, <2>5, <2>6, <2>7, Zenon DEF TypeWorker
<1>4. TypeTables' /\ NothingOfForgotten' /\ VectorsOfTheirSpace' /\ ServingIsWhole'
  BY <1>0 DEF IInv, Configure, TypeTables, NothingOfForgotten, VectorsOfTheirSpace, ServingIsWhole, Rows, Vectors
<1>5. left = {} /\ left' = {}
  BY <1>2 DEF IInv, Configure, ClaimsOfOwner, FreshCall
<1>6. ClaimsOfOwner' /\ AttemptsInFlight'
  BY <1>5 DEF IInv, Configure, ClaimsOfOwner, AttemptsInFlight, InFlight
<1>7. WorkerOfGoal'
  BY DEF IInv, Configure, Release, WorkerOfGoal, Goal
<1> QED BY <1>1, <1>3, <1>4, <1>6, <1>7 DEF IInv, GoalRead, TypeOK, TypeStore, TypeTables, TypeWorker

\* Claiming charges an attempt to a row that no job in flight is charged to.
LEMMA ClaimStep == ASSUME IInv, NEW c \in Capsule, Claim(c) PROVE IInv'
<1> USE Constants
<1>0. TypeStore /\ TypeTables /\ TypeWorker
  BY TypeParts DEF IInv
<1>1. /\ c \in DOMAIN jobs /\ c \in live /\ jobs[c].ready /\ jobs[c].attempts < MaxAttempts
      /\ jobs[c].space = SpaceOf[owner] /\ owner \in Process /\ jobs[c] \in Rows
  BY <1>0, OwnerRuns DEF Claim, Claimable, TypeTables
<1>2. PICK new \in EmbeddingJobs : /\ left' = left \cup {new}
                                 /\ new.capsule = c /\ new.space = jobs[c].space /\ new.text = jobs[c].text
  <2>1. jobs[c].space \in Space /\ jobs[c].text \in Fingerprint
    BY <1>1 DEF Rows
  <2>2. [capsule |-> c, space |-> jobs[c].space, text |-> jobs[c].text] \in EmbeddingJobs
    BY <2>1 DEF EmbeddingJobs
  <2>3. left' = left \cup {[capsule |-> c, space |-> jobs[c].space, text |-> jobs[c].text]}
    BY DEF Claim
  <2> QED BY <2>2, <2>3
<1>3. /\ DOMAIN jobs' = DOMAIN jobs
      /\ \A d \in DOMAIN jobs : d # c => jobs'[d] = jobs[d]
      /\ jobs'[c] = [jobs[c] EXCEPT !.attempts = @ + 1, !.ready = FALSE]
  BY <1>1 DEF Claim
<1>4. /\ jobs'[c] \in Rows /\ jobs'[c].attempts = jobs[c].attempts + 1 /\ ~jobs'[c].ready
      /\ jobs'[c].spent = jobs[c].spent /\ jobs'[c].space = jobs[c].space /\ jobs'[c].text = jobs[c].text
  <2>1. jobs[c].attempts \in Nat /\ jobs[c].attempts + 1 \in 0..MaxAttempts
    BY <1>1 DEF Rows
  <2>2. /\ jobs'[c].attempts = jobs[c].attempts + 1 /\ jobs'[c].ready = FALSE
        /\ jobs'[c].spent = jobs[c].spent /\ jobs'[c].space = jobs[c].space /\ jobs'[c].text = jobs[c].text
    BY <1>1, <1>3 DEF Rows
  <2>3. jobs'[c] \in Rows
    BY <1>1, <1>3, <2>1 DEF Rows
  <2> QED BY <2>2, <2>3
<1>5. \A j \in left : j.capsule # c
  BY <1>1 DEF IInv, Claim, ClaimsOfOwner
<1>6. TypeStore' /\ TypeWorker' /\ GoalRead'
  BY <1>0, <1>1, <1>2 DEF Claim, TypeStore, TypeWorker, GoalRead
<1>7. TypeTables'
  BY <1>0, <1>3, <1>4 DEF Claim, TypeTables, Vectors
<1>8. NothingOfForgotten' /\ VectorsOfTheirSpace' /\ ServingIsWhole' /\ PhaseOfTarget' /\ WorkerOfGoal'
  BY <1>3 DEF IInv, Claim, NothingOfForgotten, VectorsOfTheirSpace, ServingIsWhole, PhaseOfTarget,
              WorkerOfGoal, Goal
<1>9. ClaimsOfOwner'
  BY <1>1, <1>2, <1>3, <1>4, <1>5 DEF IInv, Claim, ClaimsOfOwner
<1>10. InFlight(c)' /\ ~InFlight(c)
  <2>1. new \in left' /\ Row(new)'
    BY <1>1, <1>2, <1>3, <1>4 DEF Row
  <2> QED BY <2>1, <1>2, <1>5 DEF InFlight
<1>11. ASSUME NEW d \in DOMAIN jobs, d # c PROVE InFlight(d)' <=> InFlight(d)
  BY <1>1, <1>2, <1>3, <1>11 DEF InFlight, Row
<1>12. AttemptsInFlight'
  <2>1. jobs[c].attempts = jobs[c].spent /\ jobs[c].spent \in Nat
    BY <1>1, <1>10 DEF IInv, AttemptsInFlight, Rows
  <2>2. jobs'[c].attempts = jobs'[c].spent + 1
    BY <1>4, <2>1
  <2>3. \A d \in DOMAIN jobs : d # c =>
          jobs'[d].attempts = jobs'[d].spent + (IF InFlight(d)' THEN 1 ELSE 0)
    BY <1>3, <1>11 DEF IInv, AttemptsInFlight
  <2> QED BY <1>3, <1>10, <2>2, <2>3 DEF AttemptsInFlight
<1> QED BY <1>6, <1>7, <1>8, <1>9, <1>12 DEF IInv, GoalRead, TypeOK, TypeStore, TypeTables, TypeWorker

\* A vector lands: the row it was made for goes with its claim.
LEMMA CompleteStep == ASSUME IInv, NEW j \in EmbeddingJobs, Complete(j) PROVE IInv'
<1> USE Constants
<1>0. TypeStore /\ TypeTables /\ TypeWorker
  BY TypeParts DEF IInv
<1>1. j \in left /\ owner \in Process /\ j.capsule \in Capsule /\ left' = left \ {j} /\ at = "complete"
  BY <1>0, OwnerRuns DEF Complete, TypeWorker, EmbeddingJobs
<1>2. TypeStore' /\ TypeWorker' /\ GoalRead'
  <2>1. /\ left' \subseteq EmbeddingJobs /\ request' \subseteq left'
        /\ at' \in {"pick", "complete"} /\ done' \in BOOLEAN
    BY <1>0, <1>1 DEF Complete, TypeWorker
  <2>2. TypeStore'
    BY <1>0 DEF Complete, TypeStore
  <2>3. GoalRead'
    BY <2>1 DEF GoalRead
  <2>4. TypeWorker'
    BY <1>0, <1>1, <2>1 DEF Complete, TypeWorker
  <2> QED BY <2>2, <2>3, <2>4
<1>3. TypeTables'
  <2>1. [space |-> j.space, text |-> j.text, by |-> SpaceOf[owner]] \in Vectors
    BY <1>0, <1>1, OwnerRuns DEF Vectors, EmbeddingJobs
  <2>2. DOMAIN vectors' \subseteq Capsule /\ \A d \in DOMAIN vectors' : vectors'[d] \in Vectors
    BY <1>0, <1>1, <2>1 DEF Complete, TypeTables
  <2>3. DOMAIN jobs' \subseteq Capsule /\ \A d \in DOMAIN jobs' : jobs'[d] \in Rows
    BY <1>0 DEF Complete, TypeTables
  <2> QED BY <2>2, <2>3 DEF TypeTables
<1>4. NothingOfForgotten' /\ VectorsOfTheirSpace'
  BY <1>0 DEF IInv, Complete, Current, Row, NothingOfForgotten, VectorsOfTheirSpace
<1>5. ServingIsWhole' /\ PhaseOfTarget'
  BY <1>0 DEF IInv, Complete, Current, Goal, ServingIsWhole, PhaseOfTarget
<1>6. Row(j) => Current(j) /\ j.space = SpaceOf[owner]
  <2>1. j.space = SpaceOf[owner] /\ j.capsule \in live \cup forgotten
    BY <1>1 DEF IInv, ClaimsOfOwner
  <2>2. Goal = SpaceOf[owner]
    BY <1>1, ConstantsAssumption DEF IInv, WorkerOfGoal
  <2> QED BY <2>1, <2>2 DEF IInv, NothingOfForgotten, Row, Current
<1>7. /\ DOMAIN jobs' \subseteq DOMAIN jobs /\ \A d \in DOMAIN jobs' : jobs'[d] = jobs[d]
      /\ j.capsule \in DOMAIN jobs' => ~Row(j)
  BY <1>6 DEF Complete
<1>8. ClaimsOfOwner'
  BY <1>1, <1>7 DEF IInv, Complete, ClaimsOfOwner
<1>9. ASSUME NEW d \in DOMAIN jobs' PROVE InFlight(d)' <=> InFlight(d)
  BY <1>1, <1>7 DEF InFlight, Row
<1>10. AttemptsInFlight'
  BY <1>7, <1>9 DEF IInv, AttemptsInFlight
<1>11. WorkerOfGoal'
  BY <1>1 DEF IInv, Complete, WorkerOfGoal, Goal
<1> QED BY <1>2, <1>3, <1>4, <1>5, <1>8, <1>10, <1>11 DEF IInv, GoalRead, TypeOK, TypeStore, TypeTables, TypeWorker

\* What a failure writes: the row of the job is deferred, and its claim is either given
\* back or spent.
LEMMA FailureWrites ==
  ASSUME IInv, NEW j \in left
  PROVE  /\ DOMAIN Failed(j) = DOMAIN jobs
         /\ \A d \in DOMAIN jobs :
              /\ Failed(j)[d] \in Rows
              /\ Failed(j)[d].space = jobs[d].space /\ Failed(j)[d].text = jobs[d].text
              /\ ~(d = j.capsule /\ Row(j)) => Failed(j)[d] = jobs[d]
         /\ Row(j) => Failed(j)[j.capsule].attempts = Failed(j)[j.capsule].spent
<1> USE Constants
<1> DEFINE c == j.capsule
           r == jobs[c]
<1>0. TypeTables
  BY TypeParts DEF IInv
<1>1. CASE ~Row(j)
  BY <1>0, <1>1 DEF Failed, TypeTables
<1>2. CASE Row(j)
  <2>1. c \in DOMAIN jobs /\ r \in Rows /\ r.attempts = r.spent + 1 /\ r.spent \in Nat /\ r.attempts \in 0..MaxAttempts
    BY <1>0, <1>2 DEF IInv, TypeTables, Row, AttemptsInFlight, InFlight, Rows
  <2>2. CASE failure \in EndpointFailures
    <3>1. Failed(j) = [jobs EXCEPT ![c] = [r EXCEPT !.attempts = @ - 1, !.ready = FALSE]]
      BY <1>2, <2>1, <2>2 DEF Failed
    <3>2. r.attempts - 1 \in 0..MaxAttempts /\ r.attempts - 1 = r.spent
      BY <2>1
    <3>3. Failed(j)[c] = [r EXCEPT !.attempts = @ - 1, !.ready = FALSE] /\ Failed(j)[c] \in Rows
      <4>1. Failed(j)[c] = [r EXCEPT !.attempts = @ - 1, !.ready = FALSE]
        BY <2>1, <3>1
      <4>2. [r EXCEPT !.attempts = @ - 1, !.ready = FALSE] \in Rows
        BY <2>1, <3>2 DEF Rows
      <4> QED BY <4>1, <4>2
    <3>4. Failed(j)[c].space = r.space /\ Failed(j)[c].text = r.text /\ Failed(j)[c].attempts = Failed(j)[c].spent
      BY <2>1, <3>2, <3>3 DEF Rows
    <3>5. DOMAIN Failed(j) = DOMAIN jobs /\ \A d \in DOMAIN jobs : d # c => Failed(j)[d] = jobs[d]
      BY <3>1
    <3>6. \A d \in DOMAIN jobs : jobs[d] \in Rows
      BY <1>0 DEF TypeTables
    <3> QED BY <1>2, <3>3, <3>4, <3>5, <3>6
  <2>3. CASE failure \notin EndpointFailures
    <3>1. Failed(j) = [jobs EXCEPT ![c] = [r EXCEPT !.spent = @ + 1, !.ready = FALSE]]
      BY <1>2, <2>1, <2>3 DEF Failed
    <3>2. r.spent + 1 \in Nat
      BY <2>1
    <3>3. Failed(j)[c] = [r EXCEPT !.spent = @ + 1, !.ready = FALSE] /\ Failed(j)[c] \in Rows
      <4>1. Failed(j)[c] = [r EXCEPT !.spent = @ + 1, !.ready = FALSE]
        BY <2>1, <3>1
      <4>2. [r EXCEPT !.spent = @ + 1, !.ready = FALSE] \in Rows
        BY <2>1, <3>2 DEF Rows
      <4> QED BY <4>1, <4>2
    <3>4. Failed(j)[c].space = r.space /\ Failed(j)[c].text = r.text /\ Failed(j)[c].attempts = Failed(j)[c].spent
      BY <2>1, <3>2, <3>3 DEF Rows
    <3>5. DOMAIN Failed(j) = DOMAIN jobs /\ \A d \in DOMAIN jobs : d # c => Failed(j)[d] = jobs[d]
      BY <3>1
    <3>6. \A d \in DOMAIN jobs : jobs[d] \in Rows
      BY <1>0 DEF TypeTables
    <3> QED BY <1>2, <3>3, <3>4, <3>5, <3>6
  <2> QED BY <2>2, <2>3
<1> QED BY <1>1, <1>2

\* The invariant's parts that depend on the claims survive a failure.
LEMMA FailurePreserves ==
  ASSUME IInv, NEW j \in left, jobs' = Failed(j), left' = left \ {j},
         UNCHANGED <<live, forgotten, vectors, owner>>, at # "claim", at' # "claim",
         at \in {"fail", "refuse"}, at' \in {"pick", "refuse"}
  PROVE  /\ TypeTables' /\ NothingOfForgotten' /\ VectorsOfTheirSpace'
         /\ ClaimsOfOwner' /\ AttemptsInFlight'
<1>0. TypeTables
  BY TypeParts DEF IInv
<1>1. DOMAIN jobs' = DOMAIN jobs
  BY FailureWrites
<1>2. \A d \in DOMAIN jobs : /\ jobs'[d] \in Rows
                             /\ jobs'[d].space = jobs[d].space /\ jobs'[d].text = jobs[d].text
                             /\ ~(d = j.capsule /\ Row(j)) => jobs'[d] = jobs[d]
  BY FailureWrites
<1>3. Row(j) => jobs'[j.capsule].attempts = jobs'[j.capsule].spent
  BY FailureWrites
<1>4. TypeTables'
  BY <1>0, <1>1, <1>2 DEF TypeTables, Vectors
<1>5. NothingOfForgotten' /\ VectorsOfTheirSpace'
  BY <1>1 DEF IInv, NothingOfForgotten, VectorsOfTheirSpace
<1>6. ClaimsOfOwner'
  BY DEF IInv, ClaimsOfOwner
<1>7. \A k \in left : Row(k)' <=> Row(k)
  BY <1>1, <1>2 DEF Row
<1>8. ASSUME NEW d \in DOMAIN jobs', ~(d = j.capsule /\ Row(j))
      PROVE  InFlight(d)' <=> InFlight(d)
  BY <1>7, <1>8 DEF InFlight
<1>9. Row(j) => ~InFlight(j.capsule)'
  BY <1>7 DEF IInv, InFlight, ClaimsOfOwner
<1>10. ASSUME NEW d \in DOMAIN jobs'
       PROVE  jobs'[d].attempts = jobs'[d].spent + (IF InFlight(d)' THEN 1 ELSE 0)
  <2>1. CASE d = j.capsule /\ Row(j)
    BY <1>2, <1>3, <1>9, <1>1, <2>1 DEF Rows
  <2>2. CASE ~(d = j.capsule /\ Row(j))
    BY <1>1, <1>2, <1>8, <2>2 DEF IInv, AttemptsInFlight
  <2> QED BY <2>1, <2>2
<1> QED BY <1>4, <1>5, <1>6, <1>10 DEF AttemptsInFlight

\* A job that failed alone is deferred.
LEMMA FailStep == ASSUME IInv, Fail PROVE IInv'
<1> USE Constants
<1>0. TypeStore /\ TypeTables /\ TypeWorker
  BY TypeParts DEF IInv
<1>1. PICK j \in request : jobs' = Failed(j) /\ left' = left \ {j}
  BY DEF Fail
<1>2. j \in left
  BY <1>0 DEF TypeWorker
<1>3. TypeTables' /\ NothingOfForgotten' /\ VectorsOfTheirSpace' /\ ClaimsOfOwner' /\ AttemptsInFlight'
  BY <1>1, <1>2, FailurePreserves DEF Fail
<1>4. TypeStore' /\ TypeWorker' /\ GoalRead'
  BY <1>0, <1>1 DEF Fail, TypeStore, TypeWorker, GoalRead
<1>5. ServingIsWhole' /\ PhaseOfTarget' /\ WorkerOfGoal'
  BY DEF IInv, Fail, ServingIsWhole, PhaseOfTarget, WorkerOfGoal, Goal
<1> QED BY <1>3, <1>4, <1>5 DEF IInv, GoalRead, TypeOK, TypeStore, TypeTables, TypeWorker

\* A job of a refused batch is deferred.
LEMMA RefuseStep == ASSUME IInv, NEW j \in EmbeddingJobs, Refuse(j) PROVE IInv'
<1> USE Constants
<1>0. TypeStore /\ TypeTables /\ TypeWorker
  BY TypeParts DEF IInv
<1>1. j \in left /\ jobs' = Failed(j) /\ left' = left \ {j}
  BY DEF Refuse
<1>2. TypeTables' /\ NothingOfForgotten' /\ VectorsOfTheirSpace' /\ ClaimsOfOwner' /\ AttemptsInFlight'
  BY <1>1, FailurePreserves DEF Refuse
<1>3. TypeStore' /\ TypeWorker' /\ GoalRead'
  BY <1>0, <1>1 DEF Refuse, TypeStore, TypeWorker, GoalRead
<1>4. ServingIsWhole' /\ PhaseOfTarget' /\ WorkerOfGoal'
  BY DEF IInv, Refuse, ServingIsWhole, PhaseOfTarget, WorkerOfGoal, Goal
<1> QED BY <1>2, <1>3, <1>4 DEF IInv, GoalRead, TypeOK, TypeStore, TypeTables, TypeWorker

\* The phase moves, and nothing else.
LEMMA SetLexicalOnlyStep == ASSUME IInv, SetLexicalOnly PROVE IInv'
<1> USE Constants
<1>0. TypeStore /\ TypeTables /\ TypeWorker
  BY TypeParts DEF IInv
<1>1. TypeStore' /\ TypeWorker' /\ GoalRead'
  BY <1>0 DEF IInv, SetLexicalOnly, EndCycle, FreshCall, Resumed, TypeStore, TypeWorker, GoalRead
<1>2. TypeTables' /\ NothingOfForgotten' /\ VectorsOfTheirSpace' /\ ServingIsWhole' /\ PhaseOfTarget'
  BY <1>0 DEF IInv, SetLexicalOnly, Resumed, TypeTables, NothingOfForgotten, VectorsOfTheirSpace,
              ServingIsWhole, PhaseOfTarget, Rows, Vectors
<1>3. left = {} /\ left' = {} /\ at' = "begin"
  BY DEF IInv, SetLexicalOnly, EndCycle, FreshCall, ClaimsOfOwner
<1>4. WorkerOfGoal' /\ ClaimsOfOwner' /\ AttemptsInFlight'
  BY <1>3 DEF IInv, SetLexicalOnly, WorkerOfGoal, ClaimsOfOwner, AttemptsInFlight, InFlight
<1> QED BY <1>1, <1>2, <1>4 DEF IInv, GoalRead, TypeOK, TypeStore, TypeTables, TypeWorker

\* A recall's answer moves the phase, and nothing else.
LEMMA AskedStep == ASSUME IInv, NEW p \in Process, Asked(p) PROVE IInv'
<1> USE Constants
<1>0. TypeStore /\ TypeTables /\ TypeWorker
  BY TypeParts DEF IInv
<1>1. TypeStore' /\ TypeWorker' /\ GoalRead'
  BY <1>0 DEF IInv, Asked, Resumed, TypeStore, TypeWorker, GoalRead
<1>2. TypeTables' /\ NothingOfForgotten' /\ VectorsOfTheirSpace' /\ ServingIsWhole' /\ PhaseOfTarget'
  BY <1>0 DEF IInv, Asked, Resumed, TypeTables, NothingOfForgotten, VectorsOfTheirSpace,
              ServingIsWhole, PhaseOfTarget, Rows, Vectors
<1>3. WorkerOfGoal' /\ ClaimsOfOwner' /\ AttemptsInFlight'
  BY DEF IInv, Asked, WorkerOfGoal, Goal, ClaimsOfOwner, AttemptsInFlight, InFlight, Row
<1> QED BY <1>1, <1>2, <1>3 DEF IInv, GoalRead, TypeOK, TypeStore, TypeTables, TypeWorker

\* Activation: what is served from here on is whole.
LEMMA ActivateStep == ASSUME IInv, Activate PROVE IInv'
<1> USE Constants
<1>0. TypeStore /\ TypeTables /\ TypeWorker
  BY TypeParts DEF IInv
<1>1. left = {} /\ left' = {} /\ at' = "begin"
  BY DEF IInv, Activate, EndCycle, FreshCall, ClaimsOfOwner
<1>2. TypeStore' /\ TypeWorker' /\ GoalRead'
  BY <1>0 DEF IInv, Activate, TargetComplete, EndCycle, FreshCall, TypeStore, TypeWorker, GoalRead
<1>3. TypeTables' /\ NothingOfForgotten' /\ VectorsOfTheirSpace'
  BY <1>0 DEF IInv, Activate, TypeTables, NothingOfForgotten, VectorsOfTheirSpace, Rows, Vectors
<1>4. ServingIsWhole' /\ PhaseOfTarget'
  BY <1>0 DEF IInv, Activate, TargetComplete, Covers, ServingIsWhole, PhaseOfTarget
<1>5. WorkerOfGoal' /\ ClaimsOfOwner' /\ AttemptsInFlight'
  BY <1>1 DEF IInv, Activate, WorkerOfGoal, ClaimsOfOwner, AttemptsInFlight, InFlight
<1> QED BY <1>2, <1>3, <1>4, <1>5 DEF IInv, GoalRead, TypeOK, TypeStore, TypeTables, TypeWorker

-----------------------------------------------------------------------------
\* An appended capsule was never known, so no job in flight and no served space is about it.
LEMMA AppendStep ==
  ASSUME IInv, CoveredKnown, NEW p \in Process, NEW c \in Capsule, Append(p, c) PROVE IInv'
<1> USE Constants
<1>0. TypeStore /\ TypeTables /\ TypeWorker
  BY TypeParts DEF IInv
<1> DEFINE fresh == [space |-> SpaceOf[p], text |-> TextOf[p], attempts |-> 0, ready |-> TRUE, spent |-> 0]
<1>1. fresh \in Rows /\ fresh.attempts = 0 /\ fresh.spent = 0
  BY DEF Rows
<1>2. /\ c \notin live \cup forgotten /\ live' = live \cup {c} /\ DOMAIN jobs' \subseteq DOMAIN jobs \cup {c}
      /\ \A d \in DOMAIN jobs' : IF d \in DOMAIN jobs /\ d # c THEN jobs'[d] = jobs[d]
                                 ELSE d = c /\ (jobs'[c] = fresh \/ (c \in DOMAIN jobs /\ jobs'[c] = jobs[c]))
      /\ UNCHANGED <<forgotten, state, vectors, owner, at, sync, call, synced, asking, counts, covered>>
  BY DEF Append
<1> HIDE DEF fresh
<1>3. \A j \in left : j.capsule # c
  BY <1>2 DEF IInv, ClaimsOfOwner
<1>4. TypeStore' /\ TypeWorker' /\ GoalRead'
  BY <1>0 DEF IInv, Append, TypeStore, TypeWorker, GoalRead
<1>5. TypeTables'
  BY <1>0, <1>1, <1>2 DEF TypeTables, Vectors
<1>6. NothingOfForgotten' /\ VectorsOfTheirSpace'
  BY <1>2 DEF IInv, NothingOfForgotten, VectorsOfTheirSpace
<1>7. ServingIsWhole' /\ PhaseOfTarget'
  BY <1>2 DEF IInv, CoveredKnown, ServingIsWhole, PhaseOfTarget
<1>8. WorkerOfGoal' /\ ClaimsOfOwner'
  BY <1>2, <1>3 DEF IInv, WorkerOfGoal, Goal, ClaimsOfOwner
<1>9. \A d \in DOMAIN jobs' : d # c => d \in DOMAIN jobs /\ jobs'[d] = jobs[d]
  BY <1>2
<1>10. ASSUME NEW d \in DOMAIN jobs', d # c PROVE InFlight(d)' <=> InFlight(d)
  BY <1>2, <1>9, <1>10 DEF InFlight, Row
<1>11. ~InFlight(c)' /\ ~InFlight(c)
  BY <1>2, <1>3 DEF InFlight
<1>12. c \in DOMAIN jobs' => jobs'[c].attempts = jobs'[c].spent
  BY <1>0, <1>1, <1>2, <1>11 DEF IInv, AttemptsInFlight, TypeTables, Rows
<1>13. c \in DOMAIN jobs' => jobs'[c].spent \in Nat
  BY <1>5 DEF TypeTables, Rows
<1>14. AttemptsInFlight'
  <2>1. \A d \in DOMAIN jobs' : d # c =>
          jobs'[d].attempts = jobs'[d].spent + (IF InFlight(d)' THEN 1 ELSE 0)
    BY <1>9, <1>10 DEF IInv, AttemptsInFlight
  <2> QED BY <1>11, <1>12, <1>13, <2>1 DEF AttemptsInFlight
<1> QED BY <1>4, <1>5, <1>6, <1>7, <1>8, <1>14 DEF IInv, GoalRead, TypeOK, TypeStore, TypeTables, TypeWorker

\* Forgetting takes the row, the vector and the text together; a job in flight outlives its row.
LEMMA ForgetStep == ASSUME IInv, NEW c \in Capsule, Forget(c) PROVE IInv'
<1> USE Constants
<1>0. TypeStore /\ TypeTables /\ TypeWorker
  BY TypeParts DEF IInv
<1>1. /\ DOMAIN jobs' = DOMAIN jobs \ {c} /\ \A d \in DOMAIN jobs' : jobs'[d] = jobs[d]
      /\ DOMAIN vectors' = DOMAIN vectors \ {c} /\ \A d \in DOMAIN vectors' : vectors'[d] = vectors[d]
      /\ live' = live \ {c} /\ forgotten' = forgotten \cup {c}
      /\ UNCHANGED <<state, owner, at, sync, call, synced, asking, counts, covered>>
  BY DEF Forget
<1>2. TypeStore' /\ TypeWorker' /\ GoalRead'
  BY <1>0 DEF IInv, Forget, TypeStore, TypeWorker, GoalRead
<1>3. TypeTables'
  BY <1>0, <1>1 DEF TypeTables
<1>4. NothingOfForgotten' /\ VectorsOfTheirSpace' /\ ServingIsWhole' /\ PhaseOfTarget'
  BY <1>1 DEF IInv, NothingOfForgotten, VectorsOfTheirSpace, ServingIsWhole, PhaseOfTarget
<1>5. WorkerOfGoal' /\ ClaimsOfOwner'
  BY <1>1 DEF IInv, WorkerOfGoal, Goal, ClaimsOfOwner
<1>6. ASSUME NEW d \in DOMAIN jobs' PROVE InFlight(d)' <=> InFlight(d)
  BY <1>1 DEF InFlight, Row
<1>7. AttemptsInFlight'
  BY <1>1, <1>6 DEF IInv, AttemptsInFlight
<1> QED BY <1>2, <1>3, <1>4, <1>5, <1>7 DEF IInv, GoalRead, TypeOK, TypeStore, TypeTables, TypeWorker

\* A row falls due: nothing but its readiness changes.
LEMMA DueStep == ASSUME IInv, NEW c \in Capsule, Due(c) PROVE IInv'
<1> USE Constants
<1>0. TypeStore /\ TypeTables /\ TypeWorker
  BY TypeParts DEF IInv
<1>1. /\ DOMAIN jobs' = DOMAIN jobs /\ \A d \in DOMAIN jobs : d # c => jobs'[d] = jobs[d]
      /\ c \in DOMAIN jobs /\ jobs'[c] = [jobs[c] EXCEPT !.ready = TRUE] /\ jobs[c] \in Rows
  BY <1>0 DEF Due, TypeTables
<1>2. \A d \in DOMAIN jobs : /\ jobs'[d] \in Rows /\ jobs'[d].space = jobs[d].space
                             /\ jobs'[d].text = jobs[d].text
                             /\ jobs'[d].attempts = jobs[d].attempts /\ jobs'[d].spent = jobs[d].spent
  <2>1. /\ jobs'[c] \in Rows /\ jobs'[c].space = jobs[c].space /\ jobs'[c].text = jobs[c].text
        /\ jobs'[c].attempts = jobs[c].attempts /\ jobs'[c].spent = jobs[c].spent
    BY <1>1 DEF Rows
  <2> QED BY <1>0, <1>1, <2>1 DEF TypeTables
<1>3. TypeStore' /\ TypeWorker' /\ GoalRead'
  BY <1>0 DEF IInv, Due, TypeStore, TypeWorker, GoalRead
<1>4. TypeTables'
  BY <1>0, <1>1, <1>2 DEF Due, TypeTables, Vectors
<1>5. NothingOfForgotten' /\ VectorsOfTheirSpace' /\ ServingIsWhole' /\ PhaseOfTarget' /\ WorkerOfGoal'
  BY <1>1 DEF IInv, Due, NothingOfForgotten, VectorsOfTheirSpace, ServingIsWhole, PhaseOfTarget,
              WorkerOfGoal, Goal
<1>6. ClaimsOfOwner'
  BY <1>1 DEF IInv, Due, ClaimsOfOwner
<1>7. ASSUME NEW d \in DOMAIN jobs PROVE InFlight(d)' <=> InFlight(d)
  BY <1>1, <1>2 DEF Due, InFlight, Row
<1>8. AttemptsInFlight'
  BY <1>1, <1>2, <1>7 DEF IInv, AttemptsInFlight
<1> QED BY <1>3, <1>4, <1>5, <1>6, <1>8 DEF IInv, GoalRead, TypeOK, TypeStore, TypeTables, TypeWorker

\* The claims of a cycle that ends early are spent, each on its row.
LEMMA LostWrites ==
  ASSUME IInv
  PROVE  /\ DOMAIN Lost = DOMAIN jobs
         /\ \A d \in DOMAIN jobs : Lost[d] \in Rows /\ Lost[d].attempts = Lost[d].spent
<1> USE Constants
<1>0. TypeTables
  BY TypeParts DEF IInv
<1>1. DOMAIN Lost = DOMAIN jobs
  BY DEF Lost
<1>2. ASSUME NEW d \in DOMAIN jobs PROVE Lost[d] \in Rows /\ Lost[d].attempts = Lost[d].spent
  <2>1. jobs[d] \in Rows /\ jobs[d].spent \in Nat
    BY <1>0 DEF TypeTables, Rows
  <2>2. CASE InFlight(d)
    <3>1. Lost[d] = [jobs[d] EXCEPT !.spent = @ + 1]
      BY <2>2 DEF Lost, InFlight
    <3>2. jobs[d].attempts = jobs[d].spent + 1
      BY <2>2 DEF IInv, AttemptsInFlight
    <3> QED BY <2>1, <3>1, <3>2 DEF Rows
  <2>3. CASE ~InFlight(d)
    <3>1. Lost[d] = jobs[d]
      BY <2>3 DEF Lost, InFlight
    <3>2. jobs[d].attempts = jobs[d].spent
      BY <2>1, <2>3 DEF IInv, AttemptsInFlight
    <3> QED BY <2>1, <3>1, <3>2
  <2> QED BY <2>2, <2>3
<1> QED BY <1>1, <1>2

\* A cycle that ends early, by a crash or by an error, leaves no claim behind.
LEMMA EarlyEndStep == ASSUME IInv, Crash \/ CycleError PROVE IInv'
<1> USE Constants
<1>0. TypeStore /\ TypeTables /\ TypeWorker
  BY TypeParts DEF IInv
<1>1. /\ owner \in Process /\ jobs' = Lost
      /\ at' = "standby" /\ owner' = NoProcess /\ FreshSync /\ FreshCall
      /\ UNCHANGED <<capsules, state, vectors, covered>>
  BY <1>0 DEF Crash, CycleError, Release, TypeWorker
<1>2. DOMAIN jobs' = DOMAIN jobs /\ \A d \in DOMAIN jobs : jobs'[d] \in Rows /\ jobs'[d].attempts = jobs'[d].spent
  BY <1>1, LostWrites
<1>3. TypeStore'
  BY <1>0 DEF Crash, CycleError, TypeStore
<1>4. TypeWorker' /\ GoalRead'
  <2>1. synced' \in [Process -> 0..MaxGeneration]
    BY <1>0 DEF Crash, CycleError, TypeWorker
  <2>2. left' = {} /\ request' = {} /\ alone' = FALSE /\ failure' = "none" /\ done' = FALSE
    BY <1>1 DEF FreshCall
  <2>3. began' = FALSE /\ seen' = 0 /\ inputs' = {} /\ goal' = NoSpace
    BY <1>1 DEF FreshSync
  <2>4. owner' \in Process \cup {NoProcess} /\ at' \in Steps /\ (owner' = NoProcess <=> at' = "standby")
    BY <1>1
  <2>5. began' \in BOOLEAN /\ alone' \in BOOLEAN /\ done' \in BOOLEAN /\ failure' \in Classes
    BY <2>2, <2>3
  <2>6. /\ seen' \in 0..MaxGeneration /\ inputs' \subseteq Capsule /\ goal' \in Space \cup {NoSpace}
        /\ left' \subseteq EmbeddingJobs /\ request' \subseteq left'
    BY <2>2, <2>3
  <2>7. GoalRead'
    BY <1>1 DEF GoalRead
  <2> QED BY <2>1, <2>4, <2>5, <2>6, <2>7, Zenon DEF TypeWorker
<1>5. TypeTables'
  BY <1>0, <1>1, <1>2 DEF TypeTables, Vectors
<1>6. NothingOfForgotten' /\ VectorsOfTheirSpace' /\ ServingIsWhole' /\ PhaseOfTarget'
  BY <1>1, <1>2 DEF IInv, NothingOfForgotten, VectorsOfTheirSpace, ServingIsWhole, PhaseOfTarget
<1>7. WorkerOfGoal' /\ ClaimsOfOwner'
  BY <1>1 DEF WorkerOfGoal, ClaimsOfOwner, FreshCall
<1>8. AttemptsInFlight'
  <2>1. \A d \in DOMAIN jobs' : jobs'[d].spent \in Nat /\ ~InFlight(d)'
    BY <1>1, <1>2 DEF Rows, InFlight, FreshCall
  <2> QED BY <1>2, <2>1 DEF AttemptsInFlight
<1> QED BY <1>3, <1>4, <1>5, <1>6, <1>7, <1>8 DEF IInv, GoalRead, TypeOK, TypeStore, TypeTables, TypeWorker

\* The empty store satisfies the invariant.
LEMMA InitIInv == Init => IInv
<1> SUFFICES ASSUME Init PROVE IInv
  OBVIOUS
<1> USE Constants
<1>1. TypeStore
  BY DEF Init, TypeStore
<1>2. TypeTables
  BY DEF Init, TypeTables
<1>3. TypeWorker /\ GoalRead
  <2>1. 0 \in 0..MaxGeneration /\ synced \in [Process -> 0..MaxGeneration]
    BY DEF Init
  <2>2. owner = NoProcess /\ at = "standby" /\ failure \in Classes /\ at \in Steps
    BY DEF Init
  <2>3. /\ began \in BOOLEAN /\ alone \in BOOLEAN /\ done \in BOOLEAN
        /\ seen = 0 /\ inputs = {} /\ goal = NoSpace /\ left = {} /\ request = {}
    BY DEF Init
  <2>4. owner = NoProcess <=> at = "standby"
    BY <2>2
  <2> QED BY <2>1, <2>2, <2>3, <2>4 DEF TypeWorker, GoalRead
<1>4. NothingOfForgotten /\ VectorsOfTheirSpace /\ ServingIsWhole /\ PhaseOfTarget
  BY DEF Init, NothingOfForgotten, VectorsOfTheirSpace, ServingIsWhole, PhaseOfTarget
<1>5. WorkerOfGoal /\ ClaimsOfOwner /\ AttemptsInFlight
  BY DEF Init, WorkerOfGoal, ClaimsOfOwner, AttemptsInFlight
<1> QED BY <1>1, <1>2, <1>3, <1>4, <1>5 DEF IInv, GoalRead, TypeOK, TypeStore, TypeTables, TypeWorker

\* Every action preserves the invariant, one lemma each.
LEMMA NextIInv == ASSUME IInv, CoveredKnown, [Next]_vars PROVE IInv'
<1>1. CASE Cycle
  BY <1>1, QuietStep, BeginTransitionStep, PruneStep, QueueStep, ConfigureStep, ClaimStep, CompleteStep,
     FailStep, RefuseStep, SetLexicalOnlyStep, ActivateStep DEF Cycle, Quiet
<1>2. CASE \E class \in EndpointFailures \cup {"operator_action"} : Refusal(class)
  BY <1>2, QuietStep DEF Quiet
<1>3. CASE \E p \in Process : Elect(p) \/ Ask(p) \/ Asked(p)
  BY <1>3, QuietStep, AskedStep DEF Quiet
<1>4. CASE \E c \in Capsule : Forget(c) \/ Due(c)
  BY <1>4, ForgetStep, DueStep
<1>5. CASE \E p \in Process, c \in Capsule : Append(p, c)
  BY <1>5, AppendStep
<1>6. CASE OtherWrite
  BY <1>6, QuietStep DEF Quiet
<1>7. CASE Crash \/ CycleError
  BY <1>7, EarlyEndStep
<1>8. CASE UNCHANGED vars
  BY <1>8 DEF vars, IInv, TypeOK, Rows, Vectors, NothingOfForgotten, VectorsOfTheirSpace, ServingIsWhole,
              PhaseOfTarget, WorkerOfGoal, Goal, ClaimsOfOwner, AttemptsInFlight, InFlight, Row
<1> QED BY <1>1, <1>2, <1>3, <1>4, <1>5, <1>6, <1>7, <1>8 DEF Next

\* A capsule once covered by an activation is known for ever: the store forgets, it never unlearns.
LEMMA CoveredStays == Spec => []CoveredKnown
<1>1. Init => CoveredKnown
  BY DEF Init, CoveredKnown
<1>2. CoveredKnown /\ [Next]_vars => CoveredKnown'
  <2> SUFFICES ASSUME CoveredKnown, [Next]_vars PROVE CoveredKnown'
    OBVIOUS
  <2>1. (covered' = covered \/ covered' = live) /\ live \cup forgotten \subseteq live' \cup forgotten'
    BY DEF Next, Cycle, vars, BeginTransition, ReadGeneration, ListCapsules, ReadStatus, Prune, Queue,
           Configure, Claimed, Submit, NotCurrent, Answer, Picked, Fail, Refused, SetLexicalOnly, Activate,
           Claim, Complete, Pick, Refuse, Refusal, Elect, Ask, Asked, Forget, Due, Append, OtherWrite,
           Crash, CycleError
  <2> QED BY <2>1 DEF CoveredKnown
<1> QED BY <1>1, <1>2, PTL DEF Spec

-----------------------------------------------------------------------------
(* What has been synced is queued. *)

\* The types SInv is about.
LEMMA SyncTypes ==
  ASSUME IInv
  PROVE  /\ generation \in Nat \ {0} /\ seen \in Nat /\ \A p \in Process : synced[p] \in Nat
         /\ synced \in [Process -> Nat] /\ Mishaps \in Nat /\ crashes \in Nat /\ errors \in Nat
         /\ owner = NoProcess <=> at = "standby"
         /\ NoProcess \notin Process /\ Misconfigured \subseteq Keyless
         /\ at # "standby" => owner \in Process
<1> USE Constants
<1>1. TypeStore /\ TypeWorker
  BY TypeParts DEF IInv
<1> QED BY <1>1, ConstantsAssumption DEF TypeStore, TypeWorker, Mishaps

\* A step of the cycle's working half, or of another process, that writes no canonical row:
\* what is stored for the goal stays stored for it.
LEMMA SyncKept ==
  ASSUME IInv, SInv, UNCHANGED <<live, generation, sync, synced, crashes, errors>>, Goal' = Goal,
         at' = at \/ (at \notin Syncing /\ at' \notin Syncing),
         owner' = owner \/ owner = NoProcess,
         \A c \in live : Stored(c, Goal) => Stored(c, Goal)'
  PROVE  SInv'
<1>1. SyncedBehind'
  BY DEF SInv, SyncedBehind, Syncing
<1>2. SyncedUndisturbed'
  BY SyncTypes DEF SInv, SyncedUndisturbed, Mishaps
<1>3. QueuedForGoal'
  BY DEF SInv, QueuedForGoal, Mishaps
<1> QED BY <1>1, <1>2, <1>3 DEF SInv

\* The steps that touch neither the tables nor the state.
LEMMA SyncQuiet ==
  ASSUME IInv, SInv,
         \/ Claimed \/ Submit \/ NotCurrent \/ Answer \/ Picked \/ Refused \/ SetLexicalOnly
         \/ \E j \in EmbeddingJobs : Pick(j)
         \/ \E class \in EndpointFailures \cup {"operator_action"} : Refusal(class)
         \/ \E p \in Process : Elect(p) \/ Ask(p) \/ Asked(p)
  PROVE  SInv'
<1>1. UNCHANGED <<live, generation, sync, synced, crashes, errors, active, target, jobs, vectors>>
  BY DEF Claimed, Submit, NotCurrent, Answer, Picked, Refused, SetLexicalOnly, EndCycle, Pick, Refusal,
         Elect, Ask, Asked
<1>2. at' = at \/ (at \notin Syncing /\ at' \notin Syncing)
  BY SyncTypes DEF Claimed, Submit, NotCurrent, GiveUp, Answer, Picked, Refused, SetLexicalOnly, EndCycle, Pick,
         Refusal, Elect, Ask, Asked, Syncing
<1>3. owner' = owner \/ owner = NoProcess
  BY DEF Claimed, Submit, NotCurrent, Answer, Picked, Refused, SetLexicalOnly, Pick, Refusal, Elect, Ask, Asked
<1>4. Goal' = Goal /\ \A c : Stored(c, Goal)' <=> Stored(c, Goal)
  BY <1>1 DEF Goal, Stored
<1> QED BY <1>1, <1>2, <1>3, <1>4, SyncKept

\* The rows keep their spaces, whatever else a claim or a failure writes.
LEMMA SyncRows ==
  ASSUME IInv, SInv, UNCHANGED <<capsules, active, target, vectors, owner, sync, synced, counts>>,
         at' = at \/ (at \notin Syncing /\ at' \notin Syncing),
         DOMAIN jobs' = DOMAIN jobs, \A c \in DOMAIN jobs : jobs'[c].space = jobs[c].space
  PROVE  SInv'
<1>1. Goal' = Goal /\ \A c : Stored(c, Goal) => Stored(c, Goal)'
  BY DEF Goal, Stored
<1> QED BY <1>1, SyncKept

\* A claim, a failure and a refusal write states of jobs, and no job's space.
LEMMA SyncOfRows ==
  ASSUME IInv, SInv,
         \/ Fail \/ \E c \in Capsule : Claim(c) \/ Due(c)
         \/ \E j \in EmbeddingJobs : Refuse(j)
  PROVE  SInv'
<1>0. \A c \in DOMAIN jobs : jobs[c] \in Rows
  BY TypeParts DEF IInv, TypeTables
<1>1. \A j : DOMAIN Failed(j) = DOMAIN jobs /\ \A c \in DOMAIN jobs : Failed(j)[c].space = jobs[c].space
  BY <1>0 DEF Failed, Rows
<1>2. CASE Fail
  BY <1>1, <1>2, SyncRows DEF Fail, Syncing
<1>3. CASE \E j \in EmbeddingJobs : Refuse(j)
  BY <1>1, <1>3, SyncRows DEF Refuse
<1>4. ASSUME NEW c \in Capsule, Claim(c) \/ Due(c) PROVE SInv'
  <2>1. DOMAIN jobs' = DOMAIN jobs /\ \A d \in DOMAIN jobs : jobs'[d].space = jobs[d].space
    BY <1>0, <1>4 DEF Claim, Due, Rows
  <2> QED BY <1>4, <2>1, SyncRows DEF Claim, Due
<1> QED BY <1>2, <1>3, <1>4

\* A vector that is stored is of the goal.
LEMMA SyncComplete ==
  ASSUME IInv, SInv, NEW j \in EmbeddingJobs, Complete(j) PROVE SInv'
<1>1. UNCHANGED <<live, generation, sync, synced, crashes, errors, active, target, owner>>
      /\ at \notin Syncing /\ at' \notin Syncing
  BY DEF Complete, Syncing
<1>2. Goal' = Goal
  BY <1>1 DEF Goal
<1>3. \A c \in live : Stored(c, Goal) => Stored(c, Goal)'
  <2>1. CASE Current(j) /\ j.space = SpaceOf[owner]
    <3>1. j.space = Goal
      BY <2>1 DEF Current
    <3>2. /\ vectors' = [c \in DOMAIN vectors \cup {j.capsule} |->
                           IF c = j.capsule THEN [space |-> j.space, text |-> j.text, by |-> SpaceOf[owner]]
                           ELSE vectors[c]]
          /\ DOMAIN jobs' = DOMAIN jobs \ {j.capsule} /\ \A c \in DOMAIN jobs' : jobs'[c] = jobs[c]
      BY <2>1 DEF Complete
    <3> QED BY <1>2, <3>1, <3>2 DEF Stored
  <2>2. CASE ~(Current(j) /\ j.space = SpaceOf[owner])
    <3>1. jobs' = jobs /\ vectors' = vectors
      BY <2>2 DEF Complete
    <3> QED BY <1>2, <3>1 DEF Stored
  <2> QED BY <2>1, <2>2
<1> QED BY <1>1, <1>2, <1>3, SyncKept

\* An activation keeps the vectors of the target, which was the goal and is served now.
LEMMA SyncActivate ==
  ASSUME IInv, SInv, Activate PROVE SInv'
<1>1. UNCHANGED <<live, generation, sync, synced, crashes, errors, owner, jobs>>
      /\ at \notin Syncing /\ at' \notin Syncing
  BY DEF Activate, EndCycle, Syncing
<1>2. Goal' = Goal /\ \A c : Stored(c, Goal) => Stored(c, Goal)'
  <2>1. CASE TargetComplete
    <3>1. /\ active' = target /\ target' = NoSpace /\ target # NoSpace
          /\ DOMAIN vectors' = {c \in DOMAIN vectors : vectors[c].space = target}
          /\ \A c \in DOMAIN vectors' : vectors'[c] = vectors[c]
      BY <2>1 DEF Activate, TargetComplete
    <3>2. Goal = target /\ Goal' = target
      BY <3>1 DEF Goal
    <3> QED BY <1>1, <3>1, <3>2 DEF Stored
  <2>2. CASE ~TargetComplete
    BY <1>1, <2>2 DEF Activate, Goal, Stored
  <2> QED BY <2>1, <2>2
<1> QED BY <1>1, <1>2, SyncKept

\* The reads of the cycle's first half.
LEMMA SyncReads ==
  ASSUME IInv, SInv, BeginTransition \/ ReadGeneration \/ ListCapsules \/ ReadStatus PROVE SInv'
<1>0. at \notin {"standby"} /\ owner \in Process
  BY SyncTypes DEF BeginTransition, ReadGeneration, ListCapsules, ReadStatus
<1>1. CASE BeginTransition
  <2>1. /\ at = "begin" /\ at' = "generation"
        /\ UNCHANGED <<capsules, jobs, vectors, owner, seen, inputs, goal, synced, counts>>
        /\ \/ began' = FALSE /\ Goal' = Goal
           \/ owner \notin Misconfigured /\ Goal # SpaceOf[owner] /\ began' = TRUE
    BY <1>1 DEF BeginTransition, Goal
  <2>2. SyncedBehind'
    BY <2>1 DEF SInv, SyncedBehind, Syncing
  <2>3. CASE began' = FALSE /\ Goal' = Goal
    <3>1. SyncedUndisturbed'
      BY <2>1, <2>3 DEF SInv, SyncedUndisturbed, Mishaps
    <3>2. QueuedForGoal'
      BY <2>1, <2>3 DEF SInv, QueuedForGoal, Mishaps, Stored, Syncing
    <3> QED BY <2>2, <3>1, <3>2 DEF SInv
  <2>4. CASE owner \notin Misconfigured /\ Goal # SpaceOf[owner] /\ began' = TRUE
    <3>1. SyncedUndisturbed'
      BY <2>1, <2>4, SyncTypes DEF SInv, SyncedUndisturbed, Mishaps
    <3>2. QueuedForGoal'
      BY <2>1, <2>4 DEF QueuedForGoal, Syncing
    <3> QED BY <2>2, <3>1, <3>2 DEF SInv
  <2> QED BY <2>1, <2>3, <2>4
<1>2. CASE ReadGeneration
  <2>1. /\ at = "generation" /\ seen' = generation /\ at' \in {"list", "config"} /\ (began => at' = "list")
        /\ UNCHANGED <<capsules, state, jobs, vectors, owner, began, inputs, goal, synced, counts>>
    BY <1>2 DEF ReadGeneration
  <2>2. Goal' = Goal
    BY <2>1 DEF Goal
  <2>3. SyncedBehind'
    BY <2>1, SyncTypes DEF SInv, SyncedBehind, Syncing
  <2>4. SyncedUndisturbed'
    BY <2>1, <2>2 DEF SInv, SyncedUndisturbed, Mishaps, Syncing
  <2>5. QueuedForGoal'
    BY <2>1, <2>2 DEF SInv, QueuedForGoal, Mishaps, Stored, Syncing
  <2> QED BY <2>3, <2>4, <2>5 DEF SInv
<1>3. CASE ListCapsules \/ ReadStatus
  <2>1. /\ at \in {"list", "status"} /\ at' \in {"status", "prune"}
        /\ UNCHANGED <<capsules, state, jobs, vectors, owner, began, seen, synced, counts>>
    BY <1>3 DEF ListCapsules, ReadStatus
  <2>2. Goal' = Goal
    BY <2>1 DEF Goal
  <2>3. SyncedBehind'
    BY <1>3, <2>1, <2>2 DEF SInv, SyncedBehind, Syncing, ListCapsules, ReadStatus
  <2>4. SyncedUndisturbed'
    BY <2>1, <2>2 DEF SInv, SyncedUndisturbed, Mishaps, Syncing
  <2>5. QueuedForGoal'
    BY <2>1, <2>2 DEF SInv, QueuedForGoal, Mishaps, Stored, Syncing
  <2> QED BY <2>3, <2>4, <2>5 DEF SInv
<1> QED BY <1>1, <1>2, <1>3

\* Pruning takes jobs and vectors of capsules that are gone.
LEMMA SyncPrune ==
  ASSUME IInv, SInv, Prune PROVE SInv'
<1>1. /\ at = "prune" /\ at' = "queue" /\ UNCHANGED <<capsules, state, owner, sync, synced, counts>>
      /\ DOMAIN jobs' = DOMAIN jobs \cap live /\ \A c \in DOMAIN jobs' : jobs'[c] = jobs[c]
      /\ DOMAIN vectors' = DOMAIN vectors \cap live /\ \A c \in DOMAIN vectors' : vectors'[c] = vectors[c]
  BY DEF Prune
<1>2. Goal' = Goal /\ \A c \in live : \A s : Stored(c, s) => Stored(c, s)'
  BY <1>1 DEF Goal, Stored
<1>3. SyncedBehind'
  BY <1>1, <1>2 DEF SInv, SyncedBehind, Syncing
<1>4. SyncedUndisturbed'
  BY <1>1, <1>2 DEF SInv, SyncedUndisturbed, Mishaps, Syncing
<1>5. QueuedForGoal'
  BY <1>1, <1>2 DEF SInv, QueuedForGoal, Mishaps, Syncing
<1> QED BY <1>3, <1>4, <1>5 DEF SInv

\* What is queued for a space that the list covers is queued in it or embedded in it.
LEMMA QueuedStores ==
  ASSUME NEW s, NEW t, NEW c \in live, jobs' = Queued(live, s, t), vectors' = vectors
  PROVE  Stored(c, s)'
<1>1. CASE c \in DOMAIN vectors /\ vectors[c].space = s /\ vectors[c].text = t
  BY <1>1 DEF Stored
<1>2. CASE ~(c \in DOMAIN vectors /\ vectors[c].space = s /\ vectors[c].text = t)
  <2> DEFINE stale == {d \in live \cap DOMAIN jobs : jobs[d].space # s}
             kept == Without(jobs, stale)
             wanted == {d \in live : /\ ~(d \in DOMAIN vectors /\ vectors[d].space = s /\ vectors[d].text = t)
                                     /\ ~(d \in DOMAIN kept /\ kept[d].text = t)}
  <2>1. jobs' = [d \in DOMAIN kept \cup wanted |->
                   IF d \in wanted
                   THEN [space |-> s, text |-> t, attempts |-> 0, ready |-> TRUE, spent |-> 0]
                   ELSE kept[d]]
    BY DEF Queued
  <2>2. DOMAIN kept = DOMAIN jobs \ stale /\ \A d \in DOMAIN kept : kept[d] = jobs[d]
    OBVIOUS
  <2>3. c \in DOMAIN kept => kept[c].space = s
    BY <2>2
  <2>4. c \in wanted \/ c \in DOMAIN kept
    BY <1>2
  <2> HIDE DEF kept, wanted
  <2>5. c \in DOMAIN jobs' /\ jobs'[c].space = s
    BY <2>1, <2>3, <2>4
  <2> QED BY <2>5 DEF Stored
<1> QED BY <1>1, <1>2

\* Queueing stores what was seen, and every capsule seen has its job or its vector.
LEMMA SyncQueue ==
  ASSUME IInv, SInv, Queue PROVE SInv'
<1>1. /\ at = "queue" /\ at' = "config" /\ jobs' = Queued(inputs, goal, TextOf[owner])
      /\ synced' = [synced EXCEPT ![owner] = seen]
      /\ UNCHANGED <<capsules, state, vectors, owner, sync, counts>>
  BY DEF Queue
<1>2. owner \in Process /\ synced \in [Process -> Nat] /\ Misconfigured \subseteq Keyless
  BY <1>1, SyncTypes
<1>3. \A p \in Process : synced'[p] = IF p = owner THEN seen ELSE synced[p]
  BY <1>1, <1>2
<1>4. Goal' = Goal /\ goal = Goal
  BY <1>1 DEF Goal, SInv, SyncedBehind
<1>5. SyncedBehind'
  BY <1>1, <1>3 DEF SInv, SyncedBehind, Syncing
<1>6. SyncedUndisturbed'
  <2>1. owner \notin Misconfigured => Goal = SpaceOf[owner]
    BY <1>1 DEF IInv, WorkerOfGoal
  <2> QED BY <1>1, <1>2, <1>3, <1>4, <2>1 DEF SInv, SyncedUndisturbed, Mishaps, Syncing
<1>7. QueuedForGoal'
  <2> SUFFICES ASSUME NEW p \in Process \ Keyless, synced'[p] = generation, Goal = SpaceOf[p], NEW c \in live
               PROVE  Stored(c, SpaceOf[p])'
    BY <1>1, <1>4 DEF QueuedForGoal
  <2>1. seen = generation
    BY <1>1, <1>3, SyncTypes DEF SInv, SyncedBehind, Syncing
  <2>2. inputs = live
    BY <1>1, <2>1 DEF SInv, SyncedBehind
  <2>3. jobs' = Queued(live, SpaceOf[p], TextOf[owner]) /\ vectors' = vectors
    BY <1>1, <1>4, <2>2
  <2> QED BY <2>3, QueuedStores
<1> QED BY <1>5, <1>6, <1>7 DEF SInv

\* Configuring leaves the worker with nothing seen, or hands it to an owner with a key.
LEMMA SyncConfigure ==
  ASSUME IInv, SInv, Configure PROVE SInv'
<1>1. /\ at = "config" /\ UNCHANGED <<capsules, active, target, jobs, vectors, synced, counts>>
      /\ began' = FALSE /\ seen' = 0 /\ at' \in {"claim", "standby"}
      /\ owner \notin Keyless => owner' = owner
  BY DEF Configure, Release, FreshSync
<1>2. Goal' = Goal
  BY <1>1 DEF Goal
<1>3. SyncedBehind'
  BY <1>1, SyncTypes DEF SInv, SyncedBehind, Syncing
<1>4. SyncedUndisturbed'
  BY <1>1, <1>2 DEF SInv, SyncedUndisturbed, Mishaps, Syncing
<1>5. QueuedForGoal'
  BY <1>1, <1>2 DEF SInv, QueuedForGoal, Mishaps, Stored, Syncing
<1> QED BY <1>3, <1>4, <1>5 DEF SInv

\* A canonical write begins a generation nobody has synced.
LEMMA SyncWrite ==
  ASSUME IInv, SInv,
         OtherWrite \/ (\E c \in Capsule : Forget(c)) \/ (\E p \in Process, c \in Capsule : Append(p, c))
  PROVE  SInv'
<1>1. generation' = generation + 1 /\ UNCHANGED <<state, owner, at, sync, synced, counts>>
  BY DEF OtherWrite, Forget, Append
<1>2. Goal' = Goal
  BY <1>1 DEF Goal
<1>3. SyncedBehind'
  BY <1>1, <1>2, SyncTypes DEF SInv, SyncedBehind
<1>4. SyncedUndisturbed'
  BY <1>1, <1>2 DEF SInv, SyncedUndisturbed, Mishaps
<1>5. QueuedForGoal'
  BY <1>1, SyncTypes DEF SInv, SyncedBehind, QueuedForGoal
<1> QED BY <1>3, <1>4, <1>5 DEF SInv

\* The first cycle that ends early is the only one that synced, and had nothing to begin.
LEMMA SyncEarlyEnd ==
  ASSUME IInv, SInv, Crash \/ CycleError PROVE SInv'
<1>1. /\ Mishaps' = Mishaps + 1 /\ owner \in Process /\ jobs' = Lost
      /\ at' = "standby" /\ began' = FALSE /\ seen' = 0
      /\ UNCHANGED <<capsules, state, vectors>>
  BY SyncTypes DEF Crash, CycleError, Release, FreshSync, Mishaps
<1>2. synced' = synced \/ synced' = [synced EXCEPT ![owner] = 0]
  BY DEF Crash, CycleError
<1>3. \A p \in Process : synced'[p] = synced[p] \/ (p = owner /\ synced'[p] = 0)
  BY <1>1, <1>2, SyncTypes
<1>4. Goal' = Goal /\ \A c, s : Stored(c, s) => Stored(c, s)'
  <2>1. DOMAIN Lost = DOMAIN jobs /\ \A c \in DOMAIN jobs : Lost[c].space = jobs[c].space
    BY TypeParts DEF IInv, TypeTables, Lost, Rows
  <2> QED BY <1>1, <2>1 DEF Goal, Stored
<1>5. SyncedBehind'
  BY <1>1, <1>3, SyncTypes DEF SInv, SyncedBehind, Syncing
<1>6. SyncedUndisturbed'
  BY <1>1, SyncTypes DEF SyncedUndisturbed
<1>7. QueuedForGoal'
  <2> SUFFICES ASSUME Mishaps' <= 1, NEW p \in Process \ Keyless, synced'[p] = generation, Goal = SpaceOf[p],
                      NEW c \in live
               PROVE  Stored(c, SpaceOf[p])'
    BY <1>1, <1>4 DEF QueuedForGoal
  <2>1. Mishaps = 0
    BY <1>1, SyncTypes
  <2>2. synced[p] = generation /\ synced[p] # 0
    BY <1>3, SyncTypes
  <2>3. at \in Syncing => ~began
    BY <2>1, <2>2 DEF SInv, SyncedUndisturbed
  <2>4. Stored(c, SpaceOf[p])
    BY <2>1, <2>2, <2>3 DEF SInv, QueuedForGoal
  <2> QED BY <1>4, <2>4
<1> QED BY <1>5, <1>6, <1>7 DEF SInv

\* A step of anybody keeps both invariants.
LEMMA NextSInv == ASSUME IInv, SInv, [Next]_vars PROVE SInv'
<1>1. CASE Cycle
  BY <1>1, SyncQuiet, SyncOfRows, SyncComplete, SyncActivate, SyncReads, SyncPrune, SyncQueue,
     SyncConfigure DEF Cycle
<1>2. CASE \E class \in EndpointFailures \cup {"operator_action"} : Refusal(class)
  BY <1>2, SyncQuiet
<1>3. CASE \E p \in Process : Elect(p) \/ Ask(p) \/ Asked(p)
  BY <1>3, SyncQuiet
<1>4. CASE \E c \in Capsule : Due(c)
  BY <1>4, SyncOfRows
<1>5. CASE OtherWrite \/ (\E c \in Capsule : Forget(c)) \/ (\E p \in Process, c \in Capsule : Append(p, c))
  BY <1>5, SyncWrite
<1>6. CASE Crash \/ CycleError
  BY <1>6, SyncEarlyEnd
<1>7. CASE UNCHANGED vars
  <2>1. Goal' = Goal /\ \A c \in live : Stored(c, Goal) => Stored(c, Goal)'
    BY <1>7 DEF vars, Goal, Stored
  <2> QED BY <1>7, <2>1, SyncKept DEF vars
<1> QED BY <1>1, <1>2, <1>3, <1>4, <1>5, <1>6, <1>7 DEF Next

\* Nothing has been seen at first.
LEMMA InitSInv == Init => SInv
<1> SUFFICES ASSUME Init PROVE SInv
  OBVIOUS
<1>1. SyncedBehind
  BY DEF Init, SyncedBehind, Syncing
<1>2. SyncedUndisturbed /\ QueuedForGoal
  BY DEF Init, SyncedUndisturbed, QueuedForGoal
<1> QED BY <1>1, <1>2 DEF SInv

-----------------------------------------------------------------------------
\* The inductive invariant holds of every behaviour.
THEOREM InvariantHolds == Spec => []IInv
<1>1. IInv /\ CoveredKnown /\ [Next]_vars => IInv'
  BY NextIInv
<1> QED BY InitIInv, CoveredStays, <1>1, PTL DEF Spec

\* The variables keep their types, and attempts its CHECK: failures of the endpoint, which
\* decrement it, never take it below zero, and claims never take it past the cap.
THEOREM TypeCorrect == Spec => []TypeOK
<1>1. IInv => TypeOK
  BY DEF IInv
<1> QED BY InvariantHolds, <1>1, PTL

\* forget_capsule is final: no queueing, completion or failure that a worker began before it
\* brings a job or a vector of the capsule back.
THEOREM NothingKeptOfForgotten == Spec => []NothingOfForgotten
<1>1. IInv => NothingOfForgotten
  BY DEF IInv
<1> QED BY InvariantHolds, <1>1, PTL

\* A vector is filed under the space of the client that computed it.
THEOREM VectorsKeepTheirSpace == Spec => []VectorsOfTheirSpace
<1>1. IInv => VectorsOfTheirSpace
  BY DEF IInv
<1> QED BY InvariantHolds, <1>1, PTL

\* While recall serves a space, no capsule covered by its activation has lost its vector.
THEOREM WhatIsServedIsWhole == Spec => []ServingIsWhole
<1>1. IInv => ServingIsWhole
  BY DEF IInv
<1> QED BY InvariantHolds, <1>1, PTL

\* The reported phase never contradicts whether a space is being built.
THEOREM PhaseTellsTheTarget == Spec => []PhaseOfTarget
<1>1. IInv => PhaseOfTarget
  BY DEF IInv
<1> QED BY InvariantHolds, <1>1, PTL

\* The claims charged to a row are those in flight and those spent on it: the provider's own
\* failures, however many, neither strand a job nor refund a claim twice.
THEOREM ClaimsAreEarned == Spec => []AttemptsAreEarned
<1>1. IInv => AttemptsAreEarned
  <2> SUFFICES ASSUME IInv, NEW c \in DOMAIN jobs
               PROVE  jobs[c].attempts = jobs[c].spent + Cardinality({j \in left : j.capsule = c /\ Row(j)})
    BY DEF AttemptsAreEarned
  <2> DEFINE S == {j \in left : j.capsule = c /\ Row(j)}
  <2>1. jobs[c].attempts = jobs[c].spent + (IF InFlight(c) THEN 1 ELSE 0)
    BY DEF IInv, AttemptsInFlight
  <2>2. CASE ~InFlight(c)
    <3>1. S = {}
      BY <2>2 DEF InFlight
    <3> QED BY <2>1, <2>2, <3>1, FS_EmptySet
  <2>3. CASE InFlight(c)
    <3>1. PICK k \in left : k.capsule = c /\ Row(k)
      BY <2>3 DEF InFlight
    <3>2. S = {k}
      BY <3>1 DEF IInv, ClaimsOfOwner
    <3>3. Cardinality({k}) = 1
      BY FS_Singleton
    <3>4. Cardinality(S) = 1
      BY <3>2, <3>3, Zenon
    <3> HIDE DEF S
    <3>5. jobs[c].attempts = jobs[c].spent + Cardinality(S)
      BY <2>1, <2>3, <3>4
    <3> QED BY <3>5 DEF S
  <2> QED BY <2>2, <2>3
<1> QED BY InvariantHolds, <1>1, PTL

\* Text leaves the machine only for a capsule that lives and a space the store wants, of the
\* very client it goes to.
THEOREM OnlyWantedIsSent == Spec => SentOnlyWanted
<1>1. IInv /\ [Next]_vars =>
        [at # "answer" /\ at' = "answer" =>
           \A j \in request' : j.capsule \in live /\ j.space = Goal /\ j.space = SpaceOf[owner]]_vars
  <2> SUFFICES ASSUME IInv, [Next]_vars, at # "answer", at' = "answer", NEW j \in request'
               PROVE  j.capsule \in live /\ j.space = Goal /\ j.space = SpaceOf[owner]
    OBVIOUS
  <2>1. Submit
    BY DEF Next, Cycle, vars, BeginTransition, ReadGeneration, ListCapsules, ReadStatus, Prune, Queue,
           Configure, Release, Claimed, Submit, NotCurrent, GiveUp, Answer, Picked, Fail, Refused,
           SetLexicalOnly, Activate, EndCycle, Claim, Complete, Pick, Refuse, Refusal, Elect, Ask, Asked,
           Forget, Due, Append, OtherWrite, Crash, CycleError
  <2>2. j \in left /\ Current(j)
    BY <2>1 DEF Submit, IInv, TypeOK
  <2> QED BY <2>2 DEF Current, IInv, ClaimsOfOwner
<1> QED BY InvariantHolds, <1>1, PTL DEF Spec, SentOnlyWanted

\* A worker that claims in a generation it has synced has lost no capsule, though other servers
\* embed in other spaces and one cycle, its own or another's, ended anywhere (the cycle's sync).
THEOREM SyncedStaysQueued == Spec => []SyncedIsQueued
<1>1. IInv /\ SInv /\ [Next]_vars => SInv'
  BY NextSInv
<1>2. IInv /\ SInv => SyncedIsQueued
  <2> SUFFICES ASSUME IInv, SInv, Mishaps <= 1, at = "claim", synced[owner] = generation, NEW c \in live
               PROVE  Stored(c, SpaceOf[owner])
    BY DEF SyncedIsQueued
  <2>1. owner \in Process \ Keyless /\ Goal = SpaceOf[owner]
    BY SyncTypes DEF IInv, WorkerOfGoal
  <2> QED BY <2>1 DEF SInv, QueuedForGoal, Syncing
<1> QED BY InvariantHolds, InitSInv, <1>1, <1>2, PTL DEF Spec
=============================================================================
