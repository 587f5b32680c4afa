---------------------------- MODULE CloseControl ----------------------------
(***************************************************************************)
(* Who closes a run of nspawn: run_control.  A run that a live driver      *)
(* drives is closed by that driver, on request; the askers poll for the    *)
(* outcome it records.  Once the driver is gone or does not beat, an asker *)
(* takes the request and closes the run itself.                            *)
(*                                                                         *)
(* src/packages/nspawn/nspawn/registry.py, supervisor.py, driver.py.       *)
(*                                                                         *)
(* One run.  What a local close does to it is module WriterCustody's; here *)
(* it closes the run or is refused.                                        *)
(***************************************************************************)
EXTENDS Naturals

CONSTANTS Asker, Driver, None,
          MaxCloses, \* bound on the calls of close
          Stalls,    \* a close of the driver may outlast its heartbeat
          Mortal     \* the processes that may crash

ASSUME RolesApart ==
  /\ Driver \notin Asker /\ None \notin Asker \cup {Driver}
  /\ Mortal \subseteq Asker \cup {Driver}
  /\ MaxCloses \in Nat /\ Stalls \in BOOLEAN

VARIABLES request,  \* the row of run_control
          present,  \* the driver's row of instances is there
          beats,    \* and its heartbeat is fresh
          stage,    \* where each process is
          awaiting, \* the askers that wait for an outcome
          calls,    \* the calls of close so far
          new,      \* the askers that had called when the outcome was recorded
          late,     \* the driver serves after its row went
          excused   \* the processes that close on a lapsed claim or without a heartbeat

driver == <<present, beats>>
ghosts == <<new, late, excused>>
closeVars == <<request, driver, stage, awaiting, calls, ghosts>>

Process == Asker \cup {Driver}
Unasked == [pending |-> FALSE, by |-> None, lapsed |-> FALSE, outcome |-> None]

CloseInit ==
  /\ request = Unasked /\ present = TRUE /\ beats = TRUE
  /\ stage = [p \in Process |-> "idle"] /\ awaiting = {}
  /\ calls = 0 /\ new = {} /\ late = FALSE /\ excused = {}

-----------------------------------------------------------------------------
(* The row of run_control.                                                 *)

Open == request.pending /\ request.outcome = None

Fresh(p) == IF p = Driver THEN present /\ beats ELSE stage[p] # "dead"

\* Seeded fault: a request joins an answered one.
JoinsAnswered == IF request.pending THEN request ELSE [Unasked EXCEPT !.pending = TRUE]

\* request_close: a new request, unless one is pending.
Requested == IF Open THEN request ELSE [Unasked EXCEPT !.pending = TRUE]

\* claim_close: free, past its lease, or of a process that does not beat.
Claimable(p) == Open /\ ~(request.by # None /\ ~request.lapsed /\ Fresh(request.by))

Claimed(p) == [request EXCEPT !.by = p, !.lapsed = FALSE]

\* Seeded fault: the outcome of a claim that another took over is written.
RecordsOnce(p) == request.outcome = None

\* record_close_outcome: by its claimant, and once.
Records(p) == request.by = p /\ request.outcome = None

-----------------------------------------------------------------------------
(* A close and its record: the same steps in the driver and in an asker.   *)

At(p, step) == stage' = [stage EXCEPT ![p] = step]

\* close_local, with the request it won or without one.
CloseRun(p) ==
  /\ stage[p] \in {"won", "alone"}
  /\ At(p, IF stage[p] = "won" THEN "closed" ELSE "told")
  /\ UNCHANGED <<request, driver, awaiting, calls, ghosts>>

\* The outcome or the refusal, whichever the close ended with.
Record(p) ==
  /\ stage[p] = "closed"
  /\ IF Records(p) THEN request' = [request EXCEPT !.outcome = p] /\ new' = {a \in Asker : stage[a] # "idle"}
     ELSE UNCHANGED <<request, new>>
  /\ At(p, IF p # Driver THEN "told" ELSE IF present THEN "idle" ELSE "exited")
  /\ excused' = excused \ {p}
  /\ UNCHANGED <<driver, awaiting, calls, late>>

-----------------------------------------------------------------------------
(* An asker.                                                               *)

Call(a) ==
  /\ stage[a] = "idle" /\ calls < MaxCloses /\ calls' = calls + 1
  /\ At(a, "look") /\ new' = new \ {a}
  /\ UNCHANGED <<request, driver, awaiting, late, excused>>

\* The outcome first, once it waits for one.
Look(a) ==
  /\ stage[a] = "look"
  /\ At(a, IF a \in awaiting /\ request.outcome # None THEN "told" ELSE "custody")
  /\ UNCHANGED <<request, driver, awaiting, calls, ghosts>>

\* Seeded fault: only a driver's row is looked at, not its heartbeat.
DriverOwnsByRow == present

\* run_custody: a driver that beats closes its run itself.
DriverOwns == present /\ beats

AskCustody(a) ==
  /\ stage[a] = "custody" /\ At(a, IF DriverOwns THEN "ask" ELSE "claim")
  /\ UNCHANGED <<request, driver, awaiting, calls, ghosts>>

\* The request, once; then a second of sleep.
Ask(a) ==
  /\ stage[a] = "ask" /\ At(a, "look") /\ awaiting' = awaiting \cup {a}
  /\ request' = IF a \in awaiting THEN request ELSE Requested
  /\ UNCHANGED <<driver, calls, ghosts>>

\* "won" and "none" close here, "held" waits for the other's outcome.
Claim(a) ==
  /\ stage[a] = "claim"
  /\ \/ Claimable(a) /\ request' = Claimed(a) /\ At(a, "won") /\ UNCHANGED awaiting
     \/ ~Claimable(a) /\ Open /\ At(a, "look") /\ awaiting' = awaiting \cup {a} /\ UNCHANGED request
     \/ ~Open /\ At(a, "alone") /\ UNCHANGED <<request, awaiting>>
  /\ UNCHANGED <<driver, calls, ghosts>>

Return(a) == At(a, "idle") /\ awaiting' = awaiting \ {a} /\ UNCHANGED <<request, driver, calls, ghosts>>

Told(a) == stage[a] = "told" /\ Return(a)

\* CLOSE_WAIT_S: the asker gives up, the request stands.
StopWaiting(a) == stage[a] = "look" /\ a \in awaiting /\ Return(a)

-----------------------------------------------------------------------------
(* The driver: its watcher, its exit.                                      *)

\* serve_close_request, each second and once more after the row is gone (finish).
Serve ==
  /\ stage[Driver] \in {"idle", "finish"}
  /\ \/ Claimable(Driver) /\ request' = Claimed(Driver) /\ At(Driver, "won")
     \/ ~Claimable(Driver) /\ stage[Driver] = "finish" /\ At(Driver, "exited") /\ UNCHANGED request
  /\ late' = ~present
  /\ excused' = IF present /\ ~beats THEN excused \cup {Driver} ELSE excused
  /\ UNCHANGED <<driver, awaiting, calls, new>>

\* Seeded fault: the row goes while the watcher still serves.
MayShutDown == stage[Driver] \in {"idle", "won", "closed"}

\* _CloseWatcher.stop waits out the close it serves; only then the row goes.
WatcherIdle == stage[Driver] = "idle"

ShutDown ==
  /\ WatcherIdle /\ present /\ present' = FALSE /\ beats' = FALSE
  /\ At(Driver, IF stage[Driver] = "idle" THEN "finish" ELSE stage[Driver])
  /\ UNCHANGED <<request, awaiting, calls, ghosts>>

ProcessDies(p) ==
  /\ p \in Mortal /\ stage[p] \notin {"dead", "exited"} /\ At(p, "dead")
  /\ excused' = excused \ {p} /\ awaiting' = awaiting \ {p}
  /\ UNCHANGED <<request, driver, calls, new, late>>

\* The heartbeat of a driver that died, or whose lock a close holds, gets old.
BeatStops ==
  /\ present /\ beats /\ (stage[Driver] = "dead" \/ (Stalls /\ stage[Driver] = "won"))
  /\ beats' = FALSE /\ excused' = IF stage[Driver] = "won" THEN excused \cup {Driver} ELSE excused
  /\ UNCHANGED <<request, present, stage, awaiting, calls, new, late>>

Beat ==
  /\ present /\ ~beats /\ stage[Driver] \notin {"dead", "won"} /\ beats' = TRUE
  /\ UNCHANGED <<request, present, stage, awaiting, calls, ghosts>>

\* CLOSE_LEASE_S.
LeaseLapses ==
  /\ Stalls /\ Open /\ request.by # None /\ ~request.lapsed
  /\ request' = [request EXCEPT !.lapsed = TRUE]
  /\ excused' = IF stage[request.by] = "dead" THEN excused ELSE excused \cup {request.by}
  /\ UNCHANGED <<driver, stage, awaiting, calls, new, late>>

-----------------------------------------------------------------------------
AskerStep(a) ==
  Look(a) \/ AskCustody(a) \/ Ask(a) \/ Claim(a) \/ Told(a) \/ CloseRun(a) \/ Record(a)

DriverStep == Serve \/ CloseRun(Driver) \/ Record(Driver)

CloseNext ==
  \/ \E a \in Asker : Call(a) \/ AskerStep(a) \/ StopWaiting(a)
  \/ DriverStep \/ ShutDown \/ BeatStops \/ Beat \/ LeaseLapses
  \/ \E p \in Process : ProcessDies(p)

CloseSpec == CloseInit /\ [][CloseNext]_closeVars

\* Every process that lives goes on; the heartbeat of a dead driver gets old.
CloseFairness == (\A a \in Asker : WF_closeVars(AskerStep(a))) /\ WF_closeVars(DriverStep) /\ WF_closeVars(BeatStops)
CloseFairSpec == CloseSpec /\ CloseFairness

-----------------------------------------------------------------------------
(* Type invariant.                                                         *)
CloseTypeOK ==
  /\ present \in BOOLEAN /\ beats \in BOOLEAN /\ late \in BOOLEAN
  /\ request \in [pending : BOOLEAN, by : Process \cup {None}, lapsed : BOOLEAN, outcome : Process \cup {None}]
  /\ request.outcome \in {None, request.by}
  /\ stage \in [Process -> {"idle", "look", "custody", "ask", "claim", "won", "alone", "closed", "told",
                         "finish", "exited", "dead"}]
  /\ awaiting \subseteq Asker /\ new \subseteq Asker /\ excused \subseteq Process
  /\ calls \in 0..MaxCloses

Serving(p) == stage[p] \in {"won", "closed"}

(* Safety: "exactly one side closes and the other reads its record": two   *)
(* processes serve the request at once only when the claim of one lapsed   *)
(* or its heartbeat stopped.                                               *)
OneServer ==
  \A p, q \in Process : Serving(p) /\ Serving(q) /\ p # q => {p, q} \cap excused # {}

(* Safety: the same, but for what the driver takes after its row is gone:  *)
(* nobody takes over a close it began while it was registered.             *)
OneServerWhileRegistered ==
  \A p, q \in Process :
    Serving(p) /\ Serving(q) /\ p # q => {p, q} \cap excused # {} \/ (Driver \in {p, q} /\ late)

(* Safety: what a process recorded of its close is what it was asked: the  *)
(* outcome that an asker waiting for one reads was recorded after it       *)
(* called, and is never what an earlier close left in the row.             *)
AnswerIsNew == \A a \in awaiting : request.outcome # None => a \in new

(* Liveness: a call of close is answered, though the driver crashes, exits *)
(* or stalls, and though other askers crash with the request in hand.      *)
EveryCallIsAnswered == \A a \in Asker : stage[a] = "look" ~> stage[a] \in {"idle", "dead"}

-----------------------------------------------------------------------------
(* Why it does: an inductive invariant.                                    *)

\* An asker that waits for an outcome is in a call.
WaitsInCall == \A a \in awaiting : stage[a] \notin {"idle", "dead"}

\* A process that closes, and is neither excused nor a driver without its row, holds the open
\* request under a claim that nobody may take over.
ServerHolds ==
  \A p \in Process :
    Serving(p) /\ p \notin excused /\ ~(p = Driver /\ late) =>
      Open /\ request.by = p /\ ~request.lapsed /\ Fresh(p)

CloseIInv == CloseTypeOK /\ WaitsInCall /\ ServerHolds /\ AnswerIsNew
=============================================================================
