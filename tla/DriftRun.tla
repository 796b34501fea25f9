------------------------------ MODULE DriftRun ------------------------------
(***************************************************************************)
(* Alignment ("drift") runs over one branch of one repository: the request *)
(* that starts or resumes a run, the registry that admits one run at a     *)
(* time, the background worker with its per-unit checkpoint, cancellation, *)
(* the ceiling on model calls, and restarts of the server                  *)
(* (server/internal/api/drift.go, pipeline.go and store/drift.go).         *)
(*                                                                         *)
(* Granularity.  The store is single-connection, so each statement is one  *)
(* step; a handler or the worker is interleaved between its statements     *)
(* wherever it keeps what it read.  A unit is a document or a source,      *)
(* numbered in path order.  A stage of the recipe asks the model once.     *)
(* persist(i) inside the loop rewrites the count already stored and is     *)
(* left out, as are the activity feed and the wording.  What a run writes  *)
(* elsewhere, findings and the report document, moves none of this state;  *)
(* that a unit's result was written is kept in settled.                    *)
(***************************************************************************)
EXTENDS Integers, FiniteSets, Sequences

CONSTANTS
    Unit,        \* possible units, numbered in path order
    Configured,  \* the default scope of the project (drift.paths)
    Version,     \* versions of the project's recipe document
    Stages,      \* number of stages of the recipe
    Lenient,     \* its per-item stages with on_error: skip, its annotations
    Ceiling,     \* ai.max_calls_per_run
    Request,     \* POST .../drift/run requests, numbered as they are sent
    NoRequest,   \* the registry has no entry for the branch
    MaxRuns,     \* bound on rows of drift_runs
    MaxCrashes   \* bound on restarts of the server

ASSUME ConstantsAssumption ==
    /\ Unit \subseteq Nat /\ IsFiniteSet(Unit)
    /\ Configured \subseteq Unit
    /\ Version # {}
    /\ Stages \in Nat \ {0}
    /\ Lenient \subseteq 1..Stages
    /\ Ceiling \in Nat
    /\ Request \subseteq Nat /\ NoRequest \notin Request
    /\ MaxRuns \in Nat /\ MaxCrashes \in Nat

VARIABLES
    runs,       \* [row of drift_runs]; last is the newest id
    last,
    claimed,    \* driftRegistry: the request whose run holds the branch
    cancelled,  \* the context of that run is cancelled
    job,        \* [request -> where it is, and its locals]
    worker,     \* the driftWorker goroutine
    settled,    \* <<run, position>> whose unit was checked, or failed
    crashes

reqVars == <<claimed, cancelled, job>>
vars == <<runs, last, claimed, cancelled, job, worker, settled,
          crashes>>

RunId  == 1..MaxRuns
Status == {"none", "running", "ok", "error", "cancelled", "capped",
           "interrupted"}

\* unitState: how many leading stages of the unit are done.
Checkpoint   == [unit : Unit \cup {0}, stages : 0..Stages]
NoCheckpoint == [unit |-> 0, stages |-> 0]

\* done: docs_done.  saved: stage_state_json.  from: resumed_from.
\* snap: the documents in the snapshot the run was started on.
Row == [status : Status, scope : Seq(Unit), done : Nat, recipe : Version,
        saved : Checkpoint, from : 0..MaxRuns, snap : SUBSET Unit]

JobSteps == {"new", "claim", "create", "done"}
Job == [pc : JobSteps, units : Seq(Unit), recipe : Version,
        saved : Checkpoint, from : 0..MaxRuns, snap : SUBSET Unit]

\* run: the worker's row.  at: units finished.  stage: stages of this unit
\* passed.  state: rc.state.  calls: calls granted (ai_calls also counts the
\* refused ones).  failed: docErrs is not empty.
WorkerSteps == {"idle", "unit", "stage", "clear", "progress", "finish",
                "release"}
Worker == [pc : WorkerSteps, run : 0..MaxRuns, at : Nat, stage : 0..Stages,
           state : Checkpoint, calls : 0..Ceiling, failed : BOOLEAN,
           outcome : {"ok", "cancelled", "capped"}]

TypeOK ==
    /\ runs \in [RunId -> Row]
    /\ last \in 0..MaxRuns
    /\ claimed \in Request \cup {NoRequest}
    /\ cancelled \in BOOLEAN
    /\ job \in [Request -> Job]
    /\ worker \in Worker
    /\ settled \subseteq RunId \X Nat
    /\ crashes \in 0..MaxCrashes

Idle      == [pc |-> "idle", run |-> 0, at |-> 0, stage |-> 0,
              state |-> NoCheckpoint, calls |-> 0, failed |-> FALSE,
              outcome |-> "ok"]
NoVersion == CHOOSE v \in Version : TRUE
NewJob    == [pc |-> "new", units |-> << >>, recipe |-> NoVersion,
              saved |-> NoCheckpoint, from |-> 0, snap |-> {}]
DoneJob   == [NewJob EXCEPT !.pc = "done"]
NoRow     == [status |-> "none", scope |-> << >>, done |-> 0,
              recipe |-> NoVersion, saved |-> NoCheckpoint, from |-> 0,
              snap |-> {}]

\* A project whose branch has never been audited.
Init ==
    /\ runs = [r \in RunId |-> NoRow]
    /\ last = 0
    /\ claimed = NoRequest /\ cancelled = FALSE
    /\ job = [q \in Request |-> NewJob]
    /\ worker = Idle
    /\ settled = {}
    /\ crashes = 0

-----------------------------------------------------------------------------
(* Helpers                                                                 *)

\* resolveDriftScope: the documents of S in path order.
Listings(S) == {s \in [1..Cardinality(S) -> S] :
                  /\ \A i, j \in DOMAIN s : i < j => s[i] < s[j]
                  /\ S = {s[i] : i \in DOMAIN s}}

\* DriftRun.Resumable.
Resumable(r) ==
    /\ runs[r].status \notin {"none", "running", "ok"}
    /\ runs[r].done < Len(runs[r].scope)

\* DriftRunResumedBy.
ResumedBy(r) == {s \in 1..last : runs[s].from = r}

\* priorScope[DocsDone:].
RestSkipsOne(r) ==                                            \* mutant
    {runs[r].scope[n] : n \in runs[r].done + 2 .. Len(runs[r].scope)}
Rest(r) ==
    {runs[r].scope[n] : n \in runs[r].done + 1 .. Len(runs[r].scope)}

\* driftRegistry.claim.
AlwaysFree == TRUE                                            \* mutant
RegistryFree == claimed = NoRequest

-----------------------------------------------------------------------------
(* postDriftRun                                                            *)

Sent(q) == job[q].pc = "new" /\ \A p \in Request : p < q => job[p].pc # "new"

\* A fresh run over the requested paths.  Documents come and go and the
\* recipe is edited at any time, so the snapshot holds any of them.
StartRun(q) ==
    /\ Sent(q)
    /\ \E snap, paths \in SUBSET Unit, v \in Version :
         \E units \in Listings(paths \cap snap) :
            /\ units # << >>
            /\ job' = [job EXCEPT ![q] =
                   [pc |-> "claim", units |-> units, recipe |-> v,
                    saved |-> NoCheckpoint, from |-> 0, snap |-> snap]]
    /\ UNCHANGED <<runs, last, claimed, cancelled, worker, settled,
                   crashes>>

\* Picking up run r: only what it did not finish and is still in scope.
ResumeRun(q) ==
    /\ Sent(q)
    /\ \E r \in 1..last, snap \in SUBSET Unit, v \in Version :
         /\ Resumable(r) /\ ResumedBy(r) = {}
         /\ \E units \in Listings(Rest(r) \cap Configured \cap snap) :
              /\ units # << >>
              /\ job' = [job EXCEPT ![q] =
                     [pc |-> "claim", units |-> units, recipe |-> v,
                      saved |-> runs[r].saved, from |-> r, snap |-> snap]]
    /\ UNCHANGED <<runs, last, claimed, cancelled, worker, settled,
                   crashes>>

\* driftRegistry.claim; 409 when another run holds the branch.
Claim(q) ==
    /\ job[q].pc = "claim" /\ last < MaxRuns
    /\ IF RegistryFree
       THEN /\ claimed' = q /\ cancelled' = FALSE
            /\ job' = [job EXCEPT ![q].pc = "create"]
       ELSE /\ job' = [job EXCEPT ![q] = DoneJob]
            /\ UNCHANGED <<claimed, cancelled>>
    /\ UNCHANGED <<runs, last, worker, settled, crashes>>

\* CreateDriftRun, then go driftWorker.
Create(q) ==
    /\ job[q].pc = "create"
    /\ LET j == job[q] IN
         /\ last' = last + 1
         /\ runs' = [runs EXCEPT ![last + 1] =
                [status |-> "running", scope |-> j.units, done |-> 0,
                 recipe |-> j.recipe, saved |-> j.saved, from |-> j.from,
                 snap |-> j.snap]]
         /\ worker' = [Idle EXCEPT !.pc = "unit", !.run = last + 1,
                                   !.state = j.saved]
    /\ job' = [job EXCEPT ![q] = DoneJob]
    /\ UNCHANGED <<claimed, cancelled, settled, crashes>>

CreateFailsHolding(q) ==                                      \* mutant
    /\ job[q].pc = "create"
    /\ job' = [job EXCEPT ![q] = DoneJob]
    /\ UNCHANGED <<runs, last, claimed, cancelled, worker, settled,
                   crashes>>

\* The store refuses the row: the claim is given back.
CreateFails(q) ==
    /\ job[q].pc = "create"
    /\ claimed' = NoRequest /\ cancelled' = FALSE
    /\ job' = [job EXCEPT ![q] = DoneJob]
    /\ UNCHANGED <<runs, last, worker, settled, crashes>>

\* postDriftCancel.
Cancel ==
    /\ claimed # NoRequest /\ ~cancelled
    /\ cancelled' = TRUE
    /\ UNCHANGED <<runs, last, claimed, job, worker, settled,
                   crashes>>

-----------------------------------------------------------------------------
(* driftWorker                                                             *)

Scope == runs[worker.run].scope
This  == Scope[worker.at + 1]
Key   == <<worker.run, worker.at + 1>>

\* ctx.Err() is looked at before a unit, not after the last one.
StoppedAnywhere == cancelled                                  \* mutant
StoppedEarly == cancelled /\ worker.at < Len(Scope)

\* The loop's head, and runUnit dropping the checkpoint of another unit.
NextUnit ==
    /\ worker.pc = "unit"
    /\ \/ /\ worker.at = Len(Scope)
          /\ worker' = [worker EXCEPT !.pc = "finish"]
       \/ /\ StoppedEarly
          /\ worker' = [worker EXCEPT !.pc = "finish", !.outcome = "cancelled"]
       \/ /\ worker.at < Len(Scope) /\ ~cancelled
          /\ worker' = [worker EXCEPT !.pc = "stage", !.stage = 0,
                !.state = IF @.unit = This THEN @
                                           ELSE [unit |-> This, stages |-> 0]]
    /\ UNCHANGED <<runs, last, claimed, cancelled, job, settled,
                   crashes>>

\* A stage is over: the checkpoint is saved, or dropped as too large.
StageDone(calls) ==
    LET cp == [unit |-> This, stages |-> worker.stage + 1] IN
    /\ worker' = [worker EXCEPT !.stage = @ + 1, !.state = cp, !.calls = calls]
    /\ \E saved \in {cp, NoCheckpoint} :
         runs' = [runs EXCEPT ![worker.run].saved = saved]

StageCancelled ==
    /\ worker.pc = "stage" /\ worker.stage < Stages /\ cancelled
    /\ worker' = [worker EXCEPT !.pc = "finish", !.outcome = "cancelled"]
    /\ UNCHANGED <<runs, last, claimed, cancelled, job, settled,
                   crashes>>

\* A stage the checkpoint already completed is rehydrated, not re-run.
StageRehydrated ==
    /\ worker.pc = "stage" /\ ~cancelled /\ worker.stage < worker.state.stages
    /\ worker' = [worker EXCEPT !.stage = @ + 1]
    /\ UNCHANGED <<runs, last, claimed, cancelled, job, settled,
                   crashes>>

\* The stage has to ask the model.
Asking == /\ worker.pc = "stage" /\ ~cancelled
          /\ worker.stage = worker.state.stages /\ worker.stage < Stages

\* spend: is there budget for one more call?
UnderCeiling == worker.calls < Ceiling

StageAnswered ==
    /\ Asking /\ UnderCeiling
    /\ StageDone(worker.calls + 1)
    /\ UNCHANGED <<last, claimed, cancelled, job, settled, crashes>>

\* The model fails a stage that does not skip errors: so does the unit.
StageFails ==
    /\ Asking /\ UnderCeiling /\ worker.stage + 1 \notin Lenient
    /\ worker' = [worker EXCEPT !.pc = "clear", !.calls = @ + 1,
                                  !.failed = TRUE]
    /\ settled' = settled \cup {Key}
    /\ UNCHANGED <<runs, last, claimed, cancelled, job, crashes>>

\* errCallCeiling: the run is capped, unless the stage skips errors.
StageRefused ==
    /\ Asking /\ ~UnderCeiling
    /\ IF worker.stage + 1 \in Lenient
       THEN StageDone(worker.calls)
       ELSE /\ worker' = [worker EXCEPT !.pc = "finish", !.outcome = "capped"]
            /\ UNCHANGED runs
    /\ UNCHANGED <<last, claimed, cancelled, job, settled, crashes>>

\* The unit's findings are upserted, or its inventory is saved.
StoreUnit ==
    /\ worker.pc = "stage" /\ worker.stage = Stages
    /\ settled' = settled \cup {Key}
    /\ \E failed \in {worker.failed, TRUE} :   \* SaveFile may refuse
         worker' = [worker EXCEPT !.pc = "clear", !.failed = failed]
    /\ UNCHANGED <<runs, last, claimed, cancelled, job, crashes>>

ClearCheckpoint ==
    /\ worker.pc = "clear"
    /\ runs' = [runs EXCEPT ![worker.run].saved = NoCheckpoint]
    /\ worker' = [worker EXCEPT !.pc = "progress", !.state = NoCheckpoint]
    /\ UNCHANGED <<last, claimed, cancelled, job, settled, crashes>>

ProgressWhole ==                                              \* mutant
    /\ worker.pc = "progress"
    /\ runs' = [runs EXCEPT ![worker.run].done = Len(Scope)]
    /\ worker' = [worker EXCEPT !.pc = "unit", !.at = @ + 1]
    /\ UNCHANGED <<last, claimed, cancelled, job, settled, crashes>>

\* UpdateDriftRunProgress with done = i + 1.
Progress ==
    /\ worker.pc = "progress"
    /\ runs' = [runs EXCEPT ![worker.run].done = worker.at + 1]
    /\ worker' = [worker EXCEPT !.pc = "unit", !.at = @ + 1]
    /\ UNCHANGED <<last, claimed, cancelled, job, settled, crashes>>

\* FinishDriftRun; the registry still holds the branch.
Finish ==
    /\ worker.pc = "finish"
    /\ runs' = [runs EXCEPT ![worker.run].status =
          IF worker.failed /\ worker.outcome = "ok" THEN "error"
                                                    ELSE worker.outcome]
    /\ worker' = [worker EXCEPT !.pc = "release"]
    /\ UNCHANGED <<last, claimed, cancelled, job, settled, crashes>>

\* The deferred driftRegistry.release and cancel.
Release ==
    /\ worker.pc = "release"
    /\ claimed' = NoRequest /\ cancelled' = FALSE
    /\ worker' = Idle
    /\ UNCHANGED <<runs, last, job, settled, crashes>>

-----------------------------------------------------------------------------
(* The rest of the world                                                   *)

\* The process dies with its goroutines and registry; at the next boot
\* MarkInterruptedDriftRuns closes the rows they left.
MarkInterrupted ==
    [r \in RunId |-> IF runs[r].status = "running"
                     THEN [runs[r] EXCEPT !.status = "interrupted"]
                     ELSE runs[r]]

Crash ==
    /\ crashes < MaxCrashes
    /\ crashes' = crashes + 1
    /\ runs' = MarkInterrupted
    /\ claimed' = NoRequest /\ cancelled' = FALSE
    /\ job' = [q \in Request |-> IF job[q].pc = "new" THEN job[q] ELSE DoneJob]
    /\ worker' = Idle
    /\ UNCHANGED <<last, settled>>

-----------------------------------------------------------------------------
WorkerStep == \/ NextUnit \/ StageCancelled \/ StageRehydrated
              \/ StageAnswered \/ StageFails \/ StageRefused \/ StoreUnit
              \/ ClearCheckpoint \/ Progress \/ Finish \/ Release

Next == \/ \E q \in Request : \/ StartRun(q) \/ ResumeRun(q) \/ Claim(q)
                              \/ Create(q) \/ CreateFails(q)
        \/ Cancel
        \/ WorkerStep
        \/ Crash

Spec == Init /\ [][Next]_vars

\* The worker's goroutine and a request's handler keep running, and a model
\* call ends: the client gives each HTTP exchange five minutes.
Fairness == /\ WF_vars(WorkerStep)
            /\ \A q \in Request : WF_vars(Create(q) \/ CreateFails(q))
FairSpec == Spec /\ Fairness

-----------------------------------------------------------------------------
(* Properties                                                              *)

\* The engine implements the ledger of runs: whatever requests race, and
\* wherever a restart or a cancellation falls, one run at a time is running,
\* it is the newest, and a row closes once, with the status its progress
\* justifies.
Ledger == INSTANCE RunLedger WITH
    MaxTotal <- Cardinality(Unit),
    row <- [r \in RunId |-> [status |-> runs[r].status,
                             total  |-> Len(runs[r].scope),
                             done   |-> runs[r].done]]
ImplementsLedger == Ledger!Spec

\* "DocsDone is exactly how far it got": every unit it counts was checked or
\* failed, and at most the next one was touched without being counted, so a
\* resume repeats one unit at most and skips none.
DoneIsExact ==
    \A r \in RunId : \A n \in 1..Len(runs[r].scope) :
        /\ n <= runs[r].done => <<r, n>> \in settled
        /\ <<r, n>> \in settled => n <= runs[r].done + 1

\* A unit of run r that r never settled is among units, unless its document
\* was not in snap or is no longer in the default scope.
Continues(units, snap, r) ==
    \A n \in 1..Len(runs[r].scope) :
        \/ <<r, n>> \in settled
        \/ \E m \in 1..Len(units) : units[m] = runs[r].scope[n]
        \/ runs[r].scope[n] \notin snap \cap Configured

\* Between a run and the run that picked it up nothing is lost: a unit the
\* first never settled is in the second's scope, unless its document was gone
\* or no longer in scope when the second started.
ResumeLosesNothing ==
    \A s \in 1..last : runs[s].from # 0 =>
        Continues(runs[s].scope, runs[s].snap, runs[s].from)

\* A run that is admitted gives the branch back, through every error,
\* cancellation and restart.
RunsEnd == claimed # NoRequest ~> claimed = NoRequest

-----------------------------------------------------------------------------
(* The inductive invariant behind the theorems of DriftRunProofs.          *)

\* The rows up to last are used, and a row is closed as complete only when it
\* is; the running one is the worker's.
RowsOK ==
    \A r \in RunId :
        /\ r > last => runs[r] = NoRow
        /\ r <= last => /\ runs[r].status # "none"
                        /\ Len(runs[r].scope) \in 1..Cardinality(Unit)
                        /\ runs[r].done <= Len(runs[r].scope)
                        /\ runs[r].from < r
        /\ runs[r].status = "running" =>
              worker.run = r /\ worker.pc \notin {"idle", "release"}

\* The worker has the newest row, which runs until it is finished, and its
\* count of finished units is the row's.
WorkerOK ==
    /\ worker.pc # "idle" => /\ last \in RunId /\ worker.run = last
                             /\ claimed # NoRequest
    /\ worker.pc \notin {"idle", "release"} =>
         /\ runs[last].status = "running"
         /\ runs[last].done = worker.at
    /\ worker.pc \in {"stage", "clear", "progress"} =>
         worker.at < Len(runs[last].scope)
    /\ worker.pc \in {"clear", "progress"} => Key \in settled
    /\ worker.pc = "finish" =>
         (worker.outcome = "ok" <=> worker.at = Len(runs[last].scope))
    /\ worker.pc \in {"unit", "stage", "clear", "progress"} =>
         worker.outcome = "ok"

\* A request about to create its row has the registry to itself.
ClaimOK ==
    \A q \in Request :
        job[q].pc = "create" =>
            claimed = q /\ worker.pc = "idle" /\ last < MaxRuns

\* What a request is about to run continues the run it picked up.
JobsOK ==
    \A q \in Request :
        job[q].pc \in {"claim", "create"} =>
            /\ Len(job[q].units) \in 1..Cardinality(Unit)
            /\ job[q].from <= last
            /\ job[q].from # 0 =>
                 Continues(job[q].units, job[q].snap, job[q].from)

\* Only units of existing rows are settled.
SettledOK == settled \subseteq (1..last) \X Nat

\* The inductive invariant: types, rows, worker, requests, and what they promise.
IInv ==
    /\ TypeOK
    /\ RowsOK
    /\ WorkerOK
    /\ ClaimOK
    /\ JobsOK
    /\ SettledOK
    /\ DoneIsExact
    /\ ResumeLosesNothing
=============================================================================
