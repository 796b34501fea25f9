--------------------------- MODULE DriftRunProofs ---------------------------
(***************************************************************************)
(* Safety of alignment runs (DriftRun), for every set of units, requests   *)
(* and recipe versions and every bound: IInv is inductive; TypeOK,         *)
(* DoneIsExact and ResumeLosesNothing follow from it, and with it every    *)
(* step of DriftRun is a step or a stutter of RunLedger.                   *)
(*                                                                         *)
(* The first section has what the actions share; then there is one lemma   *)
(* per action, with one step per conjunct of IInv.                         *)
(***************************************************************************)
EXTENDS DriftRun, SequenceTheorems, FiniteSetTheorems, TLAPS

USE ConstantsAssumption

-----------------------------------------------------------------------------
(* Shared lemmas                                                           *)

LEMMA UnitCardinality == Cardinality(Unit) \in Nat
  BY FS_CardinalityType

\* A listing of S has the units of S, and no more of them than there are.
LEMMA ListingFacts ==
    ASSUME NEW S \in SUBSET Unit, NEW s \in Listings(S)
    PROVE  /\ s \in Seq(Unit)
           /\ Len(s) \in 0..Cardinality(Unit)
           /\ s # << >> => Len(s) \in 1..Cardinality(Unit)
           /\ \A x \in S : \E m \in 1..Len(s) : s[m] = x
  <1>1. IsFiniteSet(S) /\ Cardinality(S) <= Cardinality(Unit)
    BY FS_Subset
  <1>2. Cardinality(S) \in Nat
    BY <1>1, FS_CardinalityType
  <1>3. s \in [1..Cardinality(S) -> S] /\ S = {s[i] : i \in DOMAIN s}
    BY DEF Listings
  <1>4. s \in Seq(S)
    BY <1>2, <1>3
  <1>5. s \in Seq(Unit)
    BY <1>4, SeqMonotonic
  <1>6. Len(s) = Cardinality(S)
    BY <1>2, <1>3, <1>4, LenProperties
  <1>7. Len(s) \in 0..Cardinality(Unit)
    BY <1>1, <1>2, <1>6, UnitCardinality
  <1>8. s # << >> => Len(s) # 0
    BY <1>5, EmptySeq
  <1>9. \A x \in S : \E m \in 1..Len(s) : s[m] = x
    BY <1>3, <1>6
  <1> QED
    BY <1>5, <1>7, <1>8, <1>9, UnitCardinality

LEMMA ConstantTypes ==
    /\ NoCheckpoint \in Checkpoint
    /\ NoVersion \in Version
    /\ NoRow \in Row
    /\ NewJob \in Job /\ DoneJob \in Job /\ DoneJob.pc = "done"
    /\ Idle \in Worker
  <1>1. NoCheckpoint \in Checkpoint
    BY DEF NoCheckpoint, Checkpoint
  <1>2. NoVersion \in Version
    BY DEF NoVersion
  <1>3. << >> \in Seq(Unit)
    BY EmptySeq
  <1>4. NoRow \in Row
    BY <1>1, <1>2, <1>3 DEF NoRow, Row, Status
  <1>5. NewJob \in Job
    BY <1>1, <1>2, <1>3 DEF NewJob, Job, JobSteps
  <1>6. DoneJob \in Job /\ DoneJob.pc = "done"
    BY <1>5 DEF DoneJob, NewJob, Job, JobSteps
  <1>7. Idle \in Worker
    BY <1>1 DEF Idle, Worker, WorkerSteps
  <1> QED
    BY <1>1, <1>2, <1>4, <1>5, <1>6, <1>7

\* Writing one field of a row leaves the others, and the other rows, alone.
LEMMA SetSaved ==
    ASSUME TypeOK, NEW r \in RunId, NEW cp \in Checkpoint,
           runs' = [runs EXCEPT ![r].saved = cp]
    PROVE  /\ runs' \in [RunId -> Row]
           /\ \A s \in RunId : /\ runs'[s].scope = runs[s].scope
                               /\ runs'[s].done = runs[s].done
                               /\ runs'[s].from = runs[s].from
                               /\ runs'[s].snap = runs[s].snap
                               /\ runs'[s].status = runs[s].status
           /\ \A s \in RunId : s # r => runs'[s] = runs[s]
  BY DEF TypeOK, Row

LEMMA SetDone ==
    ASSUME TypeOK, NEW r \in RunId, NEW n \in Nat,
           runs' = [runs EXCEPT ![r].done = n]
    PROVE  /\ runs' \in [RunId -> Row]
           /\ \A s \in RunId : /\ runs'[s].scope = runs[s].scope
                               /\ runs'[s].from = runs[s].from
                               /\ runs'[s].snap = runs[s].snap
                               /\ runs'[s].status = runs[s].status
           /\ \A s \in RunId : s # r => runs'[s] = runs[s]
           /\ runs'[r].done = n
  BY DEF TypeOK, Row

LEMMA SetStatus ==
    ASSUME TypeOK, NEW r \in RunId, NEW st \in Status,
           runs' = [runs EXCEPT ![r].status = st]
    PROVE  /\ runs' \in [RunId -> Row]
           /\ \A s \in RunId : /\ runs'[s].scope = runs[s].scope
                               /\ runs'[s].done = runs[s].done
                               /\ runs'[s].from = runs[s].from
                               /\ runs'[s].snap = runs[s].snap
           /\ \A s \in RunId : s # r => runs'[s] = runs[s]
           /\ runs'[r].status = st
  BY DEF TypeOK, Row

\* No row and no request gets another scope: what continued still does.
LEMMA StillContinues ==
    ASSUME IInv, last' = last, settled \subseteq settled',
           \A r \in RunId : /\ runs'[r].scope = runs[r].scope
                            /\ runs'[r].from = runs[r].from
                            /\ runs'[r].snap = runs[r].snap,
           \A q \in Request :
               job'[q].pc \in {"claim", "create"} =>
                   /\ job[q].pc \in {"claim", "create"}
                   /\ job'[q].units = job[q].units
                   /\ job'[q].snap = job[q].snap
                   /\ job'[q].from = job[q].from
    PROVE  JobsOK' /\ ResumeLosesNothing'
  <1>1. ASSUME NEW q \in Request, job'[q].pc \in {"claim", "create"}
        PROVE  /\ Len(job'[q].units) \in 1..Cardinality(Unit)
               /\ job'[q].from <= last'
               /\ job'[q].from # 0 =>
                     Continues(job[q].units, job[q].snap, job[q].from)'
    <2>1. /\ Len(job[q].units) \in 1..Cardinality(Unit)
          /\ job[q].from <= last
          /\ job[q].from # 0 =>
               Continues(job[q].units, job[q].snap, job[q].from)
      BY <1>1 DEF IInv, JobsOK
    <2>2. job[q].from \in 0..MaxRuns
      BY DEF IInv, TypeOK, Job
    <2>3. job[q].from # 0 => job[q].from \in RunId
      BY <2>2 DEF RunId
    <2>4. job'[q].units = job[q].units /\ job'[q].from = job[q].from
          /\ job'[q].snap = job[q].snap
      BY <1>1
    <2>5. ASSUME job[q].from # 0
          PROVE  Continues(job[q].units, job[q].snap, job[q].from)'
      <3>1. runs'[job[q].from].scope = runs[job[q].from].scope
        BY <2>3, <2>5
      <3>2. Continues(job[q].units, job[q].snap, job[q].from)
        BY <2>1, <2>5
      <3> QED
        BY <2>4, <3>1, <3>2 DEF Continues
    <2> QED
      BY <2>1, <2>4, <2>5
  <1>2. JobsOK'
    BY <1>1 DEF JobsOK
  <1>3. ASSUME NEW s \in 1..last', runs'[s].from # 0
        PROVE  Continues(runs[s].scope, runs[s].snap, runs[s].from)'
    <2>1. s \in RunId
      BY DEF IInv, TypeOK, RunId
    <2>2. runs[s].from \in RunId
      <3>1. runs[s].from # 0
        BY <1>3, <2>1
      <3>2. runs[s].from \in 0..MaxRuns
        BY <2>1 DEF IInv, TypeOK, Row
      <3> QED
        BY <3>1, <3>2 DEF RunId
    <2>3. Continues(runs[s].scope, runs[s].snap, runs[s].from)
      BY <1>3, <2>1 DEF IInv, ResumeLosesNothing
    <2> QED
      BY <2>1, <2>2, <2>3 DEF Continues
  <1>4. ResumeLosesNothing'
    BY <1>3 DEF ResumeLosesNothing
  <1> QED
    BY <1>2, <1>4

-----------------------------------------------------------------------------
(* The initial states                                                      *)

LEMMA InitIInv == Init => IInv
  <1> SUFFICES ASSUME Init PROVE IInv
    OBVIOUS
  <1>1. TypeOK
    <2>1. runs \in [RunId -> Row] /\ job \in [Request -> Job]
          /\ worker \in Worker
      BY ConstantTypes DEF Init
    <2>2. last \in 0..MaxRuns /\ crashes \in 0..MaxCrashes
      BY DEF Init
    <2> QED
      BY <2>1, <2>2 DEF Init, TypeOK
  <1>2. \A r \in RunId : runs[r] = NoRow /\ r > last /\ ~(r <= last)
    BY DEF Init, RunId
  <1>3. RowsOK
    <2>1. NoRow.status # "running"
      BY DEF NoRow
    <2> QED
      BY <1>2, <2>1 DEF RowsOK
  <1>4. WorkerOK /\ ClaimOK /\ JobsOK
    BY DEF Init, WorkerOK, ClaimOK, JobsOK, Idle, NewJob
  <1>5. SettledOK
    BY DEF Init, SettledOK
  <1>6. DoneIsExact
    BY <1>2 DEF Init, DoneIsExact, NoRow
  <1>7. ResumeLosesNothing
    BY DEF Init, ResumeLosesNothing
  <1> QED
    BY <1>1, <1>3, <1>4, <1>5, <1>6, <1>7 DEF IInv

-----------------------------------------------------------------------------
(* The worker                                                              *)

LEMMA AtWork ==
    ASSUME IInv, worker.pc \notin {"idle", "release"}
    PROVE  /\ last \in RunId /\ worker.run = last /\ claimed # NoRequest
           /\ runs[last] \in Row /\ runs[last].status = "running"
           /\ runs[last].done = worker.at /\ worker.at \in Nat
           /\ Scope = runs[last].scope /\ Scope \in Seq(Unit)
           /\ Len(Scope) \in Nat /\ worker.at <= Len(Scope)
           /\ Key = <<last, worker.at + 1>> /\ Key \in RunId \X Nat
  <1>1. last \in RunId /\ worker.run = last /\ claimed # NoRequest
    BY DEF IInv, WorkerOK
  <1>2. runs[last].status = "running" /\ runs[last].done = worker.at
    BY DEF IInv, WorkerOK
  <1>3. runs[last] \in Row /\ worker.at \in Nat
    BY <1>1 DEF IInv, TypeOK, Worker
  <1>4. Scope = runs[last].scope /\ Key = <<last, worker.at + 1>>
    BY <1>1 DEF Scope, Key
  <1>5. Scope \in Seq(Unit)
    BY <1>3, <1>4 DEF Row
  <1>6. Len(Scope) \in Nat
    BY <1>5, LenProperties
  <1>7. last <= last
    BY <1>1 DEF RunId
  <1>8. worker.at <= Len(Scope)
    BY <1>1, <1>2, <1>4, <1>7 DEF IInv, RowsOK
  <1> QED
    BY <1>1, <1>2, <1>3, <1>4, <1>5, <1>6, <1>8

LEMMA ThisUnit ==
    ASSUME IInv, worker.pc \notin {"idle", "release"}, worker.at < Len(Scope)
    PROVE  This \in Unit /\ [unit |-> This, stages |-> 0] \in Checkpoint
  <1>1. worker.at + 1 \in 1..Len(Scope)
    BY AtWork
  <1>2. This \in Unit
    BY <1>1, AtWork, ElementOfSeq DEF This
  <1> QED
    BY <1>2 DEF Checkpoint

\* A step within a unit: the worker and the checkpoint may change, and the
\* unit may be settled.
LEMMA WithinUnit ==
    ASSUME IInv, worker.pc \notin {"idle", "release"},
           UNCHANGED <<last, claimed, cancelled, job, crashes>>,
           worker' \in Worker, worker'.run = worker.run,
           worker'.pc \notin {"idle", "release"},
           runs' \in [RunId -> Row],
           \A s \in RunId : /\ runs'[s].scope = runs[s].scope
                            /\ runs'[s].done = runs[s].done
                            /\ runs'[s].from = runs[s].from
                            /\ runs'[s].snap = runs[s].snap
                            /\ runs'[s].status = runs[s].status,
           \A s \in RunId : s # last => runs'[s] = runs[s],
           settled' = settled \/ settled' = settled \cup {Key},
           WorkerOK'
    PROVE  IInv'
  <1>1. TypeOK'
    BY AtWork DEF IInv, TypeOK
  <1>2. RowsOK'
    <2>1. ASSUME NEW r \in RunId
          PROVE  /\ r > last' => runs'[r] = NoRow
                 /\ r <= last' => /\ runs'[r].status # "none"
                                  /\ Len(runs'[r].scope) \in 1..Cardinality(Unit)
                                  /\ runs'[r].done <= Len(runs'[r].scope)
                                  /\ runs'[r].from < r
                 /\ runs'[r].status = "running" =>
                      worker'.run = r /\ worker'.pc \notin {"idle", "release"}
      <3>1. r > last => r # last
        BY <2>1, AtWork DEF RunId
      <3> QED
        BY <3>1 DEF IInv, RowsOK
    <2> QED
      BY <2>1 DEF RowsOK
  <1>3. ClaimOK'
    BY DEF IInv, ClaimOK
  <1>4. JobsOK' /\ ResumeLosesNothing'
    BY StillContinues
  <1>5. SettledOK'
    <2>1. last \in 1..last
      BY AtWork DEF RunId
    <2> QED
      BY <2>1, AtWork DEF IInv, SettledOK
  <1>6. DoneIsExact'
    <2>1. ASSUME NEW r \in RunId, NEW n \in 1..Len(runs'[r].scope)
          PROVE  /\ n <= runs'[r].done => <<r, n>> \in settled'
                 /\ <<r, n>> \in settled' => n <= runs'[r].done + 1
      <3>1. n \in 1..Len(runs[r].scope) /\ runs'[r].done = runs[r].done
        OBVIOUS
      <3>2. /\ n <= runs[r].done => <<r, n>> \in settled
            /\ <<r, n>> \in settled => n <= runs[r].done + 1
        BY <3>1 DEF IInv, DoneIsExact
      <3>3. <<r, n>> = Key => n <= runs[r].done + 1
        BY AtWork
      <3> QED
        BY <3>1, <3>2, <3>3
    <2> QED
      BY <2>1 DEF DoneIsExact
  <1> QED
    BY <1>1, <1>2, <1>3, <1>4, <1>5, <1>6 DEF IInv

LEMMA NextUnitKeeps == ASSUME IInv, NextUnit PROVE IInv'
  <1>1. worker.pc = "unit" /\ worker.outcome = "ok"
    BY DEF NextUnit, IInv, WorkerOK
  <1>2. UNCHANGED <<runs, last, claimed, cancelled, job, settled,
                    crashes>>
    BY DEF NextUnit
  <1>3. worker \in Worker
    BY DEF IInv, TypeOK
  <1>4. CASE /\ worker.at = Len(Scope)
             /\ worker' = [worker EXCEPT !.pc = "finish"]
    <2>1. /\ worker' \in Worker /\ worker'.pc = "finish"
          /\ worker'.run = worker.run /\ worker'.at = worker.at
          /\ worker'.outcome = "ok"
      BY <1>1, <1>3, <1>4 DEF Worker, WorkerSteps
    <2>2. WorkerOK'
      BY <1>1, <1>2, <1>4, <2>1, AtWork DEF WorkerOK
    <2> QED
      BY <1>1, <1>2, <2>1, <2>2, WithinUnit DEF IInv, TypeOK
  <1>5. CASE /\ StoppedEarly
             /\ worker' = [worker EXCEPT !.pc = "finish",
                                         !.outcome = "cancelled"]
    <2>1. /\ worker' \in Worker /\ worker'.pc = "finish"
          /\ worker'.run = worker.run /\ worker'.at = worker.at
          /\ worker'.outcome = "cancelled"
      BY <1>3, <1>5 DEF Worker, WorkerSteps
    <2>2. worker.at # Len(Scope)
      BY <1>1, <1>5, AtWork DEF StoppedEarly
    <2>3. WorkerOK'
      BY <1>1, <1>2, <2>1, <2>2, AtWork DEF WorkerOK
    <2> QED
      BY <1>1, <1>2, <2>1, <2>3, WithinUnit DEF IInv, TypeOK
  <1>6. CASE /\ worker.at < Len(Scope)
             /\ worker' = [worker EXCEPT !.pc = "stage", !.stage = 0,
                   !.state = IF @.unit = This THEN @
                             ELSE [unit |-> This, stages |-> 0]]
    <2>1. [unit |-> This, stages |-> 0] \in Checkpoint
      BY <1>1, <1>6, ThisUnit
    <2>2. /\ worker' \in Worker /\ worker'.pc = "stage"
          /\ worker'.run = worker.run /\ worker'.at = worker.at
          /\ worker'.outcome = "ok"
      <3> DEFINE cp == IF worker.state.unit = This THEN worker.state
                       ELSE [unit |-> This, stages |-> 0]
      <3>1. cp \in Checkpoint
        BY <1>3, <2>1 DEF Worker
      <3>2. worker' = [worker EXCEPT !.pc = "stage", !.stage = 0, !.state = cp]
        BY <1>6
      <3> HIDE DEF cp
      <3>3. 0 \in 0..Stages
        OBVIOUS
      <3>4. worker' \in Worker
        BY <1>3, <3>1, <3>2, <3>3 DEF Worker, WorkerSteps
      <3> QED
        BY <1>1, <1>3, <3>2, <3>4 DEF Worker
    <2>3. WorkerOK'
      BY <1>1, <1>2, <1>6, <2>2, AtWork DEF WorkerOK
    <2> QED
      BY <1>1, <1>2, <2>2, <2>3, WithinUnit DEF IInv, TypeOK
  <1> QED
    BY <1>4, <1>5, <1>6 DEF NextUnit

LEMMA StageCancelledKeeps == ASSUME IInv, StageCancelled PROVE IInv'
  <1>1. worker.pc = "stage" /\ worker.at < Len(Scope)
    BY AtWork DEF StageCancelled, IInv, WorkerOK
  <1>2. UNCHANGED <<runs, last, claimed, cancelled, job, settled,
                    crashes>>
    BY DEF StageCancelled
  <1>3. /\ worker' \in Worker /\ worker'.pc = "finish"
        /\ worker'.run = worker.run /\ worker'.at = worker.at
        /\ worker'.outcome = "cancelled"
    BY DEF StageCancelled, IInv, TypeOK, Worker, WorkerSteps
  <1>4. worker.at # Len(Scope)
    BY <1>1, AtWork
  <1>5. WorkerOK'
    BY <1>1, <1>2, <1>3, <1>4, AtWork DEF WorkerOK
  <1> QED
    BY <1>1, <1>2, <1>3, <1>5, WithinUnit DEF IInv, TypeOK

LEMMA StageRehydratedKeeps == ASSUME IInv, StageRehydrated PROVE IInv'
  <1>1. /\ worker.pc = "stage" /\ worker.at < Len(Scope)
        /\ worker.outcome = "ok"
    BY AtWork DEF StageRehydrated, IInv, WorkerOK
  <1>2. UNCHANGED <<runs, last, claimed, cancelled, job, settled,
                    crashes>>
    BY DEF StageRehydrated
  <1>3. worker.stage + 1 \in 0..Stages
    BY DEF StageRehydrated, IInv, TypeOK, Worker, Checkpoint
  <1>4. /\ worker' \in Worker /\ worker'.pc = "stage"
        /\ worker'.run = worker.run /\ worker'.at = worker.at
        /\ worker'.outcome = "ok"
    BY <1>1, <1>3 DEF StageRehydrated, IInv, TypeOK, Worker
  <1>5. WorkerOK'
    BY <1>1, <1>2, <1>4, AtWork DEF WorkerOK
  <1> QED
    BY <1>1, <1>2, <1>4, <1>5, WithinUnit DEF IInv, TypeOK

\* A stage is over: only the checkpoint changes, in the worker and its row.
LEMMA StageDoneKeeps ==
    ASSUME IInv, NEW calls \in 0..Ceiling, StageDone(calls), Asking,
           UNCHANGED <<last, claimed, cancelled, job, settled, crashes>>
    PROVE  IInv'
  <1> DEFINE cp == [unit |-> This, stages |-> worker.stage + 1]
  <1>1. /\ worker.pc = "stage" /\ worker.at < Len(Scope)
        /\ worker.outcome = "ok" /\ worker \in Worker
    BY AtWork DEF Asking, IInv, WorkerOK, TypeOK
  <1>2. worker.stage + 1 \in 0..Stages
    BY <1>1 DEF Asking, Worker
  <1>3. cp \in Checkpoint
    BY <1>1, <1>2, ThisUnit DEF Checkpoint
  <1>4. /\ worker' = [worker EXCEPT !.stage = worker.stage + 1, !.state = cp,
                                    !.calls = calls]
        /\ \E saved \in {cp, NoCheckpoint} :
             runs' = [runs EXCEPT ![worker.run].saved = saved]
    BY DEF StageDone
  <1> HIDE DEF cp
  <1>5. /\ worker' \in Worker /\ worker'.pc = "stage"
        /\ worker'.run = worker.run /\ worker'.at = worker.at
        /\ worker'.outcome = "ok"
    BY <1>1, <1>2, <1>3, <1>4 DEF Worker
  <1>6. PICK saved \in Checkpoint :
             runs' = [runs EXCEPT ![last].saved = saved]
    BY <1>1, <1>3, <1>4, AtWork, ConstantTypes
  <1>7. TypeOK /\ last \in RunId
    BY <1>1, AtWork DEF IInv
  <1>8. /\ runs' \in [RunId -> Row]
        /\ \A s \in RunId : /\ runs'[s].scope = runs[s].scope
                            /\ runs'[s].done = runs[s].done
                            /\ runs'[s].from = runs[s].from
                            /\ runs'[s].snap = runs[s].snap
                            /\ runs'[s].status = runs[s].status
        /\ \A s \in RunId : s # last => runs'[s] = runs[s]
    BY <1>6, <1>7, SetSaved
  <1>9. WorkerOK'
    BY <1>1, <1>5, <1>7, <1>8, AtWork DEF WorkerOK
  <1> QED
    BY <1>1, <1>5, <1>8, <1>9, WithinUnit

LEMMA StageAnsweredKeeps == ASSUME IInv, StageAnswered PROVE IInv'
  <1>1. worker.calls + 1 \in 0..Ceiling
    BY DEF StageAnswered, UnderCeiling, IInv, TypeOK, Worker
  <1> QED
    BY <1>1, StageDoneKeeps DEF StageAnswered

LEMMA StageRefusedKeeps == ASSUME IInv, StageRefused PROVE IInv'
  <1>1. /\ worker.pc = "stage" /\ worker.at < Len(Scope)
        /\ worker \in Worker /\ worker.calls \in 0..Ceiling
    BY AtWork DEF StageRefused, Asking, IInv, WorkerOK, TypeOK, Worker
  <1>3. CASE worker.stage + 1 \in Lenient
    BY <1>1, <1>3, StageDoneKeeps DEF StageRefused
  <1>4. CASE worker.stage + 1 \notin Lenient
    <2>1. UNCHANGED <<runs, last, claimed, cancelled, job, settled, crashes>>
      BY <1>4 DEF StageRefused
    <2>2. /\ worker' \in Worker /\ worker'.pc = "finish"
          /\ worker'.run = worker.run /\ worker'.at = worker.at
          /\ worker'.outcome = "capped"
      BY <1>1, <1>4 DEF StageRefused, Worker, WorkerSteps
    <2>3. worker.at # Len(Scope)
      BY <1>1, AtWork
    <2>4. WorkerOK'
      BY <1>1, <2>1, <2>2, <2>3, AtWork DEF WorkerOK
    <2> QED
      BY <1>1, <2>1, <2>2, <2>4, WithinUnit DEF IInv, TypeOK
  <1> QED
    BY <1>3, <1>4

\* The unit is settled: nothing of it is left but to be counted.
LEMMA UnitSettled ==
    ASSUME IInv, worker.pc = "stage", NEW c \in 0..Ceiling, NEW f \in BOOLEAN,
           worker' = [worker EXCEPT !.pc = "clear", !.calls = c, !.failed = f],
           settled' = settled \cup {Key},
           UNCHANGED <<runs, last, claimed, cancelled, job, crashes>>
    PROVE  IInv'
  <1>1. worker.at < Len(Scope) /\ worker.outcome = "ok"
    BY AtWork DEF IInv, WorkerOK
  <1>2. /\ worker' \in Worker /\ worker'.pc = "clear"
        /\ worker'.run = worker.run /\ worker'.at = worker.at
        /\ worker'.outcome = "ok"
    BY <1>1 DEF IInv, TypeOK, Worker, WorkerSteps
  <1>3. Key' = Key /\ Key' \in settled'
    BY <1>2 DEF Key
  <1>4. WorkerOK'
    BY <1>1, <1>2, <1>3, AtWork DEF WorkerOK
  <1> QED
    BY <1>2, <1>4, WithinUnit DEF IInv, TypeOK

LEMMA StageFailsKeeps == ASSUME IInv, StageFails PROVE IInv'
  <1>1. worker.calls + 1 \in 0..Ceiling
    BY DEF StageFails, UnderCeiling, IInv, TypeOK, Worker
  <1>2. worker' = [worker EXCEPT !.pc = "clear", !.calls = worker.calls + 1,
                                 !.failed = TRUE]
    BY DEF StageFails
  <1> QED
    BY <1>1, <1>2, UnitSettled DEF StageFails, Asking

LEMMA StoreUnitKeeps == ASSUME IInv, StoreUnit PROVE IInv'
  <1>1. worker \in Worker /\ worker.calls \in 0..Ceiling
        /\ worker.failed \in BOOLEAN
    BY DEF IInv, TypeOK, Worker
  <1>2. PICK f \in {worker.failed, TRUE} :
             worker' = [worker EXCEPT !.pc = "clear", !.failed = f]
    BY DEF StoreUnit
  <1>3. worker' = [worker EXCEPT !.pc = "clear", !.calls = worker.calls,
                                 !.failed = f]
    BY <1>1, <1>2 DEF Worker
  <1>4. f \in BOOLEAN
    BY <1>1
  <1> QED
    BY <1>1, <1>3, <1>4, UnitSettled DEF StoreUnit

LEMMA ClearCheckpointKeeps == ASSUME IInv, ClearCheckpoint PROVE IInv'
  <1>1. /\ worker.pc = "clear" /\ worker.at < Len(Scope)
        /\ worker.outcome = "ok" /\ Key \in settled
    BY AtWork DEF ClearCheckpoint, IInv, WorkerOK
  <1>2. runs' = [runs EXCEPT ![last].saved = NoCheckpoint]
    BY <1>1, AtWork DEF ClearCheckpoint
  <1>3. TypeOK /\ last \in RunId /\ NoCheckpoint \in Checkpoint
    BY <1>1, AtWork, ConstantTypes DEF IInv
  <1>4. /\ runs' \in [RunId -> Row]
        /\ \A s \in RunId : /\ runs'[s].scope = runs[s].scope
                            /\ runs'[s].done = runs[s].done
                            /\ runs'[s].from = runs[s].from
                            /\ runs'[s].snap = runs[s].snap
                            /\ runs'[s].status = runs[s].status
        /\ \A s \in RunId : s # last => runs'[s] = runs[s]
    BY <1>2, <1>3, SetSaved
  <1>5. /\ worker' \in Worker /\ worker'.pc = "progress"
        /\ worker'.run = worker.run /\ worker'.at = worker.at
        /\ worker'.outcome = "ok"
    BY <1>1, <1>3 DEF ClearCheckpoint, TypeOK, Worker, WorkerSteps
  <1>6. Key' = Key /\ settled' = settled
    BY <1>5 DEF ClearCheckpoint, Key
  <1>7. WorkerOK'
    BY <1>1, <1>3, <1>4, <1>5, <1>6, AtWork DEF WorkerOK, ClearCheckpoint
  <1> QED
    BY <1>1, <1>4, <1>5, <1>6, <1>7, WithinUnit
       DEF ClearCheckpoint, IInv, TypeOK

LEMMA ProgressKeeps == ASSUME IInv, Progress PROVE IInv'
  <1>1. /\ worker.pc = "progress" /\ worker.at < Len(Scope)
        /\ worker.outcome = "ok" /\ Key \in settled
    BY AtWork DEF Progress, IInv, WorkerOK
  <1>2. runs' = [runs EXCEPT ![last].done = worker.at + 1]
    BY <1>1, AtWork DEF Progress
  <1>3. TypeOK /\ last \in RunId /\ worker.at + 1 \in Nat
    BY <1>1, AtWork DEF IInv
  <1>4. /\ runs' \in [RunId -> Row]
        /\ \A s \in RunId : /\ runs'[s].scope = runs[s].scope
                            /\ runs'[s].from = runs[s].from
                            /\ runs'[s].snap = runs[s].snap
                            /\ runs'[s].status = runs[s].status
        /\ \A s \in RunId : s # last => runs'[s] = runs[s]
        /\ runs'[last].done = worker.at + 1
    BY <1>2, <1>3, SetDone
  <1>5. /\ worker' \in Worker /\ worker'.pc = "unit"
        /\ worker'.run = worker.run /\ worker'.at = worker.at + 1
        /\ worker'.outcome = "ok"
    BY <1>1, <1>3 DEF Progress, TypeOK, Worker, WorkerSteps
  <1>6. UNCHANGED <<last, claimed, cancelled, job, settled, crashes>>
    BY DEF Progress
  <1>7. TypeOK'
    BY <1>4, <1>5, <1>6 DEF IInv, TypeOK
  <1>8. RowsOK'
    <2>1. ASSUME NEW r \in RunId
          PROVE  /\ r > last' => runs'[r] = NoRow
                 /\ r <= last' => /\ runs'[r].status # "none"
                                  /\ Len(runs'[r].scope) \in 1..Cardinality(Unit)
                                  /\ runs'[r].done <= Len(runs'[r].scope)
                                  /\ runs'[r].from < r
                 /\ runs'[r].status = "running" =>
                      worker'.run = r /\ worker'.pc \notin {"idle", "release"}
      <3>1. CASE r = last
        <4>1. /\ runs[r].status # "none" /\ Len(runs[r].scope) \in 1..Cardinality(Unit)
              /\ runs[r].from < r /\ r <= last /\ ~(r > last)
          BY <1>3, <3>1 DEF IInv, RowsOK, RunId
        <4>2. worker.at + 1 <= Len(runs[r].scope) /\ worker.run = r
          BY <1>1, <1>3, <3>1, AtWork
        <4> QED
          BY <1>4, <1>5, <1>6, <3>1, <4>1, <4>2
      <3>2. CASE r # last
        BY <1>1, <1>4, <1>5, <1>6, <3>2 DEF IInv, RowsOK
      <3> QED
        BY <3>1, <3>2
    <2> QED
      BY <2>1 DEF RowsOK
  <1>9. WorkerOK'
    BY <1>1, <1>4, <1>5, <1>6, AtWork DEF WorkerOK
  <1>10. ClaimOK'
    BY <1>1, <1>6 DEF IInv, ClaimOK
  <1>11. JobsOK' /\ ResumeLosesNothing'
    BY <1>4, <1>6, StillContinues
  <1>12. SettledOK'
    BY <1>6 DEF IInv, SettledOK
  <1>13. DoneIsExact'
    <2>1. ASSUME NEW r \in RunId, NEW n \in 1..Len(runs'[r].scope)
          PROVE  /\ n <= runs'[r].done => <<r, n>> \in settled'
                 /\ <<r, n>> \in settled' => n <= runs'[r].done + 1
      <3>1. n \in 1..Len(runs[r].scope)
        BY <1>4
      <3>2. /\ n <= runs[r].done => <<r, n>> \in settled
            /\ <<r, n>> \in settled => n <= runs[r].done + 1
        BY <3>1 DEF IInv, DoneIsExact
      <3>3. CASE r = last
        <4>1. /\ runs[last].done = worker.at /\ worker.at \in Nat
              /\ Key = <<last, worker.at + 1>>
          BY <1>1, AtWork
        <4>2. n \in Nat /\ runs'[r].done = worker.at + 1
          BY <1>4, <3>1, <3>3
        <4>3. n <= worker.at + 1 => n <= worker.at \/ n = worker.at + 1
          BY <4>1, <4>2
        <4>4. n <= worker.at + 1 => <<r, n>> \in settled
          BY <1>1, <3>2, <3>3, <4>1, <4>3
        <4>5. <<r, n>> \in settled => n <= worker.at + 1 + 1
          BY <3>2, <3>3, <4>1, <4>2
        <4> QED
          BY <1>6, <4>2, <4>4, <4>5
      <3>4. CASE r # last
        BY <1>4, <1>6, <3>2, <3>4
      <3> QED
        BY <3>3, <3>4
    <2> QED
      BY <2>1 DEF DoneIsExact
  <1> QED
    BY <1>7, <1>8, <1>9, <1>10, <1>11, <1>12, <1>13 DEF IInv

\* The status a finished run gets says whether it is complete.
LEMMA FinishStatus ==
    ASSUME IInv, worker.pc = "finish"
    PROVE  \E st \in {"ok", "error", "cancelled", "capped"} :
              /\ st = IF worker.failed /\ worker.outcome = "ok"
                      THEN "error" ELSE worker.outcome
              /\ st \in {"ok", "error"} => worker.at = Len(Scope)
              /\ st \in {"cancelled", "capped"} => worker.at < Len(Scope)
  <1>1. worker.outcome = "ok" <=> worker.at = Len(Scope)
    BY AtWork DEF IInv, WorkerOK
  <1>2. worker.outcome \in {"ok", "cancelled", "capped"}
    BY DEF IInv, TypeOK, Worker
  <1>3. worker.at \in Nat /\ Len(Scope) \in Nat /\ worker.at <= Len(Scope)
    BY AtWork
  <1>4. CASE worker.outcome = "ok"
    <2>1. CASE worker.failed
      BY <1>1, <1>4, <2>1
    <2>2. CASE ~worker.failed
      BY <1>1, <1>4, <2>2
    <2> QED
      BY <2>1, <2>2
  <1>5. CASE worker.outcome # "ok"
    <2>1. worker.at < Len(Scope)
      BY <1>1, <1>3, <1>5
    <2> QED
      BY <1>2, <1>5, <2>1
  <1> QED
    BY <1>4, <1>5

LEMMA FinishKeeps == ASSUME IInv, Finish PROVE IInv'
  <1>1. worker.pc = "finish" /\ TypeOK
    BY DEF Finish, IInv
  <1>2. PICK st \in {"ok", "error", "cancelled", "capped"} :
             runs' = [runs EXCEPT ![last].status = st]
    BY <1>1, FinishStatus, AtWork DEF Finish
  <1>3. last \in RunId /\ st \in Status
    BY <1>1, AtWork DEF Status
  <1>4. /\ runs' \in [RunId -> Row]
        /\ \A s \in RunId : /\ runs'[s].scope = runs[s].scope
                            /\ runs'[s].done = runs[s].done
                            /\ runs'[s].from = runs[s].from
                            /\ runs'[s].snap = runs[s].snap
        /\ \A s \in RunId : s # last => runs'[s] = runs[s]
        /\ runs'[last].status = st
    BY <1>1, <1>2, <1>3, SetStatus
  <1>5. /\ worker' \in Worker /\ worker'.pc = "release"
        /\ worker'.run = worker.run
    BY <1>1 DEF Finish, TypeOK, Worker, WorkerSteps
  <1>6. UNCHANGED <<last, claimed, cancelled, job, settled, crashes>>
    BY DEF Finish
  <1>7. TypeOK'
    BY <1>1, <1>4, <1>5, <1>6 DEF TypeOK
  <1>8. RowsOK'
    <2>1. ASSUME NEW r \in RunId
          PROVE  /\ r > last' => runs'[r] = NoRow
                 /\ r <= last' => /\ runs'[r].status # "none"
                                  /\ Len(runs'[r].scope) \in 1..Cardinality(Unit)
                                  /\ runs'[r].done <= Len(runs'[r].scope)
                                  /\ runs'[r].from < r
                 /\ runs'[r].status # "running"
      <3>1. CASE r = last
        BY <1>2, <1>4, <1>6, <3>1, AtWork DEF IInv, RowsOK, RunId
      <3>2. CASE r # last
        <4>1. worker.run = last
          BY <1>1, AtWork
        <4> QED
          BY <1>4, <1>6, <3>2, <4>1 DEF IInv, RowsOK
      <3> QED
        BY <3>1, <3>2
    <2> QED
      BY <2>1 DEF RowsOK
  <1>9. WorkerOK'
    BY <1>1, <1>3, <1>5, <1>6, AtWork DEF WorkerOK
  <1>10. ClaimOK'
    BY <1>1, <1>6 DEF IInv, ClaimOK
  <1>11. JobsOK' /\ ResumeLosesNothing'
    BY <1>4, <1>6, StillContinues
  <1>12. SettledOK'
    BY <1>6 DEF IInv, SettledOK
  <1>13. DoneIsExact'
    BY <1>4, <1>6 DEF IInv, DoneIsExact
  <1> QED
    BY <1>7, <1>8, <1>9, <1>10, <1>11, <1>12, <1>13 DEF IInv

\* With its worker idle or about to be, no row runs.
LEMMA NothingRuns ==
    ASSUME IInv, worker.pc \in {"idle", "release"}
    PROVE  \A r \in RunId : runs[r].status # "running"
  BY DEF IInv, RowsOK

LEMMA ReleaseKeeps == ASSUME IInv, Release PROVE IInv'
  <1>1. worker.pc = "release" /\ worker' = Idle /\ claimed' = NoRequest
    BY DEF Release
  <1>2. UNCHANGED <<runs, last, job, settled, crashes>>
    BY DEF Release
  <1>3. TypeOK'
    BY <1>1, <1>2, ConstantTypes DEF Release, IInv, TypeOK
  <1>4. RowsOK'
    BY <1>1, <1>2, NothingRuns DEF IInv, RowsOK
  <1>5. WorkerOK'
    BY <1>1 DEF WorkerOK, Idle
  <1>6. ClaimOK'
    BY <1>1, <1>2 DEF IInv, ClaimOK
  <1>7. JobsOK' /\ ResumeLosesNothing'
    BY <1>2, StillContinues
  <1>8. SettledOK' /\ DoneIsExact'
    BY <1>2 DEF IInv, SettledOK, DoneIsExact
  <1> QED
    BY <1>3, <1>4, <1>5, <1>6, <1>7, <1>8 DEF IInv

-----------------------------------------------------------------------------
(* The requests                                                            *)

\* A step of a request that writes no row and does not touch the worker.
LEMMA RequestOnly ==
    ASSUME IInv, UNCHANGED <<runs, last, worker, settled, crashes>>,
           claimed' \in Request \cup {NoRequest}, cancelled' \in BOOLEAN,
           job' \in [Request -> Job],
           worker.pc # "idle" => claimed' # NoRequest,
           ClaimOK', JobsOK'
    PROVE  IInv'
  <1>1. TypeOK'
    BY DEF IInv, TypeOK
  <1>2. RowsOK' /\ SettledOK' /\ DoneIsExact'
    BY DEF IInv, RowsOK, SettledOK, DoneIsExact
  <1>3. WorkerOK'
    BY DEF IInv, WorkerOK, Key
  <1>4. ResumeLosesNothing'
    BY DEF IInv, ResumeLosesNothing, Continues
  <1> QED
    BY <1>1, <1>2, <1>3, <1>4 DEF IInv

\* A request has worked out what it will run.
LEMMA RequestReady ==
    ASSUME IInv, NEW q \in Request, NEW j \in Job,
           job' = [job EXCEPT ![q] = j],
           j.pc = "claim", Len(j.units) \in 1..Cardinality(Unit),
           j.from <= last,
           j.from # 0 => Continues(j.units, j.snap, j.from),
           UNCHANGED <<runs, last, claimed, cancelled, worker, settled,
                       crashes>>
    PROVE  IInv'
  <1>1. job' \in [Request -> Job] /\ job'[q] = j
        /\ \A p \in Request : p # q => job'[p] = job[p]
    BY DEF IInv, TypeOK
  <1>2. ClaimOK'
    BY <1>1 DEF IInv, ClaimOK
  <1>3. JobsOK'
    <2>1. ASSUME NEW p \in Request, job'[p].pc \in {"claim", "create"}
          PROVE  /\ Len(job'[p].units) \in 1..Cardinality(Unit)
                 /\ job'[p].from <= last
                 /\ job'[p].from # 0 =>
                      Continues(job'[p].units, job'[p].snap, job'[p].from)
      <3>1. CASE p = q
        BY <1>1, <3>1
      <3>2. CASE p # q
        BY <1>1, <2>1, <3>2 DEF IInv, JobsOK
      <3> QED
        BY <3>1, <3>2
    <2> QED
      BY <2>1 DEF JobsOK, Continues
  <1>4. claimed' \in Request \cup {NoRequest} /\ cancelled' \in BOOLEAN
        /\ (worker.pc # "idle" => claimed' # NoRequest)
    BY DEF IInv, TypeOK, WorkerOK
  <1> QED
    BY <1>1, <1>2, <1>3, <1>4, RequestOnly

LEMMA StartRunKeeps ==
    ASSUME IInv, NEW q \in Request, StartRun(q)
    PROVE  IInv'
  <1>1. PICK snap \in SUBSET Unit, paths \in SUBSET Unit, v \in Version :
          \E units \in Listings(paths \cap snap) :
            /\ units # << >>
            /\ job' = [job EXCEPT ![q] =
                   [pc |-> "claim", units |-> units, recipe |-> v,
                    saved |-> NoCheckpoint, from |-> 0, snap |-> snap]]
    BY DEF StartRun
  <1>2. PICK units \in Listings(paths \cap snap) :
            /\ units # << >>
            /\ job' = [job EXCEPT ![q] =
                   [pc |-> "claim", units |-> units, recipe |-> v,
                    saved |-> NoCheckpoint, from |-> 0, snap |-> snap]]
    BY <1>1
  <1>3. units \in Seq(Unit) /\ Len(units) \in 1..Cardinality(Unit)
    <2> DEFINE S == paths \cap snap
    <2>1. S \in SUBSET Unit /\ units \in Listings(S) /\ units # << >>
      BY <1>2
    <2> HIDE DEF S
    <2> QED
      BY <2>1, ListingFacts
  <1> DEFINE j == [pc |-> "claim", units |-> units, recipe |-> v,
                   saved |-> NoCheckpoint, from |-> 0, snap |-> snap]
  <1>4. j \in Job /\ j.pc = "claim" /\ j.units = units /\ j.from = 0
    BY <1>3, ConstantTypes DEF Job, JobSteps
  <1>5. j.from <= last
    BY <1>4 DEF IInv, TypeOK
  <1>6. job' = [job EXCEPT ![q] = j]
    BY <1>2
  <1> HIDE DEF j
  <1> QED
    BY <1>3, <1>4, <1>5, <1>6, RequestReady DEF StartRun

\* What r left, as far as it still exists and is in scope, continues r.
LEMMA RestContinues ==
    ASSUME IInv, NEW r \in 1..last, NEW snap \in SUBSET Unit,
           NEW units \in Listings(Rest(r) \cap Configured \cap snap)
    PROVE  Continues(units, snap, r)
  <1>1. r \in RunId /\ runs[r] \in Row
    BY DEF IInv, TypeOK, RunId
  <1> DEFINE S == Rest(r) \cap Configured \cap snap
  <1>2. S \in SUBSET Unit /\ units \in Listings(S)
    OBVIOUS
  <1>3. \A x \in S : \E m \in 1..Len(units) : units[m] = x
    <2> HIDE DEF S
    <2> QED
      BY <1>2, ListingFacts
  <1>4. ASSUME NEW n \in 1..Len(runs[r].scope), <<r, n>> \notin settled,
               runs[r].scope[n] \in snap \cap Configured
        PROVE  \E m \in 1..Len(units) : units[m] = runs[r].scope[n]
    <2>1. ~(n <= runs[r].done)
      BY <1>1, <1>4 DEF IInv, DoneIsExact
    <2>2. runs[r].done \in Nat /\ Len(runs[r].scope) \in Nat
      BY <1>1, LenProperties DEF Row
    <2>3. n \in runs[r].done + 1 .. Len(runs[r].scope)
      BY <2>1, <2>2
    <2>4. runs[r].scope[n] \in Rest(r)
      BY <2>3 DEF Rest
    <2> QED
      BY <1>3, <1>4, <2>4
  <1> QED
    BY <1>4 DEF Continues

LEMMA ResumeRunKeeps ==
    ASSUME IInv, NEW q \in Request, ResumeRun(q)
    PROVE  IInv'
  <1>1. PICK r \in 1..last, snap \in SUBSET Unit, v \in Version :
          \E units \in Listings(Rest(r) \cap Configured \cap snap) :
            /\ units # << >>
            /\ job' = [job EXCEPT ![q] =
                   [pc |-> "claim", units |-> units, recipe |-> v,
                    saved |-> runs[r].saved, from |-> r, snap |-> snap]]
    BY DEF ResumeRun
  <1>2. PICK units \in Listings(Rest(r) \cap Configured \cap snap) :
            /\ units # << >>
            /\ job' = [job EXCEPT ![q] =
                   [pc |-> "claim", units |-> units, recipe |-> v,
                    saved |-> runs[r].saved, from |-> r, snap |-> snap]]
    BY <1>1
  <1>3. units \in Seq(Unit) /\ Len(units) \in 1..Cardinality(Unit)
    <2> DEFINE S == Rest(r) \cap Configured \cap snap
    <2>1. S \in SUBSET Unit /\ units \in Listings(S) /\ units # << >>
      BY <1>2
    <2> HIDE DEF S
    <2> QED
      BY <2>1, ListingFacts
  <1>4. r \in RunId /\ r \in 0..MaxRuns /\ runs[r].saved \in Checkpoint
    BY DEF IInv, TypeOK, RunId, Row
  <1> DEFINE j == [pc |-> "claim", units |-> units, recipe |-> v,
                   saved |-> runs[r].saved, from |-> r, snap |-> snap]
  <1>5. /\ j \in Job /\ j.pc = "claim" /\ j.units = units /\ j.from = r
        /\ j.snap = snap
    BY <1>3, <1>4 DEF Job, JobSteps
  <1>6. j.from <= last
    BY <1>5 DEF IInv, TypeOK
  <1>7. Continues(j.units, j.snap, j.from)
    BY <1>5, RestContinues
  <1>8. job' = [job EXCEPT ![q] = j]
    BY <1>2
  <1> HIDE DEF j
  <1> QED
    BY <1>3, <1>5, <1>6, <1>7, <1>8, RequestReady DEF ResumeRun

\* A request that ends leaves what the others will run as it was.
LEMMA RequestEnds ==
    ASSUME IInv, NEW q \in Request, job' = [job EXCEPT ![q] = DoneJob],
           UNCHANGED <<runs, last, settled>>
    PROVE  /\ job' \in [Request -> Job] /\ job'[q].pc = "done"
           /\ \A p \in Request : p # q => job'[p] = job[p]
           /\ JobsOK'
  <1>1. /\ job' \in [Request -> Job] /\ job'[q].pc = "done"
        /\ \A p \in Request : p # q => job'[p] = job[p]
    BY ConstantTypes DEF IInv, TypeOK
  <1>2. \A p \in Request : job'[p].pc \in {"claim", "create"} => p # q
    BY <1>1
  <1>3. JobsOK'
    BY <1>1, <1>2, StillContinues
  <1> QED
    BY <1>1, <1>3

LEMMA ClaimKeeps ==
    ASSUME IInv, NEW q \in Request, Claim(q)
    PROVE  IInv'
  <1>1. job[q].pc = "claim" /\ last < MaxRuns
        /\ UNCHANGED <<runs, last, worker, settled, crashes>>
    BY DEF Claim
  <1>2. CASE RegistryFree
    <2>1. claimed = NoRequest /\ claimed' = q /\ cancelled' = FALSE
          /\ job' = [job EXCEPT ![q].pc = "create"]
      BY <1>2 DEF Claim, RegistryFree
    <2>2. worker.pc = "idle"
      BY <2>1 DEF IInv, WorkerOK
    <2>3. /\ job' \in [Request -> Job] /\ job'[q].pc = "create"
          /\ \A p \in Request : /\ job'[p].units = job[p].units
                                /\ job'[p].snap = job[p].snap
                                /\ job'[p].from = job[p].from
          /\ \A p \in Request : p # q => job'[p] = job[p]
      BY <2>1 DEF IInv, TypeOK, Job, JobSteps
    <2>4. ClaimOK'
      BY <1>1, <2>1, <2>2, <2>3 DEF IInv, ClaimOK
    <2>5. JobsOK'
      <3>1. \A p \in Request : job'[p].pc \in {"claim", "create"} =>
                                 job[p].pc \in {"claim", "create"}
        BY <1>1, <2>3
      <3> QED
        BY <1>1, <2>3, <3>1, StillContinues
    <2>6. q # NoRequest
      OBVIOUS
    <2> QED
      BY <1>1, <2>1, <2>3, <2>4, <2>5, <2>6, RequestOnly
  <1>3. CASE ~RegistryFree
    <2>1. job' = [job EXCEPT ![q] = DoneJob] /\ UNCHANGED <<claimed, cancelled>>
      BY <1>3 DEF Claim
    <2>2. /\ job' \in [Request -> Job] /\ job'[q].pc = "done"
          /\ \A p \in Request : p # q => job'[p] = job[p]
          /\ JobsOK'
      BY <1>1, <2>1, RequestEnds
    <2>3. ClaimOK'
      BY <1>1, <2>1, <2>2 DEF IInv, ClaimOK
    <2>4. claimed' \in Request \cup {NoRequest} /\ cancelled' \in BOOLEAN
          /\ claimed' # NoRequest
      BY <1>3, <2>1 DEF RegistryFree, IInv, TypeOK
    <2> QED
      BY <1>1, <2>2, <2>3, <2>4, RequestOnly
  <1> QED
    BY <1>2, <1>3

\* The request that is to create its row is alone, and no row runs.
LEMMA Admitted ==
    ASSUME IInv, NEW q \in Request, job[q].pc = "create"
    PROVE  /\ claimed = q /\ worker.pc = "idle"
           /\ last + 1 \in RunId /\ last \in Nat
           /\ \A p \in Request : p # q => job[p].pc # "create"
           /\ \A r \in RunId : runs[r].status # "running"
  <1>1. claimed = q /\ worker.pc = "idle" /\ last < MaxRuns
    BY DEF IInv, ClaimOK
  <1>2. last + 1 \in RunId /\ last \in Nat
    BY <1>1 DEF IInv, TypeOK, RunId
  <1>3. \A p \in Request : p # q => job[p].pc # "create"
    BY <1>1 DEF IInv, ClaimOK
  <1> QED
    BY <1>1, <1>2, <1>3, NothingRuns

LEMMA CreateKeeps ==
    ASSUME IInv, NEW q \in Request, Create(q)
    PROVE  IInv'
  <1> DEFINE row == [status |-> "running", scope |-> job[q].units, done |-> 0,
                     recipe |-> job[q].recipe, saved |-> job[q].saved,
                     from |-> job[q].from, snap |-> job[q].snap]
  <1>1. /\ job[q].pc = "create" /\ last' = last + 1
        /\ runs' = [runs EXCEPT ![last + 1] = row]
        /\ worker' = [Idle EXCEPT !.pc = "unit", !.run = last + 1,
                                  !.state = job[q].saved]
        /\ job' = [job EXCEPT ![q] = DoneJob]
        /\ UNCHANGED <<claimed, cancelled, settled, crashes>>
    BY DEF Create
  <1>2. TypeOK /\ job[q] \in Job
    BY DEF IInv, TypeOK
  <1>3. /\ Len(job[q].units) \in 1..Cardinality(Unit) /\ job[q].from <= last
        /\ job[q].from # 0 =>
             Continues(job[q].units, job[q].snap, job[q].from)
    BY <1>1 DEF IInv, JobsOK
  <1>4. row \in Row
    BY <1>2 DEF Job, Row, Status
  <1>5. /\ row.status = "running" /\ row.scope = job[q].units /\ row.done = 0
        /\ row.from = job[q].from /\ row.snap = job[q].snap
    OBVIOUS
  <1> HIDE DEF row
  <1>6. /\ claimed = q /\ worker.pc = "idle" /\ last + 1 \in RunId
        /\ last \in Nat /\ last # last + 1
        /\ \A p \in Request : p # q => job[p].pc # "create"
        /\ \A r \in RunId : runs[r].status # "running"
    BY <1>1, Admitted
  <1>7. /\ runs' \in [RunId -> Row] /\ runs'[last + 1] = row
        /\ \A r \in RunId : r # last + 1 => runs'[r] = runs[r]
    BY <1>1, <1>2, <1>4, <1>6 DEF TypeOK
  <1>8. /\ worker' \in Worker /\ worker'.pc = "unit" /\ worker'.run = last + 1
        /\ worker'.at = 0 /\ worker'.outcome = "ok"
    <2>1. Idle \in Worker /\ job[q].saved \in Checkpoint
          /\ last + 1 \in 0..MaxRuns
      BY <1>2, <1>6, ConstantTypes DEF Job, RunId
    <2>2. Idle.at = 0 /\ Idle.outcome = "ok"
      BY DEF Idle
    <2> QED
      BY <1>1, <2>1, <2>2 DEF Worker, WorkerSteps
  <1>9. /\ job' \in [Request -> Job] /\ job'[q].pc = "done"
        /\ \A p \in Request : p # q => job'[p] = job[p]
    BY <1>1, <1>2, ConstantTypes DEF TypeOK
  <1>10. \A r \in RunId : /\ r <= last' <=> (r <= last \/ r = last + 1)
                          /\ r > last' => (r > last /\ r # last + 1)
    BY <1>1, <1>6 DEF RunId
  <1>11. TypeOK'
    <2>1. last' \in 0..MaxRuns
      BY <1>1, <1>6 DEF RunId
    <2> QED
      BY <1>1, <1>2, <1>7, <1>8, <1>9, <2>1 DEF TypeOK
  <1>12. RowsOK'
    <2>1. ASSUME NEW r \in RunId
          PROVE  /\ r > last' => runs'[r] = NoRow
                 /\ r <= last' => /\ runs'[r].status # "none"
                                  /\ Len(runs'[r].scope) \in 1..Cardinality(Unit)
                                  /\ runs'[r].done <= Len(runs'[r].scope)
                                  /\ runs'[r].from < r
                 /\ runs'[r].status = "running" =>
                      worker'.run = r /\ worker'.pc \notin {"idle", "release"}
      <3>1. CASE r = last + 1
        <4>1. job[q].from < r
          BY <1>2, <1>3, <1>6, <3>1 DEF Job
        <4>2. ~(r > last')
          BY <1>1, <1>6, <3>1
        <4>3. 0 <= Len(job[q].units)
          BY <1>3, UnitCardinality
        <4> QED
          BY <1>3, <1>5, <1>7, <1>8, <3>1, <4>1, <4>2, <4>3
      <3>2. CASE r # last + 1
        BY <1>6, <1>7, <1>10, <3>2 DEF IInv, RowsOK
      <3> QED
        BY <3>1, <3>2
    <2> QED
      BY <2>1 DEF RowsOK
  <1>13. WorkerOK'
    BY <1>1, <1>5, <1>6, <1>7, <1>8 DEF WorkerOK
  <1>14. ClaimOK'
    BY <1>6, <1>9 DEF ClaimOK
  <1>15. ASSUME NEW r \in 1..last, NEW units, NEW snap,
                Continues(units, snap, r)
         PROVE  Continues(units, snap, r)'
    <2>1. r \in RunId /\ r # last + 1
      BY <1>6 DEF RunId
    <2>2. runs'[r] = runs[r] /\ settled' = settled
      BY <1>1, <1>7, <2>1
    <2> QED
      BY <1>15, <2>2 DEF Continues
  <1>16. JobsOK'
    <2>1. ASSUME NEW p \in Request, job'[p].pc \in {"claim", "create"}
          PROVE  /\ Len(job'[p].units) \in 1..Cardinality(Unit)
                 /\ job'[p].from <= last'
                 /\ job'[p].from # 0 =>
                      Continues(job[p].units, job[p].snap, job[p].from)'
      <3>1. p # q /\ job'[p] = job[p]
        BY <1>9, <2>1
      <3>2. /\ Len(job[p].units) \in 1..Cardinality(Unit)
            /\ job[p].from <= last
            /\ job[p].from # 0 =>
                 Continues(job[p].units, job[p].snap, job[p].from)
        BY <2>1, <3>1 DEF IInv, JobsOK
      <3>3. job[p].from \in Nat
        <4>1. job[p] \in Job
          BY <1>2 DEF TypeOK
        <4> QED
          BY <4>1 DEF Job
      <3>4. job[p].from # 0 => job[p].from \in 1..last
        BY <1>6, <3>2, <3>3
      <3>5. job'[p].from <= last'
        BY <1>1, <1>6, <3>1, <3>2, <3>3
      <3>6. ASSUME job[p].from # 0
            PROVE  Continues(job[p].units, job[p].snap, job[p].from)'
        <4>1. runs'[job[p].from] = runs[job[p].from] /\ settled' = settled
          BY <1>1, <1>6, <1>7, <3>4, <3>6 DEF RunId
        <4>2. Continues(job[p].units, job[p].snap, job[p].from)
          BY <3>2, <3>6
        <4> QED
          BY <3>1, <4>1, <4>2 DEF Continues
      <3> QED
        BY <3>1, <3>2, <3>5, <3>6
    <2> QED
      BY <2>1 DEF JobsOK
  <1>17. SettledOK'
    BY <1>1, <1>6 DEF IInv, SettledOK
  <1>18. DoneIsExact'
    <2>1. ASSUME NEW r \in RunId, NEW n \in 1..Len(runs'[r].scope)
          PROVE  /\ n <= runs'[r].done => <<r, n>> \in settled'
                 /\ <<r, n>> \in settled' => n <= runs'[r].done + 1
      <3>1. CASE r = last + 1
        <4>1. <<r, n>> \notin settled
          BY <1>6, <3>1 DEF IInv, SettledOK
        <4>2. n \in Nat /\ n # 0
          BY <1>3, <1>5, <1>7, <3>1, UnitCardinality
        <4> QED
          BY <1>1, <1>5, <1>7, <3>1, <4>1, <4>2
      <3>2. CASE r # last + 1
        BY <1>1, <1>7, <3>2 DEF IInv, DoneIsExact
      <3> QED
        BY <3>1, <3>2
    <2> QED
      BY <2>1 DEF DoneIsExact
  <1>19. ResumeLosesNothing'
    <2>1. ASSUME NEW s \in 1..last', runs'[s].from # 0
          PROVE  Continues(runs[s].scope, runs[s].snap, runs[s].from)'
      <3>1. s \in RunId /\ runs'[s].from \in Nat
        BY <1>1, <1>6, <1>7 DEF RunId, Row
      <3>2. CASE s = last + 1
        <4>1. runs'[s] = row /\ job[q].from \in 1..last
          BY <1>2, <1>3, <1>5, <1>6, <1>7, <2>1, <3>2 DEF Job
        <4>2. runs'[job[q].from] = runs[job[q].from] /\ settled' = settled
          BY <1>1, <1>6, <1>7, <4>1 DEF RunId
        <4>3. Continues(job[q].units, job[q].snap, job[q].from)
          BY <1>3, <4>1
        <4>4. /\ runs'[s].scope = job[q].units /\ runs'[s].snap = job[q].snap
              /\ runs'[s].from = job[q].from
          BY <1>5, <4>1
        <4>5. runs'[runs'[s].from].scope = runs[job[q].from].scope
          BY <4>2, <4>4
        <4> QED
          BY <4>2, <4>3, <4>4, <4>5 DEF Continues
      <3>3. CASE s # last + 1
        <4>1. runs'[s] = runs[s] /\ s \in 1..last
          BY <1>1, <1>6, <1>7, <3>1, <3>3
        <4>2. runs[s].from < s
          BY <3>1, <4>1 DEF IInv, RowsOK
        <4>3. runs[s].from \in 1..last
          BY <1>6, <2>1, <3>1, <4>1, <4>2
        <4>4. runs'[runs[s].from] = runs[runs[s].from] /\ settled' = settled
          BY <1>1, <1>6, <1>7, <4>3 DEF RunId
        <4>5. Continues(runs[s].scope, runs[s].snap, runs[s].from)
          BY <2>1, <4>1 DEF IInv, ResumeLosesNothing
        <4> QED
          BY <4>1, <4>4, <4>5 DEF Continues
      <3> QED
        BY <3>2, <3>3
    <2> QED
      BY <2>1 DEF ResumeLosesNothing
  <1> QED
    BY <1>11, <1>12, <1>13, <1>14, <1>16, <1>17, <1>18, <1>19 DEF IInv

LEMMA CreateFailsKeeps ==
    ASSUME IInv, NEW q \in Request, CreateFails(q)
    PROVE  IInv'
  <1>1. /\ job[q].pc = "create" /\ claimed' = NoRequest /\ cancelled' = FALSE
        /\ job' = [job EXCEPT ![q] = DoneJob]
        /\ UNCHANGED <<runs, last, worker, settled, crashes>>
    BY DEF CreateFails
  <1>2. /\ job' \in [Request -> Job] /\ job'[q].pc = "done"
        /\ \A p \in Request : p # q => job'[p] = job[p]
        /\ JobsOK'
    BY <1>1, RequestEnds
  <1>3. /\ worker.pc = "idle"
        /\ \A p \in Request : p # q => job[p].pc # "create"
    BY <1>1, Admitted
  <1>4. ClaimOK'
    BY <1>2, <1>3 DEF ClaimOK
  <1> QED
    BY <1>1, <1>2, <1>3, <1>4, RequestOnly

LEMMA CancelKeeps == ASSUME IInv, Cancel PROVE IInv'
  <1>1. UNCHANGED <<runs, last, claimed, job, worker, settled, crashes>>
        /\ cancelled' = TRUE /\ claimed # NoRequest
    BY DEF Cancel
  <1>2. ClaimOK'
    BY <1>1 DEF IInv, ClaimOK
  <1>3. JobsOK'
    BY <1>1, StillContinues
  <1> QED
    BY <1>1, <1>2, <1>3, RequestOnly DEF IInv, TypeOK

-----------------------------------------------------------------------------
(* Restarts                                                                *)

\* The rows a restart leaves: a running one is closed, nothing else changes.
LEMMA Interrupted ==
    ASSUME TypeOK
    PROVE  /\ MarkInterrupted \in [RunId -> Row]
           /\ \A r \in RunId :
                /\ MarkInterrupted[r].scope = runs[r].scope
                /\ MarkInterrupted[r].done = runs[r].done
                /\ MarkInterrupted[r].from = runs[r].from
                /\ MarkInterrupted[r].snap = runs[r].snap
                /\ runs[r].status # "running" => MarkInterrupted[r] = runs[r]
                /\ runs[r].status = "running" =>
                     MarkInterrupted[r].status = "interrupted"
                /\ MarkInterrupted[r].status # "running"
  <1>1. ASSUME NEW r \in RunId
        PROVE  /\ MarkInterrupted[r] \in Row
               /\ MarkInterrupted[r].scope = runs[r].scope
               /\ MarkInterrupted[r].done = runs[r].done
               /\ MarkInterrupted[r].from = runs[r].from
               /\ MarkInterrupted[r].snap = runs[r].snap
               /\ runs[r].status # "running" => MarkInterrupted[r] = runs[r]
               /\ runs[r].status = "running" =>
                     MarkInterrupted[r].status = "interrupted"
               /\ MarkInterrupted[r].status # "running"
    <2>1. runs[r] \in Row
      BY DEF TypeOK
    <2>2. CASE runs[r].status = "running"
      <3>1. MarkInterrupted[r] = [runs[r] EXCEPT !.status = "interrupted"]
        BY <2>2 DEF MarkInterrupted
      <3> QED
        BY <2>1, <2>2, <3>1 DEF Row, Status
    <2>3. CASE runs[r].status # "running"
      <3>1. MarkInterrupted[r] = runs[r]
        BY <2>3 DEF MarkInterrupted
      <3> QED
        BY <2>1, <2>3, <3>1
    <2> QED
      BY <2>2, <2>3
  <1>2. MarkInterrupted \in [RunId -> Row]
    BY <1>1 DEF MarkInterrupted
  <1> QED
    BY <1>1, <1>2

LEMMA CrashKeeps == ASSUME IInv, Crash PROVE IInv'
  <1>1. /\ runs' = MarkInterrupted /\ claimed' = NoRequest /\ cancelled' = FALSE
        /\ worker' = Idle /\ crashes' = crashes + 1 /\ crashes < MaxCrashes
        /\ UNCHANGED <<last, settled>>
    BY DEF Crash
  <1>2. TypeOK
    BY DEF IInv
  <1>3. \A q \in Request : \/ job'[q] = job[q] /\ job[q].pc = "new"
                           \/ job'[q] = DoneJob
    BY DEF Crash
  <1>4. job' \in [Request -> Job]
    BY <1>2, ConstantTypes DEF Crash, TypeOK
  <1>5. \A q \in Request : job'[q].pc \in {"new", "done"}
    BY <1>3, ConstantTypes
  <1>6. /\ runs' \in [RunId -> Row]
        /\ \A r \in RunId : /\ runs'[r].scope = runs[r].scope
                            /\ runs'[r].done = runs[r].done
                            /\ runs'[r].from = runs[r].from
                            /\ runs'[r].snap = runs[r].snap
                            /\ runs[r].status # "running" => runs'[r] = runs[r]
                            /\ runs[r].status = "running" =>
                                 runs'[r].status = "interrupted"
                            /\ runs'[r].status # "running"
    BY <1>1, <1>2, Interrupted
  <1>7. TypeOK'
    <2>1. crashes' \in 0..MaxCrashes
      BY <1>1, <1>2 DEF TypeOK
    <2> QED
      BY <1>1, <1>2, <1>4, <1>6, <2>1, ConstantTypes DEF TypeOK
  <1>8. RowsOK'
    <2>1. ASSUME NEW r \in RunId
          PROVE  /\ r > last' => runs'[r] = NoRow
                 /\ r <= last' => /\ runs'[r].status # "none"
                                  /\ Len(runs'[r].scope) \in 1..Cardinality(Unit)
                                  /\ runs'[r].done <= Len(runs'[r].scope)
                                  /\ runs'[r].from < r
                 /\ runs'[r].status # "running"
      <3>1. NoRow.status # "running"
        BY DEF NoRow
      <3>2. runs'[r].status # "none" \/ runs'[r] = runs[r]
        BY <1>6
      <3> QED
        BY <1>1, <1>6, <3>1, <3>2 DEF IInv, RowsOK
    <2> QED
      BY <2>1 DEF RowsOK
  <1>9. WorkerOK'
    BY <1>1 DEF WorkerOK, Idle
  <1>10. ClaimOK'
    BY <1>5 DEF ClaimOK
  <1>11. JobsOK' /\ ResumeLosesNothing'
    BY <1>1, <1>5, <1>6, StillContinues
  <1>12. SettledOK' /\ DoneIsExact'
    BY <1>1, <1>6 DEF IInv, SettledOK, DoneIsExact
  <1> QED
    BY <1>7, <1>8, <1>9, <1>10, <1>11, <1>12 DEF IInv

-----------------------------------------------------------------------------
(* The theorems                                                            *)

LEMMA NextKeeps == IInv /\ [Next]_vars => IInv'
  <1> SUFFICES ASSUME IInv, [Next]_vars PROVE IInv'
    OBVIOUS
  <1>1. ASSUME NEW q \in Request,
               StartRun(q) \/ ResumeRun(q) \/ Claim(q) \/ Create(q)
                 \/ CreateFails(q)
        PROVE  IInv'
    BY <1>1, StartRunKeeps, ResumeRunKeeps, ClaimKeeps, CreateKeeps,
       CreateFailsKeeps
  <1>2. CASE Cancel
    BY <1>2, CancelKeeps
  <1>3. CASE WorkerStep
    <2>1. CASE Release
      BY <2>1, ReleaseKeeps
    <2>2. CASE Finish
      BY <2>2, FinishKeeps
    <2>3. CASE Progress
      BY <2>3, ProgressKeeps
    <2>4. CASE ClearCheckpoint \/ StoreUnit
      BY <2>4, ClearCheckpointKeeps, StoreUnitKeeps
    <2>5. CASE StageAnswered \/ StageFails \/ StageRefused
      BY <2>5, StageAnsweredKeeps, StageFailsKeeps, StageRefusedKeeps
    <2>6. CASE NextUnit \/ StageCancelled \/ StageRehydrated
      BY <2>6, NextUnitKeeps, StageCancelledKeeps, StageRehydratedKeeps
    <2> QED
      BY <1>3, <2>1, <2>2, <2>3, <2>4, <2>5, <2>6 DEF WorkerStep
  <1>4. CASE Crash
    BY <1>4, CrashKeeps
  <1>5. CASE UNCHANGED vars
    <2> USE <1>5 DEF vars
    <2>1. TypeOK' /\ RowsOK' /\ ClaimOK' /\ SettledOK' /\ DoneIsExact'
      BY DEF IInv, TypeOK, RowsOK, ClaimOK, SettledOK, DoneIsExact
    <2>2. WorkerOK'
      BY DEF IInv, WorkerOK, Key
    <2>3. JobsOK' /\ ResumeLosesNothing'
      BY StillContinues
    <2> QED
      BY <2>1, <2>2, <2>3 DEF IInv
  <1> QED
    BY <1>1, <1>2, <1>3, <1>4, <1>5 DEF Next

\* The inductive invariant of alignment runs: one worker, the newest row is
\* its own, and a request that was admitted is alone.
THEOREM Invariance == Spec => []IInv
  <1> QED
    BY InitIInv, NextKeeps, PTL DEF Spec

\* Every variable keeps its type; in particular no run is granted more model
\* calls than the ceiling.
THEOREM TypeCorrect == Spec => []TypeOK
  <1>1. IInv => TypeOK
    BY DEF IInv
  <1> QED
    BY <1>1, Invariance, PTL

\* docs_done is exactly how far a run got: it counts no unit that was neither
\* checked nor failed, and trails what was done by one unit at most.
THEOREM ProgressExact == Spec => []DoneIsExact
  <1>1. IInv => DoneIsExact
    BY DEF IInv
  <1> QED
    BY <1>1, Invariance, PTL

\* Whatever was in the scope of a run and not settled by it is in the scope of
\* the run that picks it up, if it is still there to be audited.
THEOREM ResumeComplete == Spec => []ResumeLosesNothing
  <1>1. IInv => ResumeLosesNothing
    BY DEF IInv
  <1> QED
    BY <1>1, Invariance, PTL

-----------------------------------------------------------------------------
(* Refinement: the rows of drift_runs behave as RunLedger says.            *)

\* What the ledger sees of a row.
Entry(r) == [status |-> runs[r].status, total |-> Len(runs[r].scope),
            done |-> runs[r].done]
Entries == [r \in RunId |-> Entry(r)]

\* A step that changes no status, scope or count is a stutter of the ledger.
LEMMA LedgerStutter ==
    ASSUME IInv, last' = last,
           \A s \in RunId : /\ runs'[s].scope = runs[s].scope
                            /\ runs'[s].done = runs[s].done
                            /\ runs'[s].status = runs[s].status
    PROVE  UNCHANGED <<Entries, last>>
  BY DEF Entries, Entry

\* A step that changes one row's status or count.
LEMMA OneRow ==
    ASSUME IInv, NEW r \in RunId,
           \A s \in RunId : s # r => runs'[s] = runs[s]
    PROVE  Entries' = [Entries EXCEPT ![r] = Entry(r)']
  BY DEF Entries, Entry

LEMMA LedgerRunning ==
    ASSUME IInv
    PROVE  /\ Ledger!Running = {r \in RunId : runs[r].status = "running"}
           /\ Ledger!RunId = RunId
  BY DEF Ledger!Running, Ledger!RunId, RunId

LEMMA LedgerInit == Init => Ledger!Init
  <1> SUFFICES ASSUME Init PROVE Ledger!Init
    OBVIOUS
  <1>1. Len(<< >>) = 0
    BY EmptySeq
  <1>2. \A r \in RunId : /\ runs[r].status = "none"
                         /\ Len(runs[r].scope) = 0 /\ runs[r].done = 0
    BY <1>1 DEF Init, NoRow
  <1> QED
    BY <1>2 DEF Init, Ledger!Init, Ledger!RunId, RunId

LEMMA EntryFields ==
    ASSUME NEW r \in RunId
    PROVE  /\ Entries[r] = Entry(r)
           /\ Entries[r].status = runs[r].status
           /\ Entries[r].total = Len(runs[r].scope)
           /\ Entries[r].done = runs[r].done
  BY DEF Entries, Entry

LEMMA CreateOpens ==
    ASSUME IInv, NEW q \in Request, Create(q)
    PROVE  Ledger!Open
  <1>1. /\ job[q].pc = "create" /\ last' = last + 1
        /\ runs' = [runs EXCEPT ![last + 1] =
              [status |-> "running", scope |-> job[q].units, done |-> 0,
               recipe |-> job[q].recipe, saved |-> job[q].saved,
               from |-> job[q].from, snap |-> job[q].snap]]
    BY DEF Create
  <1>2. last + 1 \in RunId /\ last < MaxRuns
        /\ \A r \in RunId : runs[r].status # "running"
    BY <1>1, Admitted DEF IInv, ClaimOK
  <1>3. Ledger!Running = {}
    BY <1>2, LedgerRunning
  <1>4. Len(job[q].units) \in 1..Cardinality(Unit)
    BY <1>1 DEF IInv, JobsOK
  <1>5. PICK r \in RunId : r = last + 1
    BY <1>2
  <1>6. /\ runs'[r].status = "running"
        /\ runs'[r].scope = job[q].units /\ runs'[r].done = 0
        /\ \A s \in RunId : s # r => runs'[s] = runs[s]
    BY <1>1, <1>5 DEF IInv, TypeOK
  <1>7. Entry(r)' = [status |-> "running", total |-> Len(job[q].units),
                     done |-> 0]
    BY <1>6 DEF Entry
  <1>8. Entries' = [Entries EXCEPT ![last + 1] =
                      [status |-> "running", total |-> Len(job[q].units),
                       done |-> 0]]
    BY <1>5, <1>6, <1>7, OneRow
  <1> QED
    BY <1>1, <1>2, <1>3, <1>4, <1>8 DEF Ledger!Open, Entries, Entry

LEMMA ProgressAdvances ==
    ASSUME IInv, Progress
    PROVE  Ledger!Advance
  <1>1. /\ worker.pc = "progress" /\ worker.at < Len(Scope)
        /\ UNCHANGED last
    BY AtWork DEF Progress, IInv, WorkerOK
  <1>2. /\ last \in RunId /\ runs[last].status = "running"
        /\ runs[last].done = worker.at /\ Scope = runs[last].scope
        /\ worker.run = last
    BY <1>1, AtWork
  <1>3. runs' = [runs EXCEPT ![last].done = runs[last].done + 1]
    BY <1>2 DEF Progress
  <1>4. /\ Entries[last].status = "running"
        /\ Entries[last].done < Entries[last].total
    BY <1>1, <1>2, EntryFields
  <1>5. /\ runs'[last].status = runs[last].status
        /\ runs'[last].scope = runs[last].scope
        /\ runs'[last].done = runs[last].done + 1
        /\ \A r \in RunId : r # last => runs'[r] = runs[r]
    BY <1>2, <1>3 DEF IInv, TypeOK, Row
  <1>6. Entries' = [Entries EXCEPT ![last].done = Entries[last].done + 1]
    BY <1>2, <1>5 DEF Entries, Entry
  <1>7. last \in Ledger!Running
    BY <1>2, LedgerRunning
  <1> QED
    BY <1>1, <1>4, <1>6, <1>7 DEF Ledger!Advance, Entries, Entry

\* Closing row r as st.
LEMMA RowCloses ==
    ASSUME IInv, NEW r \in RunId, runs[r].status = "running", last' = last,
           NEW st \in {"ok", "error", "cancelled", "capped", "interrupted"},
           st \in {"ok", "error"} => runs[r].done = Len(runs[r].scope),
           st \in {"cancelled", "capped"} => runs[r].done < Len(runs[r].scope),
           runs'[r].status = st,
           \A s \in RunId : /\ runs'[s].scope = runs[s].scope
                            /\ runs'[s].done = runs[s].done
                            /\ s # r => runs'[s].status = runs[s].status
    PROVE  Ledger!Close
  <1>1. Entries' = [Entries EXCEPT ![r].status = st]
    BY DEF Entries, Entry
  <1>2. /\ st \in {"ok", "error"} => Entries[r].done = Entries[r].total
        /\ st \in {"cancelled", "capped"} => Entries[r].done < Entries[r].total
    BY EntryFields
  <1>3. r \in Ledger!Running
    BY LedgerRunning
  <1> QED
    BY ZenonT(30), <1>1, <1>2, <1>3 DEF Ledger!Close, Entries, Entry

LEMMA FinishCloses ==
    ASSUME IInv, Finish
    PROVE  Ledger!Close
  <1>1. worker.pc = "finish" /\ last' = last
    BY DEF Finish
  <1>2. /\ last \in RunId /\ runs[last].status = "running"
        /\ runs[last].done = worker.at /\ Scope = runs[last].scope
        /\ worker.run = last
    BY <1>1, AtWork
  <1>3. PICK st \in {"ok", "error", "cancelled", "capped"} :
              /\ runs' = [runs EXCEPT ![last].status = st]
              /\ st \in {"ok", "error"} => worker.at = Len(Scope)
              /\ st \in {"cancelled", "capped"} => worker.at < Len(Scope)
    BY <1>1, <1>2, FinishStatus DEF Finish
  <1>4. /\ runs'[last].status = st
        /\ \A s \in RunId : /\ runs'[s].scope = runs[s].scope
                            /\ runs'[s].done = runs[s].done
                            /\ s # last => runs'[s].status = runs[s].status
    <2>1. TypeOK /\ st \in Status
      BY DEF IInv, Status
    <2> QED
      BY <1>2, <1>3, <2>1, SetStatus
  <1> QED
    BY <1>1, <1>2, <1>3, <1>4, RowCloses

LEMMA CrashCloses ==
    ASSUME IInv, Crash
    PROVE  Ledger!Close \/ UNCHANGED <<Entries, last>>
  <1>1. runs' = MarkInterrupted /\ last' = last /\ TypeOK
    BY DEF Crash, IInv
  <1>2. \A r \in RunId : /\ runs'[r].scope = runs[r].scope
                         /\ runs'[r].done = runs[r].done
                         /\ runs[r].status # "running" => runs'[r] = runs[r]
                         /\ runs[r].status = "running" =>
                              runs'[r].status = "interrupted"
    BY <1>1, Interrupted
  <1>3. CASE \E r \in RunId : runs[r].status = "running"
    <2>1. PICK r \in RunId : runs[r].status = "running"
      BY <1>3
    <2>2. \A s \in RunId : s # r => runs[s].status # "running"
      BY <2>1 DEF IInv, RowsOK
    <2> QED
      BY <1>1, <1>2, <2>1, <2>2, RowCloses
  <1>4. CASE \A r \in RunId : runs[r].status # "running"
    BY <1>1, <1>2, <1>4, LedgerStutter
  <1> QED
    BY <1>3, <1>4

LEMMA StageDoneStutters ==
    ASSUME IInv, worker.pc = "stage", NEW calls, StageDone(calls), last' = last
    PROVE  UNCHANGED <<Entries, last>>
  <1>1. \E cp : runs' = [runs EXCEPT ![worker.run].saved = cp]
    BY DEF StageDone
  <1>2. PICK cp : runs' = [runs EXCEPT ![last].saved = cp]
    BY <1>1, AtWork
  <1>3. \A s \in RunId : /\ runs'[s].scope = runs[s].scope
                         /\ runs'[s].done = runs[s].done
                         /\ runs'[s].status = runs[s].status
    BY <1>2 DEF IInv, TypeOK, Row
  <1> QED
    BY <1>3, LedgerStutter

LEMMA WorkerStepMaps ==
    ASSUME IInv, WorkerStep
    PROVE  Ledger!Next \/ UNCHANGED <<Entries, last>>
  <1>1. CASE NextUnit \/ StageCancelled \/ StageRehydrated \/ StageFails
               \/ StoreUnit \/ Release
    BY <1>1, LedgerStutter DEF NextUnit, StageCancelled, StageRehydrated,
       StageFails, StoreUnit, Release
  <1>2. CASE StageAnswered
    BY <1>2, StageDoneStutters DEF StageAnswered, Asking
  <1>3. CASE StageRefused
    <2>1. CASE worker.stage + 1 \in Lenient
      BY <1>3, <2>1, StageDoneStutters DEF StageRefused, Asking
    <2>2. CASE worker.stage + 1 \notin Lenient
      BY <1>3, <2>2, LedgerStutter DEF StageRefused
    <2> QED
      BY <2>1, <2>2
  <1>4. CASE ClearCheckpoint
    <2>1. runs' = [runs EXCEPT ![last].saved = NoCheckpoint] /\ last' = last
      BY <1>4, AtWork DEF ClearCheckpoint
    <2>2. \A s \in RunId : /\ runs'[s].scope = runs[s].scope
                           /\ runs'[s].done = runs[s].done
                           /\ runs'[s].status = runs[s].status
      BY <2>1 DEF IInv, TypeOK, Row
    <2> QED
      BY <2>1, <2>2, LedgerStutter
  <1>5. CASE Progress
    BY <1>5, ProgressAdvances DEF Ledger!Next
  <1>6. CASE Finish
    BY <1>6, FinishCloses DEF Ledger!Next
  <1> QED
    BY <1>1, <1>2, <1>3, <1>4, <1>5, <1>6 DEF WorkerStep

LEMMA NextMaps ==
    IInv /\ [Next]_vars => (Ledger!Next \/ UNCHANGED <<Entries, last>>)
  <1> SUFFICES ASSUME IInv, [Next]_vars
               PROVE  Ledger!Next \/ UNCHANGED <<Entries, last>>
    OBVIOUS
  <1>1. ASSUME NEW q \in Request, StartRun(q) \/ ResumeRun(q) \/ Claim(q)
                                    \/ CreateFails(q)
        PROVE  UNCHANGED <<Entries, last>>
    BY <1>1, LedgerStutter DEF StartRun, ResumeRun, Claim, CreateFails
  <1>2. ASSUME NEW q \in Request, Create(q)
        PROVE  Ledger!Next
    BY <1>2, CreateOpens DEF Ledger!Next
  <1>3. CASE Cancel \/ UNCHANGED vars
    BY <1>3, LedgerStutter DEF Cancel, vars
  <1>4. CASE WorkerStep
    BY <1>4, WorkerStepMaps
  <1>5. CASE Crash
    BY <1>5, CrashCloses DEF Ledger!Next
  <1> QED
    BY <1>1, <1>2, <1>3, <1>4, <1>5 DEF Next

\* The alignment engine implements the ledger of runs.
THEOREM Implements == Spec => ImplementsLedger
  <1>1. IInv /\ [Next]_vars => [Ledger!Next]_<<Entries, last>>
    BY NextMaps
  <1>2. Entries = [r \in RunId |-> [status |-> runs[r].status,
                                    total  |-> Len(runs[r].scope),
                                    done   |-> runs[r].done]]
    BY DEF Entries, Entry
  <1> QED
    BY <1>1, <1>2, LedgerInit, Invariance, PTL
       DEF Spec, ImplementsLedger, Ledger!Spec, Entries, Entry
=============================================================================
