------------------------------ MODULE Finding ------------------------------
(***************************************************************************)
(* The findings of one branch: the worker that stores, reconciles and      *)
(* retires them, the requests with which users triage them, produce        *)
(* documents from them and file them on a tracker, and the report in the   *)
(* repository that follows both                                            *)
(* (server/internal/api/drift.go and store/drift.go).                      *)
(*                                                                         *)
(* Granularity.  The store has one connection, so a statement is one step, *)
(* and so is each SaveFile, which compares the sha of the file with the    *)
(* one the caller read: a file's content stands for its sha.  A model or   *)
(* tracker call lies between two steps.  How a run is started, resumed and *)
(* interrupted is DriftRun; here it takes some units and stops anywhere.   *)
(* One user works: requests are her tabs, and one workspace is written.    *)
(***************************************************************************)
EXTENDS Integers, FiniteSets, Sequences, SequencesExt

CONSTANTS
    Fp,          \* fingerprints of findings
    Path,        \* documents of the project; the report is not among them
    DocPath,     \* [Fp -> the audited document, or None for a gap]
    Kind,        \* [Fp -> the finding's kind]
    Recipe,      \* alignment recipes
    DraftKinds,  \* kinds whose remedy is a new document
    Requirement, \* paths in the requirement family
    Implicit,    \* the project's own forge as a target, or none: a set
    Selected,    \* targets the project's config names (drift.targets)
    Catalog,     \* targets the deployment offers
    Source,      \* the unit of a sweep over a reference source
    Before,      \* the findings of the first run
    Actor,       \* requests in flight
    Text,        \* what humans write in documents
    Protected,   \* is the audited branch protected?
    None,
    MaxRuns,     \* bound on runs
    MaxRequests, \* bound on requests about findings
    MaxEdits,    \* bound on human edits and crashes
    MaxEvents,   \* bound on all three together
    MaxBusy      \* bound on what is under way at once, worker and requests

ASSUME ConstantsAssumption ==
    /\ DocPath \in [Fp -> Path \cup {None}]
    /\ Kind \in [Fp -> STRING]
    /\ Before \subseteq Fp
    /\ \E r \in Recipe : \A f \in Before : Kind[f] \in r.kinds
    /\ Recipe \subseteq [kinds : SUBSET STRING, perSource : BOOLEAN,
                           output : {"findings", "extraction"}]
    /\ Requirement \subseteq Path
    /\ Protected \in BOOLEAN
    /\ Text # {} /\ "worker" \notin Actor
    /\ None \notin Path \cup Text /\ Source \notin Path
    /\ MaxRuns \in Nat /\ MaxRequests \in Nat /\ MaxEdits \in Nat
    /\ MaxEvents \in Nat /\ MaxBusy \in Nat

VARIABLES
    rows,      \* drift_findings: [Fp -> Row or None]
    landed,    \* documents on the audited branch, when it is protected
    files,     \* [Path -> File or None] on the branch that is written
    report,    \* the report document there, or None
    inventory, \* what an extraction wrote about the source, or None
    runs,      \* drift_runs, oldest first
    tracker,   \* [Fp, target -> Tally of the items there with its marker]
    worker,    \* the driftWorker goroutine
    job,       \* [Actor -> where its handler is, and its locals]
    rep,       \* [process -> where its writeDriftReport is]
    requests, edits,
    overtaken, \* processes that write a report from rows since changed
    behind,    \* the last report write was lost, or written by such a one
    shared,    \* findings on which two requests overlapped
    produced   \* [Fp -> documents, still there, that requests answered as
               \* created for it]

table == <<rows, runs, tracker>>
docs  == <<landed, files, report, inventory>>
events == <<requests, edits>>
aux   == <<overtaken, behind, shared, produced>>
vars  == <<rows, landed, files, report, inventory, runs, tracker, worker,
           job, rep, requests, edits, overtaken, behind, shared, produced>>

-----------------------------------------------------------------------------
(* Data                                                                    *)

\* driftTargets.
Target == Implicit \cup (Selected \cap Catalog)

Status == {"open", "dismissed", "filed"}

\* live: resolved_at = 0.  run: run_id.  item: work_item_url.
Row == [run : Nat, live : BOOLEAN, status : Status,
        draft : Path \cup {None}, remedy : Path \cup {None},
        documents : SUBSET Path,
        item : (Target \X Nat) \cup {None}]

\* links: typed links and work items appended to the front matter.
File == [text : Text, links : SUBSET (Path \cup (Fp \X Target \X Nat))]

\* The human's text around the engine block, the findings the block shows,
\* and its accumulated run log.
Shown  == [Fp -> Status \cup {None}]
Report == [text : Text, shown : Shown, log : Seq(Nat)]
Inventory == [text : Text, run : Nat]

\* recipe: recipe_json.  snap: the documents of the snapshot it works on.
Run == [status : {"running", "ok", "stopped"}, recipe : Recipe,
        snap : SUBSET Path]

ASSUME NoneAssumption ==
    None \notin Row /\ None \notin File /\ None \notin Report /\ None \notin Inventory

\* items: the work items that carry the marker.  missed (bookkeeping): the
\* searches that had one to find and did not show it.
Tally == [items : Nat, missed : Nat]

Proc == Actor \cup {"worker"}

\* row: the finding as the handler read it.  path: the document it writes.
\* link: what it appends to the document, next: the step that follows.
NoJob == [pc |-> "idle", f |-> None, row |-> None, todo |-> {}, made |-> {},
          path |-> None, link |-> None, base |-> None, next |-> "idle"]
NoRep == [pc |-> "idle", final |-> FALSE, shown |-> None, base |-> None]
NoWork == [pc |-> "idle", scope |-> {}, unit |-> None, found |-> {},
           todo |-> {}, base |-> None]

Blank == CHOOSE t \in Text : TRUE
Fresh == [text |-> Blank, links |-> {}]

Newest == Len(runs)
Running == Newest > 0 /\ runs[Newest].status = "running"
Present == {p \in Path : files[p] # None}

\* The documents of the branch a run audits.
Audited == IF Protected THEN landed ELSE Present

\* DriftFindings: the unresolved rows, as the report shows them.
Visible == [f \in Fp |-> IF rows[f] # None /\ rows[f].live
                         THEN rows[f].status ELSE None]

\* draftableKind.
Draftable(f) == Kind[f] \in DraftKinds

UnitOf(f) == IF DocPath[f] = None THEN Source ELSE DocPath[f]

\* The findings whose kind a recipe declares.
Owned(r) == {f \in Fp : Kind[f] \in r.kinds}

\* The insert of UpsertDriftFinding.
NewRow(run) == [run |-> run, live |-> TRUE, status |-> "open", draft |-> None,
                remedy |-> None, documents |-> {}, item |-> None]

\* A branch audited once, and the report as the run wrote it.
Init ==
    /\ rows = [f \in Fp |-> IF f \in Before THEN NewRow(1) ELSE None]
    /\ LET r == CHOOSE r \in Recipe : Before \subseteq Owned(r) IN
         runs = <<[status |-> "ok", recipe |-> r,
                   snap |-> {DocPath[f] : f \in Fp} \ {None}]>>
    /\ report = [text |-> Blank, shown |-> Visible, log |-> <<1>>]
    /\ inventory = None
    /\ files = [p \in Path |-> IF \E f \in Fp : DocPath[f] = p
                                THEN Fresh ELSE None]
    /\ landed = IF Protected THEN Present ELSE {}
    /\ tracker = [f \in Fp |-> [t \in Target |-> [items |-> 0, missed |-> 0]]]
    /\ worker = NoWork
    /\ job = [a \in Actor |-> NoJob]
    /\ rep = [p \in Proc |-> NoRep]
    /\ requests = 0 /\ edits = 0
    /\ overtaken = {} /\ behind = FALSE
    /\ shared = {} /\ produced = [f \in Fp |-> {}]

-----------------------------------------------------------------------------
(* Helpers                                                                 *)

Budget == Newest + requests + edits < MaxEvents

Busy == {a \in Actor : job[a].pc # "idle"}
Room == Cardinality(Busy) + (IF worker.pc = "idle" THEN 0 ELSE 1) < MaxBusy

\* Whoever holds rows it read for a report is overtaken by a change of them.
Reported == {p \in Proc : rep[p].pc \in {"file", "save"}}
SetRows(new) == rows' = new /\ overtaken' = overtaken \cup Reported

SaveBlindly(current, base) == TRUE                            \* mutant
\* Repo.SaveFile accepts a save based on the current content only.
SaveAccepted(current, base) == current = base

StartReport(p, final) ==
    rep' = [rep EXCEPT ![p] = [NoRep EXCEPT !.pc = "rows", !.final = final]]

Goto(a, pc) == job' = [job EXCEPT ![a].pc = pc]
Answer(a)   == job' = [job EXCEPT ![a] = NoJob]

-----------------------------------------------------------------------------
(* writeDriftReport and refreshDriftReport                                 *)

\* LatestDriftRun, then DriftFindings: two reads in a row, one step.  A
\* refresh leaves the report to the worker of a run in flight.
ReportRows(p) ==
    /\ rep[p].pc = "rows"
    /\ IF p = "worker" \/ (Newest > 0 /\ ~Running)
       THEN /\ rep' = [rep EXCEPT ![p].pc = "file", ![p].shown = Visible]
            /\ overtaken' = overtaken \ {p}
            /\ UNCHANGED job
       ELSE /\ rep' = [rep EXCEPT ![p] = NoRep]
            /\ Answer(p)
            /\ UNCHANGED overtaken
    /\ UNCHANGED <<table, docs, worker, events, behind, shared, produced>>

ReportFile(p) ==
    /\ rep[p].pc = "file"
    /\ rep' = [rep EXCEPT ![p].pc = "save", ![p].base = report]
    /\ UNCHANGED <<table, docs, worker, job, events, aux>>

MergedOver(r) ==                                              \* mutant
    [text |-> Blank, shown |-> r.shown,
     log  |-> (IF r.base = None THEN << >> ELSE r.base.log)
              \o (IF r.final THEN <<Newest>> ELSE << >>)]
LogEachTime(r) ==                                             \* mutant
    [text |-> IF r.base = None THEN Blank ELSE r.base.text,
     shown |-> r.shown,
     log  |-> (IF r.base = None THEN << >> ELSE r.base.log) \o <<Newest>>]
\* mergeDriftReport: the engine's block is replaced, its run log carried over,
\* the text around it kept.
Merged(r) ==
    [text |-> IF r.base = None THEN Blank ELSE r.base.text,
     shown |-> r.shown,
     log  |-> (IF r.base = None THEN << >> ELSE r.base.log)
              \o (IF r.final THEN <<Newest>> ELSE << >>)]

\* On a concurrent edit the refresh is dropped: best effort.
ReportSave(p) ==
    /\ rep[p].pc = "save"
    /\ IF SaveAccepted(report, rep[p].base)
       THEN report' = Merged(rep[p]) /\ behind' = (p \in overtaken)
       ELSE behind' = TRUE /\ UNCHANGED report
    /\ rep' = [rep EXCEPT ![p] = NoRep]
    /\ overtaken' = overtaken \ {p}
    /\ IF p \in Actor THEN Answer(p) ELSE UNCHANGED job
    /\ UNCHANGED <<table, landed, files, inventory, worker, events, shared,
                   produced>>

-----------------------------------------------------------------------------
(* driftWorker                                                             *)

\* The request that starts a run takes the branch's documents, and only
\* later the branch.
RequestRun(a) ==
    /\ job[a].pc = "idle" /\ Newest < MaxRuns /\ Budget /\ Room
    /\ job' = [job EXCEPT ![a] = [NoJob EXCEPT !.pc = "claim", !.todo = Audited]]
    /\ UNCHANGED <<table, docs, worker, rep, events, aux>>

ClaimRun(a) ==
    /\ job[a].pc = "claim"
    /\ IF worker.pc = "idle" /\ Newest < MaxRuns /\ Budget
       THEN \E r \in Recipe :
              \E scope \in IF r.perSource THEN {{Source}}
                            ELSE (SUBSET job[a].todo) \ {{}} :
                /\ runs' = Append(runs, [status |-> "running", recipe |-> r,
                                         snap |-> job[a].todo])
                /\ worker' = [NoWork EXCEPT !.pc = "retire", !.scope = scope]
       ELSE UNCHANGED <<runs, worker>>
    /\ Answer(a)
    /\ UNCHANGED <<rows, tracker, docs, rep, events, aux>>

\* ResolveOrphanedDriftFindings, with the documents of the request's snapshot.
Retire ==
    /\ worker.pc = "retire"
    /\ SetRows([f \in Fp |->
          IF rows[f] # None /\ DocPath[f] \notin runs[Newest].snap \cup {None}
          THEN [rows[f] EXCEPT !.live = FALSE] ELSE rows[f]])
    /\ worker' = [worker EXCEPT !.pc = "unit"]
    /\ UNCHANGED <<runs, tracker, docs, job, rep, events, behind, shared,
                   produced>>

Current == runs[Newest].recipe
Checkable(u) == {f \in Owned(Current) : UnitOf(f) = u}

\* runRecipeFindings: one unit is checked, or fails.
CheckUnit ==
    /\ worker.pc = "unit" /\ rep["worker"].pc = "idle"
    /\ \E u \in worker.scope :
         \/ /\ Current.output = "findings"
            /\ \E found \in SUBSET Checkable(u) :
                 worker' = [worker EXCEPT !.pc = "upsert", !.unit = u,
                                          !.found = found, !.todo = found]
         \/ /\ Current.output = "extraction"
            /\ worker' = [worker EXCEPT !.pc = "extract", !.unit = u,
                                        !.base = inventory]
         \/ worker' = [worker EXCEPT !.pc = "progress", !.unit = u]
    /\ UNCHANGED <<table, docs, job, rep, events, aux>>

UpsertAfresh(f) == NewRow(Newest)                             \* mutant
\* UpsertDriftFinding: ON CONFLICT keeps the lifecycle.
Upserted(f) ==
    IF rows[f] = None THEN NewRow(Newest)
    ELSE [rows[f] EXCEPT !.run = Newest, !.live = TRUE]

Upsert ==
    /\ worker.pc = "upsert"
    /\ \E f \in worker.todo :
         /\ SetRows([rows EXCEPT ![f] = Upserted(f)])
         /\ worker' = [worker EXCEPT !.todo = @ \ {f}]
    /\ UNCHANGED <<runs, tracker, docs, job, rep, events, behind, shared,
                   produced>>

StaleAnyKind(f) == UnitOf(f) = worker.unit /\ f \notin worker.found  \* mutant
\* ResolveDriftFindingsExcept and ResolveGapFindingsExcept: this unit, the
\* recipe's kinds, what was not found again.
Stale(f) == f \in Checkable(worker.unit) \ worker.found

Reconcile ==
    /\ worker.pc = "upsert" /\ worker.todo = {}
    /\ SetRows([f \in Fp |-> IF rows[f] # None /\ Stale(f)
                             THEN [rows[f] EXCEPT !.live = FALSE]
                             ELSE rows[f]])
    /\ worker' = [worker EXCEPT !.pc = "progress"]
    /\ UNCHANGED <<runs, tracker, docs, job, rep, events, behind, shared,
                   produced>>

\* writeExtraction; a refused save fails the unit.
Extract ==
    /\ worker.pc = "extract"
    /\ IF SaveAccepted(inventory, worker.base)
       THEN inventory' = [text |-> IF inventory = None THEN Blank
                                   ELSE inventory.text, run |-> Newest]
       ELSE UNCHANGED inventory
    /\ worker' = [worker EXCEPT !.pc = "progress", !.base = None]
    /\ UNCHANGED <<table, landed, files, report, job, rep, events, aux>>

Progress ==
    /\ worker.pc = "progress"
    /\ worker' = [worker EXCEPT !.pc = "unit", !.scope = @ \ {worker.unit},
                                !.unit = None, !.found = {}]
    /\ StartReport("worker", FALSE)
    /\ UNCHANGED <<table, docs, job, events, aux>>

\* The scope is done, or a cancellation or the ceiling ended the run early.
Finish ==
    /\ worker.pc = "unit" /\ rep["worker"].pc = "idle"
    /\ runs' = [runs EXCEPT ![Newest].status =
                  IF worker.scope = {} THEN "ok" ELSE "stopped"]
    /\ worker' = [worker EXCEPT !.pc = "release"]
    /\ StartReport("worker", TRUE)
    /\ UNCHANGED <<rows, tracker, docs, job, events, aux>>

Release ==
    /\ worker.pc = "release" /\ rep["worker"].pc = "idle"
    /\ worker' = NoWork
    /\ UNCHANGED <<table, docs, job, rep, events, aux>>

-----------------------------------------------------------------------------
(* Requests about one finding                                              *)

\* A request reads the finding first; 404 when there is none.
BeginWith(a, f, pc, todo) ==
    /\ job[a].pc = "idle" /\ requests < MaxRequests /\ Budget /\ Room
    /\ rows[f] # None
    /\ requests' = requests + 1
    /\ shared' = IF \E b \in Actor : job[b].f = f THEN shared \cup {f}
                                                  ELSE shared
    /\ job' = [job EXCEPT ![a] = [NoJob EXCEPT !.pc = pc, !.f = f,
                                               !.row = rows[f], !.todo = todo]]
    /\ UNCHANGED <<table, docs, worker, rep, edits, overtaken, behind,
                   produced>>
Begin(a, f, pc) == BeginWith(a, f, pc, {})

F(a) == job[a].f
SetField(f, new) == SetRows([rows EXCEPT ![f] = new])

\* The last statement of a handler that changed the finding, then the refresh.
Settle(a, new) ==
    /\ SetField(F(a), new)
    /\ Goto(a, "report")
    /\ StartReport(a, FALSE)

\* postDriftDismiss: dismissing.
StartDismiss(a, f) == Begin(a, f, "dismiss")

DismissAndForget(a) ==                                        \* mutant
    /\ job[a].pc = "dismiss"
    /\ SetField(F(a), [rows[F(a)] EXCEPT !.status = "dismissed"])
    /\ Answer(a)
    /\ UNCHANGED <<runs, tracker, docs, worker, rep, events, behind, shared,
                   produced>>
Dismiss(a) ==
    /\ job[a].pc = "dismiss"
    /\ Settle(a, [rows[F(a)] EXCEPT !.status = "dismissed"])
    /\ UNCHANGED <<runs, tracker, docs, worker, events, behind, shared,
                   produced>>

\* postDriftDismiss: reopening drops the pointers, then the status.
StartReopen(a, f) == Begin(a, f, "drop_draft")

DropDraft(a) ==
    /\ job[a].pc = "drop_draft"
    /\ SetField(F(a), [rows[F(a)] EXCEPT !.draft = None])
    /\ produced' = [produced EXCEPT ![F(a)] = {}]
    /\ Goto(a, "drop_remedy")
    /\ UNCHANGED <<runs, tracker, docs, worker, rep, events, behind, shared>>
DropRemedy(a) ==
    /\ job[a].pc = "drop_remedy"
    /\ SetField(F(a), [rows[F(a)] EXCEPT !.remedy = None])
    /\ Goto(a, "drop_documents")
    /\ UNCHANGED <<runs, tracker, docs, worker, rep, events, behind, shared,
                   produced>>
DropDocuments(a) ==
    /\ job[a].pc = "drop_documents"
    /\ SetField(F(a), [rows[F(a)] EXCEPT !.documents = {}])
    /\ Goto(a, "reopen")
    /\ UNCHANGED <<runs, tracker, docs, worker, rep, events, behind, shared,
                   produced>>
Reopen(a) ==
    /\ job[a].pc = "reopen"
    /\ Settle(a, [rows[F(a)] EXCEPT !.status = "open"])
    /\ UNCHANGED <<runs, tracker, docs, worker, events, behind, shared,
                   produced>>

\* A document of the finding that is still on the branch.
Exists(p) == p # None /\ files[p] # None

\* postDriftDraft: an existing draft is answered as it is.
StartDraft(a, f) ==
    /\ rows[f] # None /\ Draftable(f) /\ ~Exists(rows[f].draft)
    /\ Begin(a, f, "draft")

\* The model drafts; a path that is taken is 409.
WriteDraft(a) ==
    /\ job[a].pc = "draft"
    /\ \/ \E p \in Path :
            /\ files[p] = None
            /\ files' = [files EXCEPT ![p] = Fresh]
            /\ job' = [job EXCEPT ![a].pc = "set_draft", ![a].path = p]
       \/ Answer(a) /\ UNCHANGED files
    /\ UNCHANGED <<table, landed, report, inventory, worker, rep, events, aux>>

Produces(f, ps) == produced' = [produced EXCEPT ![f] = @ \cup (ps \cap Present)]

SetDraft(a) ==
    /\ job[a].pc = "set_draft"
    /\ Settle(a, [rows[F(a)] EXCEPT !.draft = job[a].path])
    /\ Produces(F(a), {job[a].path})
    /\ UNCHANGED <<runs, tracker, docs, worker, events, behind, shared>>

\* postDriftRemedy: an existing remedy is answered as it is.
StartRemedy(a, f) ==
    /\ rows[f] # None /\ ~Exists(rows[f].remedy)
    /\ Begin(a, f, "remedy")

\* The affected document: the one drafted for the finding, or audited.
Affected(a) == IF job[a].row.draft # None THEN job[a].row.draft
                                        ELSE DocPath[F(a)]

\* Either document may carry the typed link, or neither, by the link types.
WriteRemedy(a) ==
    /\ job[a].pc = "remedy"
    /\ \/ \E p \in Path \ Requirement, side \in {"remedy", "target", "none"} :
            /\ files[p] = None
            /\ side # "none" => Exists(Affected(a))
            /\ files' = [files EXCEPT ![p] =
                  [Fresh EXCEPT !.links = IF side = "remedy" THEN {Affected(a)}
                                                             ELSE {}]]
            /\ job' = [job EXCEPT ![a] = [@ EXCEPT
                  !.path = p, !.link = p, !.next = "set_remedy",
                  !.pc = IF side = "target" THEN "link" ELSE "set_remedy"]]
       \/ Answer(a) /\ UNCHANGED files
    /\ UNCHANGED <<table, landed, report, inventory, worker, rep, events, aux>>

SetRemedy(a) ==
    /\ job[a].pc = "set_remedy"
    /\ Settle(a, [rows[F(a)] EXCEPT !.remedy = job[a].path])
    /\ Produces(F(a), {job[a].path})
    /\ UNCHANGED <<runs, tracker, docs, worker, events, behind, shared>>

\* The document a link is appended to: a remedy's target, or the document a
\* filed finding is about.
LinkDoc(a) == IF job[a].next = "set_remedy" THEN Affected(a)
              ELSE IF DocPath[F(a)] # None THEN DocPath[F(a)]
              ELSE job[a].row.draft

\* After the link: the remedy is recorded, or the filing ends.
AfterLink(a) ==
    IF job[a].next = "set_remedy"
    THEN Goto(a, "set_remedy") /\ UNCHANGED rep
    ELSE Goto(a, "report") /\ StartReport(a, FALSE)

\* AppendListItem after repo.File: nothing to do when it is there already.
ReadLinked(a) ==
    /\ job[a].pc = "link"
    /\ IF Exists(LinkDoc(a)) /\ job[a].link \notin files[LinkDoc(a)].links
       THEN /\ job' = [job EXCEPT ![a].pc = "save_link",
                                  ![a].base = files[LinkDoc(a)]]
            /\ UNCHANGED rep
       ELSE AfterLink(a)
    /\ UNCHANGED <<table, docs, worker, events, aux>>

SaveLink(a) ==
    /\ job[a].pc = "save_link"
    /\ IF SaveAccepted(files[LinkDoc(a)], job[a].base)
       THEN files' = [files EXCEPT ![LinkDoc(a)] =
                [job[a].base EXCEPT !.links = @ \cup {job[a].link}]]
       ELSE UNCHANGED files
    /\ AfterLink(a)
    /\ UNCHANGED <<table, landed, report, inventory, worker, events, aux>>

\* postDriftCreate of a planned set of documents.
StartCreate(a, f) ==
    /\ job[a].pc = "idle" /\ rows[f] # None
    /\ \E plan \in (SUBSET Path) \ {{}} : BeginWith(a, f, "create", plan)

\* One of them: it exists already, the model fails it, or it is written.
CreateOne(a) ==
    /\ job[a].pc = "create"
    /\ \E p \in job[a].todo :
         \/ /\ files[p] = None
            /\ files' = [files EXCEPT ![p] = Fresh]
            /\ job' = [job EXCEPT ![a].todo = @ \ {p}, ![a].made = @ \cup {p}]
         \/ /\ job' = [job EXCEPT ![a].todo = @ \ {p}]
            /\ UNCHANGED files
    /\ UNCHANGED <<table, landed, report, inventory, worker, rep, events, aux>>

\* What the handler read of the finding, and what it created.
RecordWith(a) == job[a].row.documents \cup job[a].made

\* SetDriftFindingDocuments; 502 when nothing could be created.
Record(a) ==
    /\ job[a].pc = "create" /\ job[a].todo = {}
    /\ IF job[a].made = {}
       THEN Answer(a) /\ UNCHANGED <<rows, overtaken, produced>>
       ELSE /\ SetField(F(a), [rows[F(a)] EXCEPT !.documents = RecordWith(a)])
            /\ Produces(F(a), job[a].made)
            /\ Goto(a, "point_draft")
    /\ UNCHANGED <<runs, tracker, docs, worker, rep, events, behind, shared>>

\* The single-document pointers, when the finding had none.
PointDraft(a) ==
    /\ job[a].pc = "point_draft"
    /\ LET made == job[a].made \cap Requirement IN
       IF job[a].row.draft = None /\ made # {}
       THEN \E p \in made :
              SetField(F(a), [rows[F(a)] EXCEPT !.draft = p])
       ELSE UNCHANGED <<rows, overtaken>>
    /\ Goto(a, "point_remedy")
    /\ UNCHANGED <<runs, tracker, docs, worker, rep, events, behind, shared,
                   produced>>

PointRemedy(a) ==
    /\ job[a].pc = "point_remedy"
    /\ LET made == job[a].made \ Requirement IN
       IF job[a].row.remedy = None /\ made # {}
       THEN \E p \in made :
              SetField(F(a), [rows[F(a)] EXCEPT !.remedy = p])
       ELSE UNCHANGED <<rows, overtaken>>
    /\ Goto(a, "report")
    /\ StartReport(a, FALSE)
    /\ UNCHANGED <<runs, tracker, docs, worker, events, behind, shared,
                   produced>>

\* postDriftFile to one of the targets: the item there that carries the
\* marker, or a new one.
StartFile(a, f) ==
    /\ job[a].pc = "idle" /\ rows[f] # None
    /\ \E t \in Target : BeginWith(a, f, "find", {t})

TheTarget(a) == CHOOSE t \in job[a].todo : TRUE

TallyOf(a) == tracker[F(a)][TheTarget(a)]
SetTally(a, new) == tracker' = [tracker EXCEPT ![F(a)][TheTarget(a)] = new]

FindNothing(f, t) == {}                                       \* mutant
Marked(f, t) == 1..tracker[f][t].items

Found(a, n) == job' = [job EXCEPT ![a].pc = "set_filed",
                                  ![a].link = <<F(a), TheTarget(a), n>>]

\* The search reads one page of what carries the drift label: an item that
\* newer ones have pushed off it (or whose index lags) is not shown.  A lookup
\* that fails is answered 502.
FindItem(a) ==
    /\ job[a].pc = "find"
    /\ LET items == Marked(F(a), TheTarget(a)) IN
         \/ (\E n \in items : Found(a, n)) /\ UNCHANGED tracker
         \/ items = {} /\ Goto(a, "create_item") /\ UNCHANGED tracker
         \/ /\ items # {} /\ Goto(a, "create_item")
            /\ SetTally(a, [TallyOf(a) EXCEPT !.missed = @ + 1])
         \/ Answer(a) /\ UNCHANGED tracker
    /\ UNCHANGED <<rows, runs, docs, worker, rep, events, aux>>

\* The tracker creates it, refuses, or creates it and the answer is lost.
CreateItem(a) ==
    /\ job[a].pc = "create_item"
    /\ \/ /\ SetTally(a, [TallyOf(a) EXCEPT !.items = @ + 1])
          /\ Found(a, TallyOf(a).items + 1) \/ Answer(a)
       \/ Answer(a) /\ UNCHANGED tracker
    /\ UNCHANGED <<rows, runs, docs, worker, rep, events, aux>>

\* FileDriftFinding, then the backlink.
SetFiled(a) ==
    /\ job[a].pc = "set_filed"
    /\ SetField(F(a), [rows[F(a)] EXCEPT !.status = "filed",
                              !.item = <<TheTarget(a), job[a].link[3]>>])
    /\ Goto(a, "link")
    /\ UNCHANGED <<runs, tracker, docs, worker, rep, events, behind, shared,
                   produced>>

-----------------------------------------------------------------------------
(* Humans and crashes                                                      *)

Human == /\ edits < MaxEdits /\ Budget /\ edits' = edits + 1
         /\ UNCHANGED requests

EditDocument(p) ==
    /\ Human /\ files[p] # None
    /\ \E t \in Text \ {files[p].text} : files' = [files EXCEPT ![p].text = t]
    /\ UNCHANGED <<table, landed, report, inventory, worker, job, rep, aux>>

CreateDocument(p) ==
    /\ Human /\ files[p] = None
    /\ files' = [files EXCEPT ![p] = Fresh]
    /\ UNCHANGED <<table, landed, report, inventory, worker, job, rep, aux>>

DeleteDocument(p) ==
    /\ Human /\ files[p] # None
    /\ files' = [files EXCEPT ![p] = None]
    /\ produced' = [f \in Fp |-> produced[f] \ {p}]
    /\ UNCHANGED <<table, landed, report, inventory, worker, job, rep,
                   overtaken, behind, shared>>

EditReport ==
    /\ Human /\ report # None
    /\ \E t \in Text \ {report.text} : report' = [report EXCEPT !.text = t]
    /\ UNCHANGED <<table, landed, files, inventory, worker, job, rep, aux>>

EditInventory ==
    /\ Human /\ inventory # None
    /\ \E t \in Text \ {inventory.text} : inventory' = [inventory EXCEPT !.text = t]
    /\ UNCHANGED <<table, landed, files, report, worker, job, rep, aux>>

\* The workspace lands on the protected branch.
Land ==
    /\ Human /\ Protected /\ landed # Present
    /\ landed' = Present
    /\ UNCHANGED <<table, files, report, inventory, worker, job, rep, aux>>

\* The process dies; at boot the running row is closed as interrupted.
Crash ==
    /\ Human
    /\ worker' = NoWork
    /\ job' = [a \in Actor |-> NoJob] /\ rep' = [p \in Proc |-> NoRep]
    /\ runs' = IF Running THEN [runs EXCEPT ![Newest].status = "stopped"] ELSE runs
    /\ overtaken' = {} /\ behind' = TRUE
    /\ UNCHANGED <<rows, tracker, docs, shared, produced>>

-----------------------------------------------------------------------------
WorkerStep == \/ Retire \/ CheckUnit \/ Upsert \/ Reconcile \/ Extract
              \/ Progress \/ Finish \/ Release

ReportStep(p) == ReportRows(p) \/ ReportFile(p) \/ ReportSave(p)

Start(a, f) == \/ StartDismiss(a, f) \/ StartReopen(a, f) \/ StartDraft(a, f)
               \/ StartRemedy(a, f) \/ StartCreate(a, f) \/ StartFile(a, f)

Handle(a) ==
    \/ ClaimRun(a) \/ Dismiss(a)
    \/ DropDraft(a) \/ DropRemedy(a) \/ DropDocuments(a) \/ Reopen(a)
    \/ WriteDraft(a) \/ SetDraft(a) \/ WriteRemedy(a) \/ SetRemedy(a)
    \/ ReadLinked(a) \/ SaveLink(a)
    \/ CreateOne(a) \/ Record(a) \/ PointDraft(a) \/ PointRemedy(a)
    \/ FindItem(a) \/ CreateItem(a) \/ SetFiled(a)

Edit == \/ \E p \in Path : EditDocument(p) \/ CreateDocument(p)
                                           \/ DeleteDocument(p)
        \/ EditReport \/ EditInventory \/ Land

Next == \/ WorkerStep
        \/ \E p \in Proc : ReportStep(p)
        \/ \E a \in Actor, f \in Fp : Start(a, f)
        \/ \E a \in Actor : RequestRun(a) \/ Handle(a)
        \/ Edit \/ Crash

Spec == Init /\ [][Next]_vars

-----------------------------------------------------------------------------
(* Properties                                                              *)

\* Every variable keeps its type: rows are whole findings, files hold text
\* and links, locals name findings and documents that can exist.
TypeOK ==
    /\ rows \in [Fp -> Row \cup {None}]
    /\ landed \subseteq Path
    /\ files \in [Path -> File \cup {None}]
    /\ report = None \/ report \in Report
    /\ inventory = None \/ inventory \in Inventory
    /\ runs \in Seq(Run)
    /\ tracker \in [Fp -> [Target -> Tally]]
    /\ worker.todo \subseteq Fp /\ worker.scope \subseteq Path \cup {Source}
    /\ \A a \in Actor : job[a].f \in Fp \cup {None}
    /\ requests \in 0..MaxRequests /\ edits \in 0..MaxEdits /\ behind \in BOOLEAN
    /\ shared \subseteq Fp /\ produced \in [Fp -> SUBSET Path]

\* Lifecycle survives re-runs (UpsertDriftFinding): whatever a run finds,
\* no longer finds or retires, between whatever requests, it leaves what users
\* did with a finding as it was, and never deletes one.
Triage(row) == IF row = None THEN None
               ELSE <<row.status, row.draft, row.remedy, row.documents, row.item>>
TriageSurvives ==
    [][worker' # worker => \A f \in Fp :
          rows[f] # None => Triage(rows'[f]) = Triage(rows[f])]_vars

\* What the engine writes into a document others write too (the report, an
\* inventory, a link in front matter) never takes a human's text or another
\* link with it: read, merge and compare-and-swap keep concurrent edits.
EditsSurvive ==
    [][/\ edits' = edits =>
            /\ report # None => report' # None /\ report'.text = report.text
            /\ inventory # None => inventory' # None
                                   /\ inventory'.text = inventory.text
            /\ \A p \in Path : files[p] # None =>
                  files'[p] # None /\ files'[p].text = files[p].text
       /\ \A p \in Path : files[p] # None /\ files'[p] # None =>
            files[p].links \subseteq files'[p].links]_vars

\* The run log accumulates (extractRunLog, appendLog): a run adds its line
\* once, when it finishes, and no refresh drops or repeats a line.
RunLogAccumulates ==
    [][report # None /\ report' # None =>
          report'.log \in {report.log} \cup
              IF Contains(report.log, Newest) THEN {}
              ELSE {Append(report.log, Newest)}]_vars

\* A finding leaves the list only through a run that owns its kind, or that
\* found its document gone: two recipes that audit one document do not
\* resolve each other's findings, and a scoped run none it did not re-check.
OwnersResolve ==
    \A f \in Fp : rows[f] # None /\ ~rows[f].live =>
       \E r \in rows[f].run + 1 .. Newest :
          \/ f \in Owned(runs[r].recipe)
          \/ DocPath[f] \notin runs[r].snap \cup {None}

\* The report tracks the workflow: with nothing in flight it shows every live
\* finding with its status, unless its last write was lost or overtaken.
Quiet == worker.pc = "idle" /\ \A a \in Actor : job[a].pc = "idle"
ReportTracks ==
    Quiet /\ report # None /\ ~behind => report.shown = Visible

\* One marker, one work item, across retries, lost answers and restarts, as
\* long as no two requests about the finding overlap (postDriftFile): every
\* further item is owed to a search that did not show the one there was.
FiledOnce ==
    \A f \in Fp \ shared, t \in Target :
       tracker[f][t].items <= 1 + tracker[f][t].missed

\* Every document a request created for a finding stays reachable from it, as
\* long as nobody deletes it (SetDriftFindingDraft, Remedy, Documents) and no
\* two requests about the finding overlap.
ProducedRecorded ==
    \A f \in Fp \ shared :
       rows[f] # None => produced[f] \subseteq
          {rows[f].draft, rows[f].remedy} \cup rows[f].documents

\* Types, which runs a finding can have left the list through, and nothing it
\* led to forgotten.
FindingInv == TypeOK /\ OwnersResolve /\ ProducedRecorded
=============================================================================
