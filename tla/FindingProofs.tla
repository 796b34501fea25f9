--------------------------- MODULE FindingProofs ---------------------------
(* What the log of a report and its findings say, what is filed and what a  *)
(* finding led to, for any findings, documents, recipes, targets and        *)
(* requests, and any order of their steps, the worker's, edits and crashes. *)
EXTENDS Finding, TLAPS

(* What the locals of a handler, of a report's writer and of the worker are. *)

Links == Path \cup (Fp \X Target \X Nat)

About == {"dismiss", "drop_draft", "drop_remedy", "drop_documents", "reopen", "draft",
          "set_draft", "remedy", "link", "save_link", "set_remedy", "create",
          "point_draft", "point_remedy", "find", "create_item", "set_filed", "report"}

Job == [pc : About \cup {"idle", "claim"}, f : Fp \cup {None}, row : Row \cup {None},
        todo : SUBSET (Path \cup Target), made : SUBSET Path, path : Path \cup {None},
        link : Links \cup {None}, base : File \cup {None}, next : {"idle", "set_remedy"}]

Rep == {r \in [pc : {"idle", "rows", "file", "save"}, final : BOOLEAN,
               shown : Shown \cup {None}, base : Report \cup {None}] :
          r.pc \in {"file", "save"} => r.shown \in Shown}

Work == [pc : {"idle", "retire", "unit", "upsert", "extract", "progress", "release"},
         scope : SUBSET (Path \cup {Source}), unit : Path \cup {Source, None},
         found : SUBSET Fp, todo : SUBSET Fp, base : Inventory \cup {None}]

Types == /\ TypeOK
         /\ job \in [Actor -> Job] /\ rep \in [Proc -> Rep] /\ worker \in Work
         /\ overtaken \subseteq Proc /\ Newest > 0

\* What a handler has read and chosen by the time it comes to a statement.
JobOK(j) ==
    /\ j.pc \in About => j.f \in Fp /\ rows[j.f] # None /\ j.row \in Row
    /\ j.pc \in {"claim", "create"} => j.todo \subseteq Path
    /\ j.pc \in {"find", "create_item", "set_filed"} =>
          j.next = "idle" /\ \E t \in Target : j.todo = {t}
    /\ j.pc \in {"set_draft", "set_remedy"} => j.path \in Path
    /\ j.pc \in {"link", "save_link"} =>
          j.link \in Links /\ (j.next = "set_remedy" => j.path \in Path)
    /\ j.pc = "save_link" => j.base \in File
    /\ j.pc = "set_filed" => j.link \in Fp \X Target \X Nat

JobsOK == \A a \in Actor : JobOK(job[a])

(* The worker *)

\* The run is under way.
Active == worker.pc \in {"retire", "unit", "upsert", "extract", "progress"}

\* Who writes a report is at the end of what it did; only the worker's last
\* report ends the run's log.
WritersOK ==
    /\ Active <=> Running
    /\ rep["worker"].pc # "idle" => worker.pc \in {"unit", "release"}
    /\ rep["worker"].pc # "idle" /\ rep["worker"].final => worker.pc = "release"
    /\ \A a \in Actor : /\ rep[a].pc # "idle" <=> job[a].pc = "report"
                        /\ ~rep[a].final

\* What the run stored so far belongs to the units it is done with, or to the
\* one it works on.
StoredOK ==
    /\ \A f \in Fp : rows[f] # None => rows[f].run <= Newest
    /\ worker.pc = "upsert" => /\ worker.unit \in worker.scope
                               /\ worker.todo \subseteq worker.found
                               /\ worker.found \subseteq Checkable(worker.unit)
    /\ Active => \A f \in Fp : rows[f] # None /\ rows[f].run = Newest =>
          /\ worker.pc # "retire"
          /\ UnitOf(f) \in worker.scope =>
                worker.pc \in {"upsert", "progress"} /\ UnitOf(f) = worker.unit
                /\ f \in worker.found

\* The log names runs that ended, each by its last report.
LogOK ==
    report # None => \A i \in 1..Len(report.log) :
        /\ report.log[i] <= Newest
        /\ report.log[i] = Newest =>
              ~Active /\ ~(rep["worker"].pc # "idle" /\ rep["worker"].final)

(* The report *)

\* Whoever still writes a report, after what it changed.
Owes(a) == job[a].pc \in {"drop_remedy", "drop_documents", "reopen", "link", "save_link",
                          "set_remedy", "point_draft", "point_remedy", "report"}
WorkerOwes == Active \/ (worker.pc = "release" /\ rep["worker"].pc # "idle")

\* Rows that were read are those there are, or somebody was overtaken; and a
\* report that is not up to date is owed.
ReportOK ==
    /\ \A p \in Proc \ overtaken : rep[p].pc \in {"file", "save"} => rep[p].shown = Visible
    /\ report # None /\ ~behind =>
          report.shown = Visible \/ WorkerOwes \/ \E a \in Actor : Owes(a)

(* Requests about one finding *)

\* Two requests about one finding at once are on record.
AloneOK ==
    \A a, b \in Actor : a # b /\ job[a].pc \in About /\ job[b].pc \in About
        /\ job[a].f = job[b].f => job[a].f \in shared

\* Who looked for the marker and was shown none creates the first item, or one
\* for a search that missed it.
Spare(t) == t.items <= t.missed
FiledOK ==
    \A a \in Actor : job[a].pc = "create_item" /\ job[a].f \notin shared =>
        Spare(tracker[job[a].f][TheTarget(a)])

\* What a handler overwrites in the row, no document that is there hangs on;
\* what it read of the row is still in it.
KeepsOK(j) ==
    LET row == rows[j.f] IN
    /\ j.pc \in {"draft", "set_draft"} => row.draft \notin produced[j.f]
    /\ j.pc \in {"remedy", "set_remedy"} \/ (j.pc \in {"link", "save_link"} /\ j.next = "set_remedy")
          => row.remedy \notin produced[j.f]
    /\ j.pc = "create" => j.row.documents = row.documents
    /\ j.pc \in {"create", "point_draft"} => j.row.draft = row.draft
    /\ j.pc \in {"create", "point_draft", "point_remedy"} => j.row.remedy = row.remedy
    /\ j.pc \in {"drop_remedy", "drop_documents", "reopen"} => produced[j.f] = {}

ProducedOK ==
    /\ \A f \in Fp : produced[f] \subseteq Present /\ (rows[f] = None => produced[f] = {})
    /\ \A a \in Actor : job[a].pc \in About /\ job[a].f \notin shared => KeepsOK(job[a])
    /\ ProducedRecorded

FindingIInv == /\ Types /\ JobsOK /\ WritersOK /\ StoredOK /\ OwnersResolve /\ LogOK
               /\ ReportOK /\ AloneOK /\ FiledOK /\ FiledOnce /\ ProducedOK

-----------------------------------------------------------------------------
(* Constants and records                                                   *)

\* None is no document, text or link, and documents are no sources.
LEMMA Nones ==
  /\ None \notin Path /\ None \notin Text /\ Source \notin Path /\ None \notin Row
  /\ None \notin File /\ None \notin Report /\ None \notin Inventory
  /\ DocPath \in [Fp -> Path \cup {None}] /\ Kind \in [Fp -> STRING]
  /\ Requirement \subseteq Path /\ "worker" \notin Actor
  BY ConstantsAssumption, NoneAssumption DEF ConstantsAssumption, NoneAssumption

\* A human's text exists.
LEMMA BlankIs == Blank \in Text
  BY ConstantsAssumption DEF ConstantsAssumption, Blank

\* A fresh document has no links.
LEMMA FreshIs == Fresh \in File /\ Fresh # None /\ Fresh.links = {} /\ Fresh.text \in Text
  BY BlankIs, Nones DEF Fresh, File

\* A handler that rests.
LEMMA NoJobIs ==
  /\ NoJob \in Job /\ NoJob.pc = "idle" /\ NoJob.f = None /\ NoJob.next = "idle"
  /\ NoJob.made = {} /\ NoJob.todo = {}
  BY DEF NoJob, Job, About

\* A report nobody writes.
LEMMA NoRepIs == NoRep \in Rep /\ NoRep.pc = "idle" /\ NoRep.final = FALSE
  BY DEF NoRep, Rep

\* A worker that rests.
LEMMA NoWorkIs ==
  NoWork \in Work /\ NoWork.pc = "idle" /\ NoWork.scope = {} /\ NoWork.todo = {}
  BY DEF NoWork, Work

\* What a run inserts.
LEMMA NewRowIs ==
  ASSUME NEW n \in Nat
  PROVE  /\ NewRow(n) \in Row /\ NewRow(n) # None /\ NewRow(n).run = n /\ NewRow(n).live
         /\ NewRow(n).status = "open" /\ NewRow(n).draft = None /\ NewRow(n).remedy = None
         /\ NewRow(n).documents = {} /\ NewRow(n).item = None
<1>1. NewRow(n) \in Row
  BY DEF NewRow, Row, Status
<1> QED  BY <1>1, Nones DEF NewRow

-----------------------------------------------------------------------------
(* What a step does to the requests and to the reports they write           *)

Others(a) == \A b \in Actor : b # a => job'[b] = job[b]
OtherReps(p) == \A q \in Proc : q # p => rep'[q] = rep[q]

\* What a handler has in hand, but for the place where it is.
Holds(a) == /\ job'[a].f = job[a].f /\ job'[a].row = job[a].row
            /\ job'[a].todo = job[a].todo /\ job'[a].made = job[a].made
            /\ job'[a].path = job[a].path /\ job'[a].link = job[a].link
            /\ job'[a].base = job[a].base /\ job'[a].next = job[a].next

\* A handler that goes on leaves the others where they are.
LEMMA SetJob ==
  ASSUME job \in [Actor -> Job], NEW a \in Actor, NEW new \in Job, job' = [job EXCEPT ![a] = new]
  PROVE  job' \in [Actor -> Job] /\ job'[a] = new /\ Others(a)
  BY DEF Others

\* A handler that goes on keeps what it has in hand.
LEMMA GotoIs ==
  ASSUME job \in [Actor -> Job], NEW a \in Actor, NEW pc \in About, Goto(a, pc)
  PROVE  /\ job' \in [Actor -> Job] /\ Others(a) /\ Holds(a) /\ job'[a].pc = pc
<1> DEFINE new == [job[a] EXCEPT !.pc = pc]
<1>1. job[a] \in Job
  OBVIOUS
<1>2. /\ new \in Job /\ new.pc = pc /\ new.f = job[a].f /\ new.row = job[a].row
      /\ new.todo = job[a].todo /\ new.made = job[a].made /\ new.path = job[a].path
      /\ new.link = job[a].link /\ new.base = job[a].base /\ new.next = job[a].next
  BY <1>1 DEF Job
<1>3. job' = [job EXCEPT ![a] = new]
  BY DEF Goto
<1> HIDE DEF new
<1>4. job' \in [Actor -> Job] /\ job'[a] = new /\ Others(a)
  BY <1>2, <1>3, SetJob
<1> QED  BY <1>2, <1>4 DEF Holds

\* A handler that answered has nothing in hand.
LEMMA AnswerIs ==
  ASSUME job \in [Actor -> Job], NEW a \in Actor, Answer(a)
  PROVE  /\ job' \in [Actor -> Job] /\ Others(a) /\ job'[a] = NoJob /\ job'[a].pc = "idle"
<1>1. job' = [job EXCEPT ![a] = NoJob]
  BY DEF Answer
<1>2. job' \in [Actor -> Job] /\ job'[a] = NoJob /\ Others(a)
  BY <1>1, NoJobIs, SetJob
<1> QED  BY <1>2, NoJobIs

\* A request begins with the finding as it is.
LEMMA BeginIs ==
  ASSUME job \in [Actor -> Job], rows \in [Fp -> Row \cup {None}], NEW a \in Actor, NEW f \in Fp,
         NEW pc \in About, NEW todo \in SUBSET (Path \cup Target), BeginWith(a, f, pc, todo)
  PROVE  /\ job' \in [Actor -> Job] /\ Others(a) /\ job[a].pc = "idle"
         /\ job'[a].pc = pc /\ job'[a].f = f /\ job'[a].row = rows[f] /\ job'[a].todo = todo
         /\ job'[a].made = {} /\ job'[a].next = "idle" /\ rows[f] # None
<1> DEFINE new == [NoJob EXCEPT !.pc = pc, !.f = f, !.row = rows[f], !.todo = todo]
<1>1. /\ new \in Job /\ new.pc = pc /\ new.f = f /\ new.row = rows[f] /\ new.todo = todo
      /\ new.made = {} /\ new.next = "idle"
  BY NoJobIs DEF Job
<1>2. job' = [job EXCEPT ![a] = new] /\ rows[f] # None /\ job[a].pc = "idle"
  BY DEF BeginWith
<1> HIDE DEF new
<1>3. job' \in [Actor -> Job] /\ job'[a] = new /\ Others(a)
  BY <1>1, <1>2, SetJob
<1> QED  BY <1>1, <1>2, <1>3

\* A report's writer that goes on leaves the others where they are.
LEMMA SetRep ==
  ASSUME rep \in [Proc -> Rep], NEW p \in Proc, NEW new \in Rep, rep' = [rep EXCEPT ![p] = new]
  PROVE  rep' \in [Proc -> Rep] /\ rep'[p] = new /\ OtherReps(p)
  BY DEF OtherReps

\* Writing a report begins with reading the rows.
LEMMA StartReportIs ==
  ASSUME rep \in [Proc -> Rep], NEW p \in Proc, NEW final \in BOOLEAN, StartReport(p, final)
  PROVE  /\ rep' \in [Proc -> Rep] /\ OtherReps(p)
         /\ rep'[p].pc = "rows" /\ rep'[p].final = final
<1> DEFINE new == [NoRep EXCEPT !.pc = "rows", !.final = final]
<1>1. new \in Rep /\ new.pc = "rows" /\ new.final = final
  BY NoRepIs DEF Rep
<1>2. rep' = [rep EXCEPT ![p] = new]
  BY DEF StartReport
<1> HIDE DEF new
<1>3. rep' \in [Proc -> Rep] /\ rep'[p] = new /\ OtherReps(p)
  BY <1>1, <1>2, SetRep
<1> QED  BY <1>1, <1>3

\* A report that was written, or dropped, is over.
LEMMA RepOverIs ==
  ASSUME rep \in [Proc -> Rep], NEW p \in Proc, rep' = [rep EXCEPT ![p] = NoRep]
  PROVE  /\ rep' \in [Proc -> Rep] /\ OtherReps(p)
         /\ rep'[p].pc = "idle" /\ rep'[p].final = FALSE
<1>1. rep' \in [Proc -> Rep] /\ rep'[p] = NoRep /\ OtherReps(p)
  BY NoRepIs, SetRep
<1> QED  BY <1>1, NoRepIs

-----------------------------------------------------------------------------
(* What the handler of a finding does, whichever it is                     *)

OnlyRow(f) == \A g \in Fp : g # f => rows'[g] = rows[g]

\* The rows there are stay, and so does what the runs know of them.
SameRuns == \A f \in Fp : /\ rows'[f] = None <=> rows[f] = None
                          /\ rows[f] # None => /\ rows'[f].run = rows[f].run
                                               /\ rows'[f].live = rows[f].live

\* A handler goes on with its finding or answers.  When it changes the row,
\* whoever read rows is overtaken and it owes a report.
Serves(a) ==
    /\ job[a].pc \in About \ {"report"} /\ Others(a)
    /\ job' \in [Actor -> Job] /\ rep' \in [Proc -> Rep]
    /\ rows' \in [Fp -> Row \cup {None}] /\ overtaken' \subseteq Proc
    /\ \/ job'[a] = NoJob
       \/ job'[a].pc \in About /\ job'[a].f = job[a].f /\ job'[a].row = job[a].row
    /\ JobOK(job[a])'
    /\ SameRuns /\ OnlyRow(F(a))
    /\ \/ rep' = rep /\ job'[a].pc # "report"
       \/ job'[a].pc = "report" /\ OtherReps(a) /\ rep'[a].pc = "rows" /\ ~rep'[a].final
    /\ \/ rows' = rows /\ overtaken' = overtaken /\ (Owes(a) => Owes(a)')
       \/ overtaken' = overtaken \cup Reported /\ Owes(a)'
    /\ UNCHANGED <<runs, worker, report, landed, inventory, behind, shared, requests, edits>>

\* The finding a handler is about exists.
LEMMA AboutIs ==
  ASSUME Types, JobsOK, NEW a \in Actor, job[a].pc \in About
  PROVE  /\ job[a] \in Job /\ F(a) \in Fp /\ rows[F(a)] \in Row /\ rows[F(a)] # None
         /\ job[a].f = F(a) /\ job[a].row \in Row
<1>1. job[a] \in Job /\ JobOK(job[a])
  BY DEF Types, JobsOK
<1>2. job[a].f \in Fp /\ rows[job[a].f] # None /\ job[a].row \in Row
  BY <1>1 DEF JobOK
<1>3. rows[job[a].f] \in Row \cup {None}
  BY <1>2 DEF Types, TypeOK
<1> QED  BY <1>1, <1>2, <1>3 DEF F

\* Writing one row changes no other, and overtakes the readers.
LEMMA SetFieldIs ==
  ASSUME Types, NEW f \in Fp, rows[f] \in Row, NEW new \in Row, SetField(f, new),
         new.run = rows[f].run, new.live = rows[f].live
  PROVE  /\ rows' \in [Fp -> Row \cup {None}] /\ rows'[f] = new
         /\ OnlyRow(f) /\ SameRuns
         /\ overtaken' = overtaken \cup Reported /\ overtaken' \subseteq Proc
<1>1. rows' = [rows EXCEPT ![f] = new] /\ overtaken' = overtaken \cup Reported
  BY DEF SetField, SetRows
<1>2. rows \in [Fp -> Row \cup {None}] /\ overtaken \subseteq Proc
  BY DEF Types, TypeOK
<1>3. rows' \in [Fp -> Row \cup {None}] /\ rows'[f] = new /\ OnlyRow(f)
  BY <1>1, <1>2 DEF OnlyRow
<1>4. new # None /\ rows[f] # None
  BY Nones
<1>5. SameRuns
  BY <1>3, <1>4 DEF SameRuns, OnlyRow
<1>6. Reported \subseteq Proc
  BY DEF Reported
<1> QED  BY <1>1, <1>2, <1>3, <1>5, <1>6

\* Rows that stay as they are.
LEMMA RowsStay == rows' = rows => SameRuns /\ \A f \in Fp : OnlyRow(f)
  BY DEF SameRuns, OnlyRow

\* The last statement of a handler, and then the report.
LEMMA SettleIs ==
  ASSUME Types, JobsOK, NEW a \in Actor, job[a].pc \in About \ {"report"},
         NEW new \in Row, new.run = rows[F(a)].run, new.live = rows[F(a)].live,
         Settle(a, new), UNCHANGED <<runs, docs, worker, events, behind, shared>>
  PROVE  Serves(a) /\ Holds(a) /\ job'[a].pc = "report" /\ rows'[F(a)] = new
<1>1. F(a) \in Fp /\ rows[F(a)] \in Row /\ job[a].f = F(a) /\ job[a].row \in Row
  BY AboutIs
<1>2. SetField(F(a), new) /\ Goto(a, "report") /\ StartReport(a, FALSE)
  BY DEF Settle
<1>3. /\ rows' \in [Fp -> Row \cup {None}] /\ rows'[F(a)] = new
      /\ OnlyRow(F(a)) /\ SameRuns
      /\ overtaken' = overtaken \cup Reported /\ overtaken' \subseteq Proc
  BY <1>1, <1>2, SetFieldIs
<1>4. /\ job' \in [Actor -> Job] /\ Others(a) /\ Holds(a) /\ job'[a].pc = "report"
  BY <1>2, GotoIs DEF Types, About
<1>5. /\ rep' \in [Proc -> Rep] /\ OtherReps(a) /\ rep'[a].pc = "rows" /\ ~rep'[a].final
  BY <1>2, StartReportIs DEF Types, Proc
<1>6. JobOK(job[a])'
  BY <1>1, <1>3, <1>4, Nones DEF JobOK, Holds
<1>7. Owes(a)'
  BY <1>4 DEF Owes
<1> QED  BY <1>1, <1>3, <1>4, <1>5, <1>6, <1>7 DEF Serves, Holds, About, docs, events

\* One statement of several: the handler goes on.
LEMMA PassIs ==
  ASSUME Types, JobsOK, NEW a \in Actor, job[a].pc \in About \ {"report"},
         NEW to \in {"drop_remedy", "drop_documents", "reopen", "point_draft", "point_remedy", "link"},
         to = "link" => job[a].link \in Links /\ job[a].next = "idle",
         NEW new \in Row, new.run = rows[F(a)].run, new.live = rows[F(a)].live,
         SetField(F(a), new), Goto(a, to),
         UNCHANGED <<runs, docs, worker, rep, events, behind, shared>>
  PROVE  Serves(a) /\ Holds(a) /\ job'[a].pc = to /\ rows'[F(a)] = new
<1>1. F(a) \in Fp /\ rows[F(a)] \in Row /\ job[a].f = F(a) /\ job[a].row \in Row
  BY AboutIs
<1>3. /\ rows' \in [Fp -> Row \cup {None}] /\ rows'[F(a)] = new
      /\ OnlyRow(F(a)) /\ SameRuns
      /\ overtaken' = overtaken \cup Reported /\ overtaken' \subseteq Proc
  BY <1>1, SetFieldIs
<1>4. to \in About /\ to # "report"
  BY DEF About
<1>5. /\ job' \in [Actor -> Job] /\ Others(a) /\ Holds(a) /\ job'[a].pc = to
  BY <1>4, GotoIs DEF Types
<1>6. rep' \in [Proc -> Rep]
  BY DEF Types
<1>7. JobOK(job[a])'
  BY <1>1, <1>3, <1>5, Nones DEF JobOK, Holds
<1>8. Owes(a)'
  BY <1>5 DEF Owes
<1> QED  BY <1>1, <1>3, <1>4, <1>5, <1>6, <1>7, <1>8 DEF Serves, Holds, docs, events

\* The handler goes on without a statement.
LEMMA StayIs ==
  ASSUME Types, JobsOK, NEW a \in Actor, job[a].pc \in About \ {"report"},
         NEW new \in Job, job' = [job EXCEPT ![a] = new],
         new.f = job[a].f, new.row = job[a].row, new.pc \in About \ {"report"}, JobOK(new),
         Owes(a) => new.pc \in {"save_link", "set_remedy", "point_remedy"},
         UNCHANGED <<rows, runs, worker, rep, report, landed, inventory, events, overtaken, behind,
                     shared>>
  PROVE  Serves(a) /\ job'[a] = new
<1>1. F(a) \in Fp /\ rows[F(a)] \in Row /\ job[a].f = F(a) /\ job[a].row \in Row
  BY AboutIs
<1>2. job' \in [Actor -> Job] /\ job'[a] = new /\ Others(a)
  BY SetJob DEF Types
<1>3. rep' \in [Proc -> Rep] /\ rows' \in [Fp -> Row \cup {None}] /\ overtaken' \subseteq Proc
  BY DEF Types, TypeOK
<1>4. JobOK(job[a])'
  BY <1>2 DEF JobOK
<1>5. SameRuns /\ OnlyRow(F(a))
  BY <1>1, RowsStay
<1>6. Owes(a) => Owes(a)'
  BY <1>2 DEF Owes
<1>7. job'[a].pc \in About /\ job'[a].pc # "report" /\ job'[a].f = job[a].f /\ job'[a].row = job[a].row
  BY <1>2
<1>8. UNCHANGED <<rows, overtaken, rep, runs, worker, report, landed, inventory, behind, shared,
                  requests, edits>>
  BY DEF events
<1> QED  BY <1>2, <1>3, <1>4, <1>5, <1>6, <1>7, <1>8 DEF Serves

\* The handler answers without a statement, and owes nothing.
LEMMA EndIs ==
  ASSUME Types, JobsOK, NEW a \in Actor, job[a].pc \in About \ {"report"}, ~Owes(a), Answer(a),
         UNCHANGED <<rows, runs, worker, rep, report, landed, inventory, events, overtaken, behind,
                     shared>>
  PROVE  Serves(a) /\ job'[a] = NoJob
<1>1. F(a) \in Fp
  BY AboutIs
<1>2. job' \in [Actor -> Job] /\ job'[a] = NoJob /\ Others(a) /\ job'[a].pc = "idle"
  BY AnswerIs DEF Types
<1>3. rep' \in [Proc -> Rep] /\ rows' \in [Fp -> Row \cup {None}] /\ overtaken' \subseteq Proc
  BY DEF Types, TypeOK
<1>4. JobOK(job[a])'
  BY <1>2, NoJobIs DEF JobOK, About
<1>5. SameRuns /\ OnlyRow(F(a))
  BY <1>1, RowsStay
<1>8. UNCHANGED <<rows, overtaken, rep, runs, worker, report, landed, inventory, behind, shared,
                  requests, edits>>
  BY DEF events
<1> QED  BY <1>2, <1>3, <1>4, <1>5, <1>8 DEF Serves

\* The handler goes on to its report without a statement.
LEMMA ReportIs ==
  ASSUME Types, JobsOK, NEW a \in Actor, job[a].pc \in About \ {"report"},
         Goto(a, "report"), StartReport(a, FALSE),
         UNCHANGED <<rows, runs, worker, report, landed, inventory, events, overtaken, behind, shared>>
  PROVE  Serves(a) /\ Holds(a) /\ job'[a].pc = "report"
<1>1. F(a) \in Fp /\ rows[F(a)] \in Row /\ job[a].f = F(a) /\ job[a].row \in Row
  BY AboutIs
<1>2. /\ job' \in [Actor -> Job] /\ Others(a) /\ Holds(a) /\ job'[a].pc = "report"
  BY GotoIs DEF Types, About
<1>3. /\ rep' \in [Proc -> Rep] /\ OtherReps(a) /\ rep'[a].pc = "rows" /\ ~rep'[a].final
  BY StartReportIs DEF Types, Proc
<1>4. JobOK(job[a])'
  BY <1>1, <1>2, Nones DEF JobOK, Holds
<1>5. SameRuns /\ OnlyRow(F(a))
  BY <1>1, RowsStay
<1>6. rows' \in [Fp -> Row \cup {None}] /\ overtaken' \subseteq Proc
  BY DEF Types, TypeOK
<1>7. Owes(a)'
  BY <1>2 DEF Owes
<1>8. UNCHANGED <<rows, overtaken, runs, worker, report, landed, inventory, behind, shared,
                  requests, edits>>
  BY DEF events
<1> QED  BY <1>2, <1>3, <1>4, <1>5, <1>6, <1>7, <1>8 DEF Serves, Holds, About

-----------------------------------------------------------------------------
(* One handler after the other                                             *)

\* What a row says a finding led to.
Named(row) == {row.draft, row.remedy} \cup row.documents

\* Dismissing leaves what the finding led to.
LEMMA DismissIs ==
  ASSUME Types, JobsOK, NEW a \in Actor, Dismiss(a)
  PROVE  Serves(a) /\ job'[a].pc = "report" /\ Named(rows'[F(a)]) = Named(rows[F(a)])
<1> DEFINE new == [rows[F(a)] EXCEPT !.status = "dismissed"]
<1>1. job[a].pc = "dismiss" /\ job[a].pc \in About \ {"report"}
  BY DEF Dismiss, About
<1>2. rows[F(a)] \in Row
  BY <1>1, AboutIs
<1>3. /\ new \in Row /\ new.run = rows[F(a)].run /\ new.live = rows[F(a)].live
      /\ Named(new) = Named(rows[F(a)])
  BY <1>2 DEF Row, Status, Named
<1>4. Settle(a, new) /\ UNCHANGED <<runs, docs, worker, events, behind, shared>>
  BY DEF Dismiss
<1> HIDE DEF new
<1> QED  BY <1>1, <1>3, <1>4, SettleIs

\* Reopening drops the document drafted for the finding.
LEMMA DropDraftIs ==
  ASSUME Types, JobsOK, NEW a \in Actor, DropDraft(a)
  PROVE  Serves(a) /\ job'[a].pc = "drop_remedy"
<1> DEFINE new == [rows[F(a)] EXCEPT !.draft = None]
<1>1. job[a].pc = "drop_draft" /\ job[a].pc \in About \ {"report"}
  BY DEF DropDraft, About
<1>2. rows[F(a)] \in Row
  BY <1>1, AboutIs
<1>3. new \in Row /\ new.run = rows[F(a)].run /\ new.live = rows[F(a)].live
  BY <1>2 DEF Row
<1>4. /\ SetField(F(a), new) /\ Goto(a, "drop_remedy")
      /\ UNCHANGED <<runs, docs, worker, rep, events, behind, shared>>
  BY DEF DropDraft
<1> HIDE DEF new
<1> QED  BY <1>1, <1>3, <1>4, PassIs

\* Then the remedy.
LEMMA DropRemedyIs ==
  ASSUME Types, JobsOK, NEW a \in Actor, DropRemedy(a)
  PROVE  Serves(a) /\ job'[a].pc = "drop_documents"
<1> DEFINE new == [rows[F(a)] EXCEPT !.remedy = None]
<1>1. job[a].pc = "drop_remedy" /\ job[a].pc \in About \ {"report"}
  BY DEF DropRemedy, About
<1>2. rows[F(a)] \in Row
  BY <1>1, AboutIs
<1>3. new \in Row /\ new.run = rows[F(a)].run /\ new.live = rows[F(a)].live
  BY <1>2 DEF Row
<1>4. /\ SetField(F(a), new) /\ Goto(a, "drop_documents")
      /\ UNCHANGED <<runs, docs, worker, rep, events, behind, shared>>
  BY DEF DropRemedy
<1> HIDE DEF new
<1> QED  BY <1>1, <1>3, <1>4, PassIs

\* Then the planned documents.
LEMMA DropDocumentsIs ==
  ASSUME Types, JobsOK, NEW a \in Actor, DropDocuments(a)
  PROVE  Serves(a) /\ job'[a].pc = "reopen"
<1> DEFINE new == [rows[F(a)] EXCEPT !.documents = {}]
<1>1. job[a].pc = "drop_documents" /\ job[a].pc \in About \ {"report"}
  BY DEF DropDocuments, About
<1>2. rows[F(a)] \in Row
  BY <1>1, AboutIs
<1>3. new \in Row /\ new.run = rows[F(a)].run /\ new.live = rows[F(a)].live
  BY <1>2 DEF Row
<1>4. /\ SetField(F(a), new) /\ Goto(a, "reopen")
      /\ UNCHANGED <<runs, docs, worker, rep, events, behind, shared>>
  BY DEF DropDocuments
<1> HIDE DEF new
<1> QED  BY <1>1, <1>3, <1>4, PassIs

\* Then the status.
LEMMA ReopenIs ==
  ASSUME Types, JobsOK, NEW a \in Actor, Reopen(a)
  PROVE  Serves(a) /\ job'[a].pc = "report"
<1> DEFINE new == [rows[F(a)] EXCEPT !.status = "open"]
<1>1. job[a].pc = "reopen" /\ job[a].pc \in About \ {"report"}
  BY DEF Reopen, About
<1>2. rows[F(a)] \in Row
  BY <1>1, AboutIs
<1>3. new \in Row /\ new.run = rows[F(a)].run /\ new.live = rows[F(a)].live
  BY <1>2 DEF Row, Status
<1>4. Settle(a, new) /\ UNCHANGED <<runs, docs, worker, events, behind, shared>>
  BY DEF Reopen
<1> HIDE DEF new
<1> QED  BY <1>1, <1>3, <1>4, SettleIs

\* What was drafted is recorded in place of what the row named before.
LEMMA SetDraftIs ==
  ASSUME Types, JobsOK, NEW a \in Actor, SetDraft(a)
  PROVE  /\ Serves(a) /\ job'[a].pc = "report" /\ job[a].path \in Path
         /\ rows'[F(a)].draft = job[a].path /\ rows'[F(a)].remedy = rows[F(a)].remedy
         /\ rows'[F(a)].documents = rows[F(a)].documents
<1> DEFINE new == [rows[F(a)] EXCEPT !.draft = job[a].path]
<1>1. job[a].pc = "set_draft" /\ job[a].pc \in About \ {"report"}
  BY DEF SetDraft, About
<1>2. rows[F(a)] \in Row /\ job[a].path \in Path
  BY <1>1, AboutIs DEF JobsOK, JobOK
<1>3. /\ new \in Row /\ new.run = rows[F(a)].run /\ new.live = rows[F(a)].live
      /\ new.draft = job[a].path /\ new.remedy = rows[F(a)].remedy
      /\ new.documents = rows[F(a)].documents
  BY <1>2 DEF Row
<1>4. Settle(a, new) /\ UNCHANGED <<runs, docs, worker, events, behind, shared>>
  BY DEF SetDraft
<1> HIDE DEF new
<1> QED  BY <1>1, <1>2, <1>3, <1>4, SettleIs

\* And so is a remedy.
LEMMA SetRemedyIs ==
  ASSUME Types, JobsOK, NEW a \in Actor, SetRemedy(a)
  PROVE  /\ Serves(a) /\ job'[a].pc = "report" /\ job[a].path \in Path
         /\ rows'[F(a)].remedy = job[a].path /\ rows'[F(a)].draft = rows[F(a)].draft
         /\ rows'[F(a)].documents = rows[F(a)].documents
<1> DEFINE new == [rows[F(a)] EXCEPT !.remedy = job[a].path]
<1>1. job[a].pc = "set_remedy" /\ job[a].pc \in About \ {"report"}
  BY DEF SetRemedy, About
<1>2. rows[F(a)] \in Row /\ job[a].path \in Path
  BY <1>1, AboutIs DEF JobsOK, JobOK
<1>3. /\ new \in Row /\ new.run = rows[F(a)].run /\ new.live = rows[F(a)].live
      /\ new.remedy = job[a].path /\ new.draft = rows[F(a)].draft
      /\ new.documents = rows[F(a)].documents
  BY <1>2 DEF Row
<1>4. Settle(a, new) /\ UNCHANGED <<runs, docs, worker, events, behind, shared>>
  BY DEF SetRemedy
<1> HIDE DEF new
<1> QED  BY <1>1, <1>2, <1>3, <1>4, SettleIs

\* The documents a request created are recorded beside those it read.
LEMMA RecordIs ==
  ASSUME Types, JobsOK, NEW a \in Actor, Record(a)
  PROVE  /\ Serves(a) /\ job[a].pc = "create" /\ job[a].made \subseteq Path
         /\ \/ job'[a] = NoJob /\ UNCHANGED <<rows, produced>>
            \/ /\ Produces(F(a), job[a].made) /\ job'[a].pc = "point_draft"
               /\ rows'[F(a)].draft = rows[F(a)].draft /\ rows'[F(a)].remedy = rows[F(a)].remedy
               /\ rows'[F(a)].documents = RecordWith(a)
<1> DEFINE new == [rows[F(a)] EXCEPT !.documents = RecordWith(a)]
<1>1. job[a].pc = "create" /\ job[a].pc \in About \ {"report"} /\ ~Owes(a)
  BY DEF Record, About, Owes
<1>2. rows[F(a)] \in Row /\ job[a].row \in Row /\ job[a] \in Job
  BY <1>1, AboutIs
<1>3. RecordWith(a) \in SUBSET Path /\ job[a].made \subseteq Path
  BY <1>2 DEF RecordWith, Row, Job
<1>4. /\ new \in Row /\ new.run = rows[F(a)].run /\ new.live = rows[F(a)].live
      /\ new.draft = rows[F(a)].draft /\ new.remedy = rows[F(a)].remedy
      /\ new.documents = RecordWith(a)
  BY <1>2, <1>3 DEF Row
<1>5. UNCHANGED <<runs, docs, worker, rep, events, behind, shared>>
  BY DEF Record
<1>6. CASE job[a].made = {}
  <2>1. Answer(a) /\ UNCHANGED <<rows, overtaken, produced>>
    BY <1>6 DEF Record
  <2> QED  BY <1>1, <1>3, <1>5, <2>1, EndIs DEF docs
<1>7. CASE job[a].made # {}
  <2>1. SetField(F(a), new) /\ Produces(F(a), job[a].made) /\ Goto(a, "point_draft")
    BY <1>7 DEF Record
  <2> HIDE DEF new
  <2> QED  BY <1>1, <1>3, <1>4, <1>5, <2>1, PassIs
<1> QED  BY <1>6, <1>7

\* A pointer is set only where the handler read none.
LEMMA PointDraftIs ==
  ASSUME Types, JobsOK, NEW a \in Actor, PointDraft(a)
  PROVE  /\ Serves(a) /\ job[a].pc = "point_draft" /\ job'[a].pc = "point_remedy"
         /\ \/ rows' = rows
            \/ /\ job[a].row.draft = None /\ rows'[F(a)].remedy = rows[F(a)].remedy
               /\ rows'[F(a)].documents = rows[F(a)].documents
<1>1. job[a].pc = "point_draft" /\ job[a].pc \in About \ {"report"}
  BY DEF PointDraft, About
<1>2. rows[F(a)] \in Row /\ job[a].row \in Row /\ job[a] \in Job
  BY <1>1, AboutIs
<1>3. UNCHANGED <<runs, docs, worker, rep, events, behind, shared>> /\ Goto(a, "point_remedy")
  BY DEF PointDraft
<1>4. \/ UNCHANGED <<rows, overtaken>>
      \/ /\ job[a].row.draft = None
         /\ \E p \in job[a].made : SetField(F(a), [rows[F(a)] EXCEPT !.draft = p])
  BY DEF PointDraft
<1>5. CASE UNCHANGED <<rows, overtaken>>
  <2> DEFINE new == [job[a] EXCEPT !.pc = "point_remedy"]
  <2>1. /\ new \in Job /\ new.f = job[a].f /\ new.row = job[a].row /\ new.pc = "point_remedy"
    BY <1>2 DEF Job, About
  <2>2. JobOK(new)
    BY <1>1, <2>1, AboutIs DEF JobOK
  <2>3. job' = [job EXCEPT ![a] = new]
    BY <1>3 DEF Goto
  <2>4. new.pc \in About \ {"report"}
    BY <2>1 DEF About
  <2> HIDE DEF new
  <2> QED  BY <1>1, <1>3, <1>5, <2>1, <2>2, <2>3, <2>4, StayIs DEF docs
<1>6. CASE \E p \in job[a].made : SetField(F(a), [rows[F(a)] EXCEPT !.draft = p])
           /\ job[a].row.draft = None
  <2>1. PICK p \in job[a].made : SetField(F(a), [rows[F(a)] EXCEPT !.draft = p])
    BY <1>6
  <2>2. p \in Path
    BY <1>2 DEF Job
  <2> DEFINE new == [rows[F(a)] EXCEPT !.draft = p]
  <2>3. /\ new \in Row /\ new.run = rows[F(a)].run /\ new.live = rows[F(a)].live
        /\ new.remedy = rows[F(a)].remedy /\ new.documents = rows[F(a)].documents
    BY <1>2, <2>2 DEF Row
  <2>4. SetField(F(a), new)
    BY <2>1
  <2> HIDE DEF new
  <2> QED  BY <1>1, <1>3, <1>6, <2>3, <2>4, PassIs
<1> QED  BY <1>4, <1>5, <1>6

\* And so is the other, before the report.
LEMMA PointRemedyIs ==
  ASSUME Types, JobsOK, NEW a \in Actor, PointRemedy(a)
  PROVE  /\ Serves(a) /\ job[a].pc = "point_remedy" /\ job'[a].pc = "report"
         /\ \/ rows' = rows
            \/ /\ job[a].row.remedy = None /\ rows'[F(a)].draft = rows[F(a)].draft
               /\ rows'[F(a)].documents = rows[F(a)].documents
<1>1. job[a].pc = "point_remedy" /\ job[a].pc \in About \ {"report"}
  BY DEF PointRemedy, About
<1>2. rows[F(a)] \in Row /\ job[a].row \in Row /\ job[a] \in Job
  BY <1>1, AboutIs
<1>3. /\ UNCHANGED <<runs, docs, worker, events, behind, shared>>
      /\ Goto(a, "report") /\ StartReport(a, FALSE)
  BY DEF PointRemedy
<1>4. \/ UNCHANGED <<rows, overtaken>>
      \/ /\ job[a].row.remedy = None
         /\ \E p \in job[a].made : SetField(F(a), [rows[F(a)] EXCEPT !.remedy = p])
  BY DEF PointRemedy
<1>5. CASE UNCHANGED <<rows, overtaken>>
  BY <1>1, <1>3, <1>5, ReportIs DEF docs
<1>6. CASE \E p \in job[a].made : SetField(F(a), [rows[F(a)] EXCEPT !.remedy = p])
           /\ job[a].row.remedy = None
  <2>1. PICK p \in job[a].made : SetField(F(a), [rows[F(a)] EXCEPT !.remedy = p])
    BY <1>6
  <2>2. p \in Path
    BY <1>2 DEF Job
  <2> DEFINE new == [rows[F(a)] EXCEPT !.remedy = p]
  <2>3. /\ new \in Row /\ new.run = rows[F(a)].run /\ new.live = rows[F(a)].live
        /\ new.draft = rows[F(a)].draft /\ new.documents = rows[F(a)].documents
    BY <1>2, <2>2 DEF Row
  <2>4. Settle(a, new)
    BY <1>3, <2>1 DEF Settle
  <2> HIDE DEF new
  <2> QED  BY <1>1, <1>3, <1>6, <2>3, <2>4, SettleIs
<1> QED  BY <1>4, <1>5, <1>6

\* What a filing looked up is a target and the number of an item there.
LEMMA TargetIs ==
  ASSUME Types, JobsOK, NEW a \in Actor, job[a].pc \in {"find", "create_item", "set_filed"}
  PROVE  TheTarget(a) \in Target /\ job[a].todo = {TheTarget(a)} /\ job[a].next = "idle"
<1>1. PICK t \in Target : job[a].todo = {t}
  BY DEF JobsOK, JobOK
<1>2. TheTarget(a) = t
  BY <1>1 DEF TheTarget
<1> QED  BY <1>1, <1>2 DEF JobsOK, JobOK

\* A filing is recorded and leaves what the finding led to.
LEMMA SetFiledIs ==
  ASSUME Types, JobsOK, NEW a \in Actor, SetFiled(a)
  PROVE  /\ Serves(a) /\ job'[a].pc = "link" /\ job'[a].next = "idle"
         /\ Named(rows'[F(a)]) = Named(rows[F(a)])
<1> DEFINE new == [rows[F(a)] EXCEPT !.status = "filed", !.item = <<TheTarget(a), job[a].link[3]>>]
<1>1. job[a].pc = "set_filed" /\ job[a].pc \in About \ {"report"}
  BY DEF SetFiled, About
<1>2. rows[F(a)] \in Row /\ job[a].link \in Fp \X Target \X Nat /\ job[a].next = "idle"
  BY <1>1, AboutIs, TargetIs DEF JobsOK, JobOK
<1>3. <<TheTarget(a), job[a].link[3]>> \in Target \X Nat /\ job[a].link \in Links
  BY <1>1, <1>2, TargetIs DEF Links
<1>4. /\ new \in Row /\ new.run = rows[F(a)].run /\ new.live = rows[F(a)].live
      /\ Named(new) = Named(rows[F(a)])
  BY <1>2, <1>3 DEF Row, Status, Named
<1>5. /\ SetField(F(a), new) /\ Goto(a, "link")
      /\ UNCHANGED <<runs, docs, worker, rep, events, behind, shared>>
  BY DEF SetFiled
<1> HIDE DEF new
<1>6. Serves(a) /\ Holds(a) /\ job'[a].pc = "link" /\ rows'[F(a)] = new
  BY <1>1, <1>2, <1>3, <1>4, <1>5, PassIs
<1> QED  BY <1>2, <1>4, <1>6 DEF Holds

\* Documents and links are added, and no document, text or link is lost.
Grows == /\ files' \in [Path -> File \cup {None}]
         /\ \A p \in Path : files[p] # None => /\ files'[p] # None
                                              /\ files'[p].text = files[p].text
                                              /\ files[p].links \subseteq files'[p].links

\* A new document takes the place of none.
LEMMA WriteIs ==
  ASSUME Types, NEW p \in Path, NEW d \in File, files[p] = None, files' = [files EXCEPT ![p] = d]
  PROVE  Grows
  BY Nones DEF Types, TypeOK, Grows

\* Files that stay as they are.
LEMMA FilesStay == Types /\ files' = files => Grows
  BY DEF Types, TypeOK, Grows

\* A draft is written, or the model fails.
LEMMA WriteDraftIs ==
  ASSUME Types, JobsOK, NEW a \in Actor, WriteDraft(a)
  PROVE  /\ Serves(a) /\ Grows /\ UNCHANGED <<rows, produced, tracker>> /\ job[a].pc = "draft"
         /\ job'[a] = NoJob \/ job'[a].pc = "set_draft"
<1>1. job[a].pc = "draft" /\ job[a].pc \in About \ {"report"} /\ ~Owes(a)
  BY DEF WriteDraft, About, Owes
<1>2. UNCHANGED <<rows, runs, tracker, worker, rep, report, landed, inventory, events, overtaken,
                  behind, shared, produced>>
  BY DEF WriteDraft, table, aux
<1>3. job[a] \in Job /\ F(a) \in Fp /\ job[a].f = F(a) /\ rows[F(a)] # None /\ job[a].row \in Row
  BY <1>1, AboutIs
<1>4. CASE Answer(a) /\ UNCHANGED files
  BY <1>1, <1>2, <1>4, EndIs, FilesStay
<1>5. CASE \E p \in Path : /\ files[p] = None /\ files' = [files EXCEPT ![p] = Fresh]
                           /\ job' = [job EXCEPT ![a].pc = "set_draft", ![a].path = p]
  <2>1. PICK p \in Path : /\ files[p] = None /\ files' = [files EXCEPT ![p] = Fresh]
                          /\ job' = [job EXCEPT ![a].pc = "set_draft", ![a].path = p]
    BY <1>5
  <2> DEFINE new == [job[a] EXCEPT !.pc = "set_draft", !.path = p]
  <2>2. /\ new \in Job /\ new.f = job[a].f /\ new.row = job[a].row /\ new.pc = "set_draft"
        /\ new.path = p /\ new.pc \in About \ {"report"}
    BY <1>3 DEF Job, About
  <2>3. JobOK(new)
    BY <1>3, <2>2 DEF JobOK
  <2>4. job' = [job EXCEPT ![a] = new]
    BY <2>1
  <2> HIDE DEF new
  <2>5. Serves(a) /\ job'[a] = new
    BY <1>1, <1>2, <2>2, <2>3, <2>4, StayIs
  <2>6. Grows
    BY <2>1, FreshIs, WriteIs
  <2> QED  BY <1>1, <1>2, <2>2, <2>5, <2>6
<1> QED  BY <1>4, <1>5 DEF WriteDraft

\* A remedy is written beside its link or before it, or the model fails.
LEMMA WriteRemedyIs ==
  ASSUME Types, JobsOK, NEW a \in Actor, WriteRemedy(a)
  PROVE  /\ Serves(a) /\ Grows /\ UNCHANGED <<rows, produced, tracker>> /\ job[a].pc = "remedy"
         /\ \/ job'[a] = NoJob
            \/ job'[a].pc \in {"link", "set_remedy"} /\ job'[a].next = "set_remedy"
<1>1. job[a].pc = "remedy" /\ job[a].pc \in About \ {"report"} /\ ~Owes(a)
  BY DEF WriteRemedy, About, Owes
<1>2. UNCHANGED <<rows, runs, tracker, worker, rep, report, landed, inventory, events, overtaken,
                  behind, shared, produced>>
  BY DEF WriteRemedy, table, aux
<1>3. job[a] \in Job /\ F(a) \in Fp /\ job[a].f = F(a) /\ rows[F(a)] # None /\ job[a].row \in Row
  BY <1>1, AboutIs
<1>4. CASE Answer(a) /\ UNCHANGED files
  BY <1>1, <1>2, <1>4, EndIs, FilesStay
<1>5. ASSUME NEW p \in Path \ Requirement, NEW side \in {"remedy", "target", "none"},
             files[p] = None, side # "none" => Exists(Affected(a)),
             files' = [files EXCEPT ![p] =
                  [Fresh EXCEPT !.links = IF side = "remedy" THEN {Affected(a)} ELSE {}]],
             job' = [job EXCEPT ![a] = [@ EXCEPT
                  !.path = p, !.link = p, !.next = "set_remedy",
                  !.pc = IF side = "target" THEN "link" ELSE "set_remedy"]]
      PROVE  /\ Serves(a) /\ Grows
             /\ job'[a].pc \in {"link", "set_remedy"} /\ job'[a].next = "set_remedy"
  <2> DEFINE to  == IF side = "target" THEN "link" ELSE "set_remedy"
             new == [job[a] EXCEPT !.path = p, !.link = p, !.next = "set_remedy", !.pc = to]
             doc == [Fresh EXCEPT !.links = IF side = "remedy" THEN {Affected(a)} ELSE {}]
  <2>a. to \in {"link", "set_remedy"} /\ to \in About
    BY DEF About
  <2>b. job' = [job EXCEPT ![a] = new]
    BY <1>5
  <2> HIDE DEF to
  <2>c. p \in Path /\ p \in Links
    BY DEF Links
  <2>1. /\ new \in Job /\ new.f = job[a].f /\ new.row = job[a].row /\ new.path = p /\ new.link = p
        /\ new.next = "set_remedy" /\ new.pc \in {"link", "set_remedy"}
    BY <1>3, <2>a, <2>c DEF Job
  <2>2. new.pc \in About \ {"report"}
    BY <2>1 DEF About
  <2>3. JobOK(new)
    BY <1>3, <2>1 DEF JobOK, Links
  <2>5. Affected(a) \in Path \cup {None}
    BY <1>3, Nones DEF Affected, Row
  <2>6. side = "remedy" => Affected(a) \in Path
    BY <1>5, <2>5 DEF Exists
  <2>7. doc \in File
    BY <2>6, FreshIs DEF File
  <2> HIDE DEF new, doc
  <2>8. Serves(a) /\ job'[a] = new
    BY <1>1, <1>2, <2>1, <2>2, <2>3, <2>b, StayIs
  <2>9. Grows
    BY <1>5, <2>7, WriteIs DEF doc
  <2> QED  BY <2>1, <2>8, <2>9
<1> QED  BY <1>1, <1>2, <1>4, <1>5 DEF WriteRemedy

\* The document a link goes to is one of the project, if there is one.
LEMMA LinkDocIs ==
  ASSUME Types, JobsOK, NEW a \in Actor, job[a].pc \in About
  PROVE  LinkDoc(a) \in Path \cup {None}
<1>1. job[a].row \in Row /\ F(a) \in Fp
  BY AboutIs
<1>2. job[a].row.draft \in Path \cup {None} /\ DocPath[F(a)] \in Path \cup {None}
  BY <1>1, Nones DEF Row
<1> QED  BY <1>2 DEF LinkDoc, Affected

\* After the link, a remedy is recorded, or a report is written.
LEMMA AfterLinkIs ==
  ASSUME Types, JobsOK, NEW a \in Actor, job[a].pc \in {"link", "save_link"}, AfterLink(a),
         UNCHANGED <<rows, runs, worker, report, landed, inventory, events, overtaken, behind, shared>>
  PROVE  /\ Serves(a) /\ Holds(a)
         /\ job'[a].pc = IF job[a].next = "set_remedy" THEN "set_remedy" ELSE "report"
<1>1. /\ job[a].pc \in About \ {"report"}
  BY DEF About
<1>2. job[a] \in Job /\ F(a) \in Fp /\ job[a].f = F(a) /\ rows[F(a)] # None /\ job[a].row \in Row
  BY <1>1, AboutIs
<1>3. CASE job[a].next = "set_remedy"
  <2> DEFINE new == [job[a] EXCEPT !.pc = "set_remedy"]
  <2>1. /\ new \in Job /\ new.f = job[a].f /\ new.row = job[a].row /\ new.pc = "set_remedy"
        /\ new.todo = job[a].todo /\ new.made = job[a].made /\ new.path = job[a].path
        /\ new.link = job[a].link /\ new.base = job[a].base /\ new.next = job[a].next
        /\ new.pc \in About \ {"report"}
    BY <1>2 DEF Job, About
  <2>2. job[a].path \in Path
    BY <1>3 DEF JobsOK, JobOK
  <2>3. JobOK(new)
    BY <1>2, <2>1, <2>2 DEF JobOK
  <2>4. job' = [job EXCEPT ![a] = new] /\ rep' = rep
    BY <1>3 DEF AfterLink, Goto
  <2> HIDE DEF new
  <2>5. Serves(a) /\ job'[a] = new
    BY <1>1, <2>1, <2>3, <2>4, StayIs
  <2> QED  BY <1>3, <2>1, <2>5 DEF Holds
<1>4. CASE job[a].next # "set_remedy"
  <2>1. Goto(a, "report") /\ StartReport(a, FALSE)
    BY <1>4 DEF AfterLink
  <2> QED  BY <1>1, <1>4, <2>1, ReportIs
<1> QED  BY <1>3, <1>4

\* A link is read with the document it goes to, when it is not there yet.
LEMMA ReadLinkedIs ==
  ASSUME Types, JobsOK, NEW a \in Actor, ReadLinked(a)
  PROVE  /\ Serves(a) /\ Grows /\ UNCHANGED <<rows, produced, tracker>> /\ job[a].pc = "link"
         /\ job'[a].next = job[a].next
         /\ job'[a].pc \in {"save_link", "set_remedy", "report"}
         /\ job'[a].pc = "set_remedy" => job[a].next = "set_remedy"
<1>1. job[a].pc = "link" /\ job[a].pc \in About \ {"report"}
  BY DEF ReadLinked, About
<1>2. UNCHANGED <<rows, runs, tracker, worker, report, landed, inventory, events, overtaken,
                  behind, shared, produced, files>>
  BY DEF ReadLinked, table, docs, aux
<1>3. job[a] \in Job /\ F(a) \in Fp /\ job[a].f = F(a) /\ rows[F(a)] # None /\ job[a].row \in Row
  BY <1>1, AboutIs
<1>4. Grows
  BY <1>2, FilesStay
<1>5. CASE /\ Exists(LinkDoc(a)) /\ rep' = rep
           /\ job' = [job EXCEPT ![a].pc = "save_link", ![a].base = files[LinkDoc(a)]]
  <2> DEFINE new == [job[a] EXCEPT !.pc = "save_link", !.base = files[LinkDoc(a)]]
  <2>1. files[LinkDoc(a)] \in File
    BY <1>1, <1>5, LinkDocIs DEF Exists, Types, TypeOK
  <2>2. /\ new \in Job /\ new.f = job[a].f /\ new.row = job[a].row /\ new.pc = "save_link"
        /\ new.link = job[a].link /\ new.next = job[a].next /\ new.path = job[a].path
        /\ new.base \in File /\ new.pc \in About \ {"report"}
    BY <1>3, <2>1 DEF Job, About
  <2>3. JobOK(job[a])
    BY DEF JobsOK
  <2>4. JobOK(new)
    BY <1>1, <1>3, <2>2, <2>3 DEF JobOK
  <2>5. job' = [job EXCEPT ![a] = new]
    BY <1>5
  <2> HIDE DEF new
  <2>6. Serves(a) /\ job'[a] = new
    BY <1>1, <1>2, <1>5, <2>2, <2>4, <2>5, StayIs
  <2> QED  BY <1>1, <1>2, <1>4, <2>2, <2>6
<1>6. CASE AfterLink(a)
  BY <1>1, <1>2, <1>4, <1>6, AfterLinkIs DEF Holds
<1> QED  BY <1>5, <1>6 DEF ReadLinked

\* It is saved over what was read, or not at all.
LEMMA SaveLinkIs ==
  ASSUME Types, JobsOK, NEW a \in Actor, SaveLink(a)
  PROVE  /\ Serves(a) /\ Grows /\ UNCHANGED <<rows, produced, tracker>> /\ job[a].pc = "save_link"
         /\ job'[a].next = job[a].next
         /\ job'[a].pc = IF job[a].next = "set_remedy" THEN "set_remedy" ELSE "report"
<1>1. job[a].pc = "save_link" /\ job[a].pc \in About \ {"report"} /\ AfterLink(a)
  BY DEF SaveLink, About
<1>2. UNCHANGED <<rows, runs, tracker, worker, report, landed, inventory, events, overtaken,
                  behind, shared, produced>>
  BY DEF SaveLink, table, aux
<1>3. Grows
  <2>1. job[a].base \in File /\ job[a].link \in Links
    BY <1>1 DEF JobsOK, JobOK
  <2>2. CASE files' = files
    BY <2>2, FilesStay
  <2>3. CASE /\ SaveAccepted(files[LinkDoc(a)], job[a].base)
             /\ files' = [files EXCEPT ![LinkDoc(a)] =
                            [job[a].base EXCEPT !.links = @ \cup {job[a].link}]]
    <3> DEFINE doc == [job[a].base EXCEPT !.links = @ \cup {job[a].link}]
    <3>1. doc \in File /\ doc.text = job[a].base.text /\ job[a].base.links \subseteq doc.links
      BY <2>1 DEF File, Links
    <3>2. files[LinkDoc(a)] = job[a].base
      BY <2>3 DEF SaveAccepted
    <3>3. files' = [files EXCEPT ![LinkDoc(a)] = doc]
      BY <2>3
    <3> HIDE DEF doc
    <3>4. files \in [Path -> File \cup {None}] /\ doc # None
      BY <3>1, Nones DEF Types, TypeOK
    <3> QED  BY <3>1, <3>2, <3>3, <3>4 DEF Grows
  <2> QED  BY <2>2, <2>3 DEF SaveLink
<1> QED  BY <1>1, <1>2, <1>3, AfterLinkIs DEF Holds

\* One planned document is written, or skipped.
LEMMA CreateOneIs ==
  ASSUME Types, JobsOK, NEW a \in Actor, CreateOne(a)
  PROVE  /\ Serves(a) /\ Grows /\ UNCHANGED <<rows, produced, tracker>>
         /\ job[a].pc = "create" /\ job'[a].pc = "create"
<1>1. job[a].pc = "create" /\ job[a].pc \in About \ {"report"} /\ ~Owes(a)
  BY DEF CreateOne, About, Owes
<1>2. UNCHANGED <<rows, runs, tracker, worker, rep, report, landed, inventory, events, overtaken,
                  behind, shared, produced>>
  BY DEF CreateOne, table, aux
<1>3. /\ job[a] \in Job /\ F(a) \in Fp /\ job[a].f = F(a) /\ rows[F(a)] # None /\ job[a].row \in Row
      /\ job[a].todo \subseteq Path
  BY <1>1, AboutIs DEF JobsOK, JobOK
<1>4. PICK p \in job[a].todo :
         \/ /\ files[p] = None
            /\ files' = [files EXCEPT ![p] = Fresh]
            /\ job' = [job EXCEPT ![a].todo = @ \ {p}, ![a].made = @ \cup {p}]
         \/ /\ job' = [job EXCEPT ![a].todo = @ \ {p}]
            /\ UNCHANGED files
  BY DEF CreateOne
<1>5. PICK made \in SUBSET Path : job' = [job EXCEPT ![a] = [job[a] EXCEPT !.todo = @ \ {p}, !.made = made]]
  <2>1. CASE job' = [job EXCEPT ![a].todo = @ \ {p}, ![a].made = @ \cup {p}]
    <3>1. job[a].made \cup {p} \in SUBSET Path
      BY <1>3 DEF Job
    <3> QED  BY <2>1, <3>1
  <2>2. CASE job' = [job EXCEPT ![a].todo = @ \ {p}]
    <3>1. job[a].made \in SUBSET Path /\ job[a] = [job[a] EXCEPT !.made = job[a].made]
      BY <1>3 DEF Job
    <3>2. [job[a] EXCEPT !.todo = @ \ {p}] = [job[a] EXCEPT !.todo = @ \ {p}, !.made = job[a].made]
      BY <1>3 DEF Job
    <3>3. job' = [job EXCEPT ![a] = [job[a] EXCEPT !.todo = @ \ {p}]]
      BY <2>2
    <3> QED  BY <3>1, <3>2, <3>3
  <2> QED  BY <1>4, <2>1, <2>2
<1> DEFINE new == [job[a] EXCEPT !.todo = @ \ {p}, !.made = made]
<1>6. /\ new \in Job /\ new.f = job[a].f /\ new.row = job[a].row /\ new.pc = "create"
      /\ new.todo \subseteq Path
  BY <1>1, <1>3, <1>5 DEF Job
<1>7. JobOK(new)
  BY <1>3, <1>6 DEF JobOK
<1>8. job' = [job EXCEPT ![a] = new]
  BY <1>5
<1> HIDE DEF new
<1>9. Serves(a) /\ job'[a] = new
  BY <1>1, <1>2, <1>6, <1>7, <1>8, StayIs
<1>10. Grows
  BY <1>3, <1>4, FreshIs, WriteIs, FilesStay
<1> QED  BY <1>1, <1>2, <1>6, <1>9, <1>10

\* An item that was found, or created, is what the filing records.
LEMMA FoundIs ==
  ASSUME Types, JobsOK, NEW a \in Actor, job[a].pc \in {"find", "create_item"}, NEW n \in Nat,
         Found(a, n),
         UNCHANGED <<rows, runs, worker, rep, report, landed, inventory, events, overtaken, behind,
                     shared>>
  PROVE  Serves(a) /\ job'[a].pc = "set_filed"
<1>1. job[a].pc \in About \ {"report"} /\ ~Owes(a)
  BY DEF About, Owes
<1>2. job[a] \in Job /\ F(a) \in Fp /\ job[a].f = F(a) /\ rows[F(a)] # None /\ job[a].row \in Row
  BY <1>1, AboutIs
<1>3. <<F(a), TheTarget(a), n>> \in Fp \X Target \X Nat
  BY <1>2, TargetIs
<1> DEFINE new == [job[a] EXCEPT !.pc = "set_filed", !.link = <<F(a), TheTarget(a), n>>]
<1>4. /\ new \in Job /\ new.f = job[a].f /\ new.row = job[a].row /\ new.pc = "set_filed"
      /\ new.link \in Fp \X Target \X Nat /\ new.todo = job[a].todo /\ new.next = job[a].next
      /\ new.pc \in About \ {"report"}
  BY <1>2, <1>3 DEF Job, Links, About
<1>5. JobOK(job[a])
  BY DEF JobsOK
<1>6. JobOK(new)
  BY <1>2, <1>4, <1>5 DEF JobOK
<1>7. job' = [job EXCEPT ![a] = new]
  BY DEF Found
<1> HIDE DEF new
<1> QED  BY <1>1, <1>4, <1>6, <1>7, StayIs

\* A lookup finds an item, or that there is none, or fails.
LEMMA FindItemIs ==
  ASSUME Types, JobsOK, NEW a \in Actor, FindItem(a)
  PROVE  /\ Serves(a) /\ UNCHANGED <<rows, produced, files>> /\ job[a].pc = "find"
         /\ \/ tracker' = tracker /\ (job'[a] = NoJob \/ job'[a].pc = "set_filed")
            \/ /\ job'[a].pc = "create_item" /\ job'[a].todo = job[a].todo
               /\ tracker' = tracker /\ Spare(TallyOf(a))
            \/ /\ job'[a].pc = "create_item" /\ job'[a].todo = job[a].todo
               /\ SetTally(a, [TallyOf(a) EXCEPT !.missed = @ + 1])
<1>1. job[a].pc = "find" /\ job[a].pc \in About \ {"report"} /\ ~Owes(a)
  BY DEF FindItem, About, Owes
<1>2. UNCHANGED <<rows, runs, worker, rep, report, landed, inventory, events, overtaken,
                  behind, shared, produced, files>>
  BY DEF FindItem, docs, aux
<1>3. job[a] \in Job /\ F(a) \in Fp /\ job[a].f = F(a) /\ rows[F(a)] # None /\ job[a].row \in Row
  BY <1>1, AboutIs
<1>4. TallyOf(a) \in Tally /\ TallyOf(a).items \in Nat /\ TallyOf(a).missed \in Nat
  BY <1>1, <1>3, TargetIs DEF Types, TypeOK, TallyOf, Tally
<1>5. ASSUME \E n \in Marked(F(a), TheTarget(a)) : Found(a, n)
      PROVE  Serves(a) /\ job'[a].pc = "set_filed"
  <2>1. PICK n \in 1..TallyOf(a).items : Found(a, n)
    BY <1>5 DEF Marked, TallyOf
  <2>2. n \in Nat
    BY <1>4
  <2> QED  BY <1>1, <1>2, <2>1, <2>2, FoundIs
<1>6. ASSUME Goto(a, "create_item")
      PROVE  Serves(a) /\ job'[a].pc = "create_item" /\ job'[a].todo = job[a].todo
  <2> DEFINE new == [job[a] EXCEPT !.pc = "create_item"]
  <2>2. /\ new \in Job /\ new.f = job[a].f /\ new.row = job[a].row /\ new.pc = "create_item"
        /\ new.todo = job[a].todo /\ new.next = job[a].next /\ new.pc \in About \ {"report"}
    BY <1>3 DEF Job, About
  <2>3. JobOK(new)
    BY <1>1, <1>3, <2>2 DEF JobOK, JobsOK
  <2>4. job' = [job EXCEPT ![a] = new]
    BY <1>6 DEF Goto
  <2> HIDE DEF new
  <2>5. Serves(a) /\ job'[a] = new
    BY <1>1, <1>2, <2>2, <2>3, <2>4, StayIs
  <2> QED  BY <2>2, <2>5
<1>7. ASSUME Answer(a)
      PROVE  Serves(a) /\ job'[a] = NoJob
  BY <1>1, <1>2, <1>7, EndIs
<1>8. Marked(F(a), TheTarget(a)) = {} => Spare(TallyOf(a))
  <2> SUFFICES ASSUME Marked(F(a), TheTarget(a)) = {} PROVE Spare(TallyOf(a))
    OBVIOUS
  <2> DEFINE n == TallyOf(a).items
  <2>1. n \in Nat /\ 1..n = {}
    BY <1>4 DEF Marked, TallyOf
  <2> HIDE DEF n
  <2>2. n = 0
    BY <2>1
  <2> QED  BY <1>4, <2>2 DEF n, Spare
<1> QED  BY <1>1, <1>2, <1>5, <1>6, <1>7, <1>8 DEF FindItem

\* The tracker has one item more, or as many as before.
LEMMA CreateItemIs ==
  ASSUME Types, JobsOK, NEW a \in Actor, CreateItem(a)
  PROVE  /\ Serves(a) /\ UNCHANGED <<rows, produced, files>> /\ job[a].pc = "create_item"
         /\ job'[a] = NoJob \/ job'[a].pc = "set_filed"
         /\ \/ tracker' = tracker
            \/ SetTally(a, [TallyOf(a) EXCEPT !.items = @ + 1])
<1>1. job[a].pc = "create_item" /\ job[a].pc \in About \ {"report"} /\ ~Owes(a)
  BY DEF CreateItem, About, Owes
<1>2. UNCHANGED <<rows, runs, worker, rep, report, landed, inventory, events, overtaken,
                  behind, shared, produced, files>>
  BY DEF CreateItem, docs, aux
<1>3. TallyOf(a).items + 1 \in Nat
  BY <1>1, AboutIs, TargetIs DEF Types, TypeOK, TallyOf, Tally
<1>4. CASE Found(a, TallyOf(a).items + 1)
  BY <1>1, <1>2, <1>3, <1>4, FoundIs DEF CreateItem
<1>5. CASE Answer(a)
  BY <1>1, <1>2, <1>5, EndIs DEF CreateItem
<1> QED  BY <1>4, <1>5 DEF CreateItem

\* A target's tally changes for one finding and one target only.
LEMMA SetTallyIs ==
  ASSUME Types, NEW a \in Actor, NEW new \in Tally, SetTally(a, new),
         F(a) \in Fp, TheTarget(a) \in Target
  PROVE  /\ tracker' \in [Fp -> [Target -> Tally]]
         /\ tracker'[F(a)][TheTarget(a)] = new
         /\ \A g \in Fp : g # F(a) => tracker'[g] = tracker[g]
         /\ \A t \in Target : t # TheTarget(a) => tracker'[F(a)][t] = tracker[F(a)][t]
  BY DEF SetTally, Types, TypeOK

\* The handlers' steps, but for the claim of a branch.
Working(a) == \/ Dismiss(a) \/ DropDraft(a) \/ DropRemedy(a) \/ DropDocuments(a) \/ Reopen(a)
              \/ WriteDraft(a) \/ SetDraft(a) \/ WriteRemedy(a) \/ SetRemedy(a)
              \/ ReadLinked(a) \/ SaveLink(a)
              \/ CreateOne(a) \/ Record(a) \/ PointDraft(a) \/ PointRemedy(a)
              \/ FindItem(a) \/ CreateItem(a) \/ SetFiled(a)

\* Whatever it is, a handler serves its finding.
LEMMA WorkingServes ==
  ASSUME Types, JobsOK, NEW a \in Actor, Working(a)
  PROVE  Serves(a)
<1>1. Dismiss(a) => Serves(a)
  BY DismissIs
<1>2. DropDraft(a) => Serves(a)
  BY DropDraftIs
<1>3. DropRemedy(a) => Serves(a)
  BY DropRemedyIs
<1>4. DropDocuments(a) => Serves(a)
  BY DropDocumentsIs
<1>5. Reopen(a) => Serves(a)
  BY ReopenIs
<1>6. WriteDraft(a) => Serves(a)
  BY WriteDraftIs
<1>7. SetDraft(a) => Serves(a)
  BY SetDraftIs
<1>8. WriteRemedy(a) => Serves(a)
  BY WriteRemedyIs
<1>9. SetRemedy(a) => Serves(a)
  BY SetRemedyIs
<1>10. ReadLinked(a) => Serves(a)
  BY ReadLinkedIs
<1>11. SaveLink(a) => Serves(a)
  BY SaveLinkIs
<1>12. CreateOne(a) => Serves(a)
  BY CreateOneIs
<1>13. Record(a) => Serves(a)
  BY RecordIs
<1>14. PointDraft(a) => Serves(a)
  BY PointDraftIs
<1>15. PointRemedy(a) => Serves(a)
  BY PointRemedyIs
<1>16. FindItem(a) => Serves(a)
  BY FindItemIs
<1>17. CreateItem(a) => Serves(a)
  BY CreateItemIs
<1>18. SetFiled(a) => Serves(a)
  BY SetFiledIs
<1> QED
  BY <1>1, <1>2, <1>3, <1>4, <1>5, <1>6, <1>7, <1>8, <1>9,
     <1>10, <1>11, <1>12, <1>13, <1>14, <1>15, <1>16, <1>17, <1>18 DEF Working

\* No handler loses what anybody wrote.
LEMMA WorkingGrows ==
  ASSUME Types, JobsOK, NEW a \in Actor, Working(a)
  PROVE  Grows
<1>1. CASE files' = files
  BY <1>1, FilesStay
<1>2. CASE WriteDraft(a) \/ WriteRemedy(a) \/ ReadLinked(a) \/ SaveLink(a) \/ CreateOne(a)
  BY <1>2, WriteDraftIs, WriteRemedyIs, ReadLinkedIs, SaveLinkIs, CreateOneIs
<1> QED  BY <1>1, <1>2 DEF Working, Dismiss, DropDraft, DropRemedy, DropDocuments, Reopen, SetDraft,
            SetRemedy, Record, PointDraft, PointRemedy, FindItem, CreateItem, SetFiled, docs

-----------------------------------------------------------------------------
(* What a handler's step leaves as it should be                            *)

\* Handlers keep what they know while rows stay.
LEMMA JobsKept ==
  ASSUME JobsOK, NEW a \in Actor, Others(a), JobOK(job[a])',
         \A f \in Fp : rows[f] # None => rows'[f] # None
  PROVE  JobsOK'
<1> SUFFICES ASSUME NEW b \in Actor PROVE JobOK(job[b])'
  BY DEF JobsOK
<1>1. CASE b = a
  BY <1>1
<1>2. CASE b # a
  <2>1. job'[b] = job[b] /\ JobOK(job[b])
    BY <1>2 DEF Others, JobsOK
  <2> QED  BY <2>1 DEF JobOK
<1> QED  BY <1>1, <1>2

\* What the runs know of the rows stays.
LEMMA StoredKept ==
  ASSUME StoredOK, OwnersResolve, SameRuns, UNCHANGED <<runs, worker>>
  PROVE  StoredOK' /\ OwnersResolve'
<1>1. Newest' = Newest /\ Current' = Current /\ Active' = Active
  BY DEF Newest, Current, Active
<1>2. \A f \in Fp : /\ rows'[f] = None <=> rows[f] = None
                    /\ rows[f] # None => rows'[f].run = rows[f].run /\ rows'[f].live = rows[f].live
  BY DEF SameRuns
<1>3. StoredOK'
  BY <1>1, <1>2 DEF StoredOK, Checkable
<1>4. OwnersResolve'
  BY <1>1, <1>2 DEF OwnersResolve
<1> QED  BY <1>3, <1>4

\* The log stays what it is while the worker does.
LEMMA LogKept ==
  ASSUME LogOK, UNCHANGED <<runs, worker, report>>, rep'["worker"] = rep["worker"]
  PROVE  LogOK'
  BY DEF LogOK, Newest, Active

\* Two handlers of one finding are still on record.
LEMMA AloneKept ==
  ASSUME AloneOK, NEW a \in Actor, Others(a), shared \subseteq shared',
         job'[a].pc \in About => job[a].pc \in About /\ job'[a].f = job[a].f
  PROVE  AloneOK'
<1> SUFFICES ASSUME NEW b \in Actor, NEW c \in Actor, b # c, job'[b].pc \in About,
                    job'[c].pc \in About, job'[b].f = job'[c].f
             PROVE  job'[b].f \in shared'
  BY DEF AloneOK
<1>1. /\ job[b].pc \in About /\ job'[b].f = job[b].f
      /\ job[c].pc \in About /\ job'[c].f = job[c].f
  BY DEF Others
<1> QED  BY <1>1 DEF AloneOK

\* A handler owes a report for what it changed.
LEMMA ServesReport ==
  ASSUME Types, ReportOK, NEW a \in Actor, Serves(a)
  PROVE  ReportOK'
<1>1. rep'["worker"] = rep["worker"] /\ WorkerOwes' = WorkerOwes
  BY Nones DEF Serves, OtherReps, WorkerOwes, Active, Proc
<1>2. CASE rows' = rows /\ overtaken' = overtaken /\ (Owes(a) => Owes(a)')
  <2>1. Visible' = Visible
    BY <1>2 DEF Visible
  <2>2. ASSUME NEW p \in Proc, p \notin overtaken', rep'[p].pc \in {"file", "save"}
        PROVE  rep'[p].shown = Visible'
    <3>1. rep'[p] = rep[p]
      BY <2>2 DEF Serves, OtherReps
    <3> QED  BY <1>2, <2>1, <2>2, <3>1 DEF ReportOK
  <2>3. \A b \in Actor : Owes(b) => Owes(b)'
    BY <1>2 DEF Serves, Others, Owes
  <2>4. report' = report /\ behind' = behind
    BY DEF Serves
  <2> QED  BY <1>1, <2>1, <2>2, <2>3, <2>4 DEF ReportOK
<1>3. CASE overtaken' = overtaken \cup Reported /\ Owes(a)'
  <2>1. ASSUME NEW p \in Proc, p \notin overtaken', rep'[p].pc \in {"file", "save"}
        PROVE  FALSE
    <3>1. rep'[p] = rep[p]
      BY <2>1 DEF Serves, OtherReps
    <3> QED  BY <1>3, <2>1, <3>1 DEF Reported
  <2> QED  BY <1>3, <2>1 DEF ReportOK
<1> QED  BY <1>2, <1>3 DEF Serves

\* Who writes a report is at its end.
LEMMA ServesWriters ==
  ASSUME WritersOK, NEW a \in Actor, Serves(a)
  PROVE  WritersOK'
<1>1. rep'["worker"] = rep["worker"] /\ Active' = Active /\ Running' = Running /\ worker' = worker
  BY Nones DEF Serves, OtherReps, Active, Running, Newest, Proc
<1>2. ASSUME NEW b \in Actor
      PROVE  (rep'[b].pc # "idle" <=> job'[b].pc = "report") /\ ~rep'[b].final
  <2>1. (rep[b].pc # "idle" <=> job[b].pc = "report") /\ ~rep[b].final
    BY DEF WritersOK
  <2>2. CASE b # a
    BY <2>1, <2>2 DEF Serves, Others, OtherReps, Proc
  <2>3. CASE b = a
    BY <2>1, <2>3 DEF Serves
  <2> QED  BY <2>2, <2>3
<1> QED  BY <1>1, <1>2 DEF WritersOK

\* The rest of what a handler's step leaves.
LEMMA ServesRest ==
  ASSUME Types, JobsOK, WritersOK, StoredOK, OwnersResolve, LogOK, ReportOK, AloneOK,
         NEW a \in Actor, Serves(a)
  PROVE  /\ JobsOK' /\ WritersOK' /\ StoredOK' /\ OwnersResolve' /\ LogOK' /\ ReportOK' /\ AloneOK'
<1>1. Others(a) /\ JobOK(job[a])' /\ SameRuns /\ UNCHANGED <<runs, worker, report, shared>>
  BY DEF Serves
<1>2. JobsOK'
  BY <1>1, JobsKept DEF SameRuns
<1>3. StoredOK' /\ OwnersResolve'
  BY <1>1, StoredKept
<1>4. rep'["worker"] = rep["worker"]
  BY Nones DEF Serves, OtherReps, Proc
<1>5. LogOK'
  BY <1>1, <1>4, LogKept
<1>6. job'[a].pc \in About => job[a].pc \in About /\ job'[a].f = job[a].f
  BY NoJobIs DEF Serves, About
<1>7. AloneOK'
  BY <1>1, <1>6, AloneKept
<1> QED  BY <1>2, <1>3, <1>5, <1>7, ServesReport, ServesWriters

-----------------------------------------------------------------------------
(* What was filed, and what the finding led to                             *)

\* Nobody else's lookup changes, and nobody starts to create an item.
LEMMA FiledKept ==
  ASSUME FiledOK, FiledOnce, NEW a \in Actor, Others(a), tracker' = tracker,
         shared \subseteq shared', job'[a].pc # "create_item"
  PROVE  FiledOK' /\ FiledOnce'
<1>1. FiledOnce'
  BY DEF FiledOnce
<1>2. ASSUME NEW b \in Actor, job'[b].pc = "create_item", job'[b].f \notin shared'
      PROVE  Spare(tracker'[job'[b].f][TheTarget(b)'])
  <2>1. job'[b] = job[b]
    BY <1>2 DEF Others
  <2>2. TheTarget(b)' = TheTarget(b)
    BY <2>1 DEF TheTarget
  <2> QED  BY <1>2, <2>1, <2>2 DEF FiledOK
<1> QED  BY <1>1, <1>2 DEF FiledOK, Spare

\* The step of a lookup or of a creation that changes a tally keeps the others.
LEMMA TallyFiled ==
  ASSUME Types, JobsOK, AloneOK, FiledOK, FiledOnce, NEW a \in Actor, Others(a), shared' = shared,
         NEW new \in Tally, SetTally(a, new), job[a].pc \in {"find", "create_item"},
         F(a) \notin shared => new.items <= 1 + new.missed,
         job'[a].pc = "create_item" => /\ job'[a].todo = job[a].todo /\ job'[a].f = F(a)
                                       /\ F(a) \notin shared => Spare(new)
  PROVE  FiledOK' /\ FiledOnce'
<1>1. F(a) \in Fp /\ TheTarget(a) \in Target /\ job[a].f = F(a) /\ job[a].pc \in About
  BY AboutIs, TargetIs DEF About, F
<1>2. /\ tracker'[F(a)][TheTarget(a)] = new
      /\ \A g \in Fp : g # F(a) => tracker'[g] = tracker[g]
      /\ \A t \in Target : t # TheTarget(a) => tracker'[F(a)][t] = tracker[F(a)][t]
  BY <1>1, SetTallyIs
<1>3. FiledOnce'
  <2> SUFFICES ASSUME NEW g \in Fp, g \notin shared, NEW t \in Target
               PROVE  tracker'[g][t].items <= 1 + tracker'[g][t].missed
    BY DEF FiledOnce
  <2>1. tracker[g][t].items <= 1 + tracker[g][t].missed
    BY DEF FiledOnce
  <2> QED  BY <1>1, <1>2, <2>1
<1>4. ASSUME NEW b \in Actor, job'[b].pc = "create_item", job'[b].f \notin shared'
      PROVE  Spare(tracker'[job'[b].f][TheTarget(b)'])
  <2>1. CASE b = a
    <3>1. job'[a].f = F(a) /\ TheTarget(a)' = TheTarget(a) /\ Spare(new)
      BY <1>4, <2>1 DEF TheTarget
    <3> QED  BY <1>2, <2>1, <3>1
  <2>2. CASE b # a
    <3>1. job'[b] = job[b] /\ TheTarget(b)' = TheTarget(b)
      BY <2>2 DEF Others, TheTarget
    <3>2. job[b].pc \in About
      BY <1>4, <3>1 DEF About
    <3>3. job[b].f # F(a) /\ job[b].f \in Fp
      BY <1>1, <1>4, <2>2, <3>1, <3>2, AboutIs DEF AloneOK
    <3>4. Spare(tracker[job[b].f][TheTarget(b)])
      BY <1>4, <3>1 DEF FiledOK
    <3> QED  BY <1>2, <3>1, <3>3, <3>4
  <2> QED  BY <2>1, <2>2
<1> QED  BY <1>3, <1>4 DEF FiledOK, Spare

\* One marker, one item, whatever step of a handler it is.
LEMMA WorkingFiled ==
  ASSUME Types, JobsOK, AloneOK, FiledOK, FiledOnce, NEW a \in Actor, Working(a)
  PROVE  FiledOK' /\ FiledOnce'
<1>1. Serves(a)
  BY WorkingServes
<1>2. Others(a) /\ shared' = shared
  BY <1>1 DEF Serves
<1>3. CASE FindItem(a)
  <2>1. job[a].pc = "find"
    BY <1>3, FindItemIs
  <2>2. CASE tracker' = tracker /\ job'[a].pc # "create_item"
    BY <1>2, <2>2, FiledKept
  <2>3. CASE /\ job'[a].pc = "create_item" /\ job'[a].todo = job[a].todo
             /\ tracker' = tracker /\ Spare(TallyOf(a))
    <3>2. job'[a].f = F(a)
      BY <1>1, <2>3, NoJobIs DEF Serves, F
    <3>3. FiledOnce'
      BY <1>2, <2>3 DEF FiledOnce
    <3>4. ASSUME NEW b \in Actor, job'[b].pc = "create_item", job'[b].f \notin shared'
          PROVE  Spare(tracker'[job'[b].f][TheTarget(b)'])
      <4>1. CASE b = a
        <5>1. TheTarget(a)' = TheTarget(a)
          BY <2>3 DEF TheTarget
        <5> QED  BY <2>3, <3>2, <4>1, <5>1 DEF TallyOf
      <4>2. CASE b # a
        <5>1. job'[b] = job[b] /\ TheTarget(b)' = TheTarget(b)
          BY <1>2, <4>2 DEF Others, TheTarget
        <5> QED  BY <1>2, <2>3, <3>4, <5>1 DEF FiledOK
      <4> QED  BY <4>1, <4>2
    <3> QED  BY <3>3, <3>4 DEF FiledOK, Spare
  <2>4. CASE /\ job'[a].pc = "create_item" /\ job'[a].todo = job[a].todo
             /\ SetTally(a, [TallyOf(a) EXCEPT !.missed = @ + 1])
    <3> DEFINE new == [TallyOf(a) EXCEPT !.missed = @ + 1]
    <3>1. F(a) \in Fp /\ TheTarget(a) \in Target /\ job'[a].f = F(a)
      BY <1>1, <2>1, <2>4, AboutIs, TargetIs, NoJobIs DEF About, Serves, F
    <3>2. /\ TallyOf(a) \in Tally
          /\ F(a) \notin shared => TallyOf(a).items <= 1 + TallyOf(a).missed
      BY <3>1 DEF TallyOf, FiledOnce, Types, TypeOK
    <3>3. /\ new \in Tally
          /\ F(a) \notin shared => new.items <= new.missed
      BY <3>2 DEF Tally
    <3> HIDE DEF new
    <3>4. F(a) \notin shared => Spare(new) /\ new.items <= 1 + new.missed
      BY <3>3 DEF Spare, Tally
    <3>5. SetTally(a, new)
      BY <2>4 DEF new
    <3> QED  BY <1>2, <2>1, <2>4, <3>1, <3>3, <3>4, <3>5, TallyFiled
  <2> QED  BY <1>3, <2>2, <2>3, <2>4, FindItemIs, NoJobIs
<1>4. CASE CreateItem(a)
  <2>1. job'[a].pc # "create_item" /\ job[a].pc = "create_item"
    BY <1>4, CreateItemIs, NoJobIs
  <2>2. CASE tracker' = tracker
    BY <1>2, <2>1, <2>2, FiledKept
  <2>3. CASE SetTally(a, [TallyOf(a) EXCEPT !.items = @ + 1])
    <3> DEFINE new == [TallyOf(a) EXCEPT !.items = @ + 1]
    <3>1. F(a) \in Fp /\ TheTarget(a) \in Target /\ job[a].f = F(a)
      BY <2>1, AboutIs, TargetIs DEF About
    <3>2. TallyOf(a) \in Tally /\ (F(a) \notin shared => Spare(TallyOf(a)))
      BY <2>1, <3>1 DEF TallyOf, FiledOK, Types, TypeOK
    <3>3. /\ new \in Tally
          /\ F(a) \notin shared => new.items <= 1 + new.missed
      BY <3>2 DEF Tally, Spare
    <3> HIDE DEF new
    <3>4. SetTally(a, new)
      BY <2>3 DEF new
    <3> QED  BY <1>2, <2>1, <3>3, <3>4, TallyFiled
  <2> QED  BY <1>4, <2>2, <2>3, CreateItemIs
<1>5. CASE WriteDraft(a) \/ WriteRemedy(a) \/ ReadLinked(a) \/ SaveLink(a) \/ CreateOne(a)
  <2>1. tracker' = tracker
    BY <1>5, WriteDraftIs, WriteRemedyIs, ReadLinkedIs, SaveLinkIs, CreateOneIs
  <2>2. job'[a].pc # "create_item"
    BY <1>5, WriteDraftIs, WriteRemedyIs, ReadLinkedIs, SaveLinkIs, CreateOneIs, NoJobIs
  <2> QED  BY <1>2, <2>1, <2>2, FiledKept
<1>6. CASE \/ Dismiss(a) \/ DropDraft(a) \/ DropRemedy(a) \/ DropDocuments(a) \/ Reopen(a)
           \/ SetDraft(a) \/ SetRemedy(a) \/ Record(a) \/ PointDraft(a) \/ PointRemedy(a)
           \/ SetFiled(a)
  <2>1. tracker' = tracker
    BY <1>6 DEF Dismiss, DropDraft, DropRemedy, DropDocuments, Reopen, SetDraft, SetRemedy, Record,
                PointDraft, PointRemedy, SetFiled
  <2>2. job'[a].pc # "create_item"
    BY <1>6, DismissIs, DropDraftIs, DropRemedyIs, DropDocumentsIs, ReopenIs, SetDraftIs, SetRemedyIs,
       RecordIs, PointDraftIs, PointRemedyIs, SetFiledIs, NoJobIs
  <2> QED  BY <1>2, <2>1, <2>2, FiledKept
<1> QED  BY <1>3, <1>4, <1>5, <1>6 DEF Working

\* What the other findings led to is out of a handler's reach.
LEMMA ProducedKept ==
  ASSUME Types, JobsOK, AloneOK, ProducedOK, NEW a \in Actor, Serves(a), Present \subseteq Present',
         \A g \in Fp : g # F(a) => produced'[g] = produced[g],
         produced'[F(a)] \subseteq Present',
         F(a) \notin shared => produced'[F(a)] \subseteq Named(rows'[F(a)]),
         F(a) \notin shared /\ job'[a].pc \in About => KeepsOK(job[a])'
  PROVE  ProducedOK'
<1>1. /\ OnlyRow(F(a)) /\ SameRuns /\ Others(a) /\ shared' = shared
      /\ job'[a].pc \in About => job'[a].f = job[a].f
  BY NoJobIs DEF Serves, About
<1>2. F(a) \in Fp /\ rows[F(a)] # None /\ job[a].f = F(a) /\ job[a].pc \in About
  BY AboutIs DEF Serves
<1>3. rows'[F(a)] # None
  BY <1>1, <1>2 DEF SameRuns
<1>4. ASSUME NEW g \in Fp
      PROVE  produced'[g] \subseteq Present' /\ (rows'[g] = None => produced'[g] = {})
  BY <1>1, <1>3 DEF ProducedOK, OnlyRow
<1>5. ASSUME NEW b \in Actor, job'[b].pc \in About, job'[b].f \notin shared'
      PROVE  KeepsOK(job[b])'
  <2>1. CASE b = a
    BY <1>1, <1>2, <1>5, <2>1
  <2>2. CASE b # a
    <3>1. job'[b] = job[b] /\ job[b].pc \in About /\ job[b].f \notin shared
      BY <1>1, <1>5, <2>2 DEF Others
    <3>2. KeepsOK(job[b])
      BY <3>1 DEF ProducedOK
    <3>3. job[b].f # F(a) /\ job[b].f \in Fp
      BY <1>2, <2>2, <3>1, AboutIs DEF AloneOK
    <3>4. rows'[job[b].f] = rows[job[b].f] /\ produced'[job[b].f] = produced[job[b].f]
      BY <1>1, <3>3 DEF OnlyRow
    <3> QED  BY <3>1, <3>2, <3>4 DEF KeepsOK
  <2> QED  BY <2>1, <2>2
<1>6. ProducedRecorded'
  <2> SUFFICES ASSUME NEW g \in Fp, g \notin shared, rows'[g] # None
               PROVE  produced'[g] \subseteq Named(rows'[g])
    BY <1>1 DEF ProducedRecorded, Named
  <2>1. CASE g = F(a)
    BY <2>1
  <2>2. CASE g # F(a)
    BY <1>1, <2>2 DEF OnlyRow, ProducedOK, ProducedRecorded, Named
  <2> QED  BY <2>1, <2>2
<1> QED  BY <1>4, <1>5, <1>6 DEF ProducedOK

\* What a handler that goes on knows of its row, while neither changes.
LEMMA ProducedStays ==
  ASSUME Types, JobsOK, AloneOK, ProducedOK, NEW a \in Actor, Serves(a), Grows,
         UNCHANGED <<rows, produced>>,
         F(a) \notin shared /\ job'[a].pc \in About => KeepsOK(job[a])'
  PROVE  ProducedOK'
<1>1. Present \subseteq Present'
  BY DEF Grows, Present
<1>2. F(a) \in Fp /\ rows[F(a)] # None
  BY AboutIs DEF Serves
<1>3. produced'[F(a)] \subseteq Present'
  BY <1>1, <1>2 DEF ProducedOK
<1>4. F(a) \notin shared => produced'[F(a)] \subseteq Named(rows'[F(a)])
  BY <1>2 DEF ProducedOK, ProducedRecorded, Named
<1> QED  BY <1>1, <1>3, <1>4, ProducedKept

\* What is there of the documents a request produced is on record.
LEMMA ProducesIs ==
  ASSUME Types, NEW f \in Fp, NEW ps \in SUBSET Path, Produces(f, ps), files' = files, ProducedOK
  PROVE  /\ Present' = Present /\ produced'[f] = produced[f] \cup (ps \cap Present)
         /\ produced'[f] \subseteq Present'
         /\ \A g \in Fp : g # f => produced'[g] = produced[g]
         /\ produced' \in [Fp -> SUBSET Path]
<1>1. produced \in [Fp -> SUBSET Path] /\ produced[f] \subseteq Present
  BY DEF Types, TypeOK, ProducedOK
<1>2. Present' = Present
  BY DEF Present
<1> QED  BY <1>1, <1>2 DEF Produces

\* Nothing a finding led to is forgotten, whatever step of a handler it is.
LEMMA WorkingProduced ==
  ASSUME Types, JobsOK, AloneOK, ProducedOK, NEW a \in Actor, Working(a)
  PROVE  ProducedOK'
<1>1. Serves(a) /\ job[a].pc \in About
  BY WorkingServes DEF Serves
<1>2. /\ F(a) \in Fp /\ rows[F(a)] \in Row /\ rows[F(a)] # None /\ job[a].f = F(a)
      /\ job[a].row \in Row /\ job[a] \in Job
  BY <1>1, AboutIs
<1>3. /\ job'[a].pc \in About => job'[a].f = F(a) /\ job'[a].row = job[a].row
      /\ produced[F(a)] \subseteq Present
      /\ F(a) \notin shared => KeepsOK(job[a]) /\ produced[F(a)] \subseteq Named(rows[F(a)])
  BY <1>1, <1>2, NoJobIs DEF Serves, About, ProducedOK, ProducedRecorded, Named
<1>4. produced \in [Fp -> SUBSET Path]
  BY DEF Types, TypeOK
<1>k. ASSUME job'[a].pc \in {"idle", "report", "set_filed", "create_item"}
      PROVE  job'[a].pc \in About => KeepsOK(job[a])'
  BY <1>k DEF KeepsOK
<1>f. files' = files => Present' = Present
  BY DEF Present
<1>5. CASE Dismiss(a) \/ Reopen(a)
  <2>1. UNCHANGED <<files, produced>>
    BY <1>5 DEF Dismiss, Reopen, docs
  <2>2. job'[a].pc = "report" /\ (F(a) \notin shared => produced'[F(a)] \subseteq Named(rows'[F(a)]))
    <3>1. CASE Dismiss(a)
      BY <1>3, <2>1, <3>1, DismissIs
    <3>2. CASE Reopen(a)
      BY <1>2, <1>3, <2>1, <3>2, ReopenIs DEF Reopen, KeepsOK
    <3> QED  BY <1>5, <3>1, <3>2
  <2> QED  BY <1>1, <1>2, <1>3, <1>k, <1>f, <2>1, <2>2, ProducedKept
<1>6. CASE DropDraft(a)
  <2>1. /\ files' = files /\ produced'[F(a)] = {} /\ job'[a].pc = "drop_remedy"
        /\ \A g \in Fp : g # F(a) => produced'[g] = produced[g]
    BY <1>2, <1>4, <1>6, DropDraftIs DEF DropDraft, docs
  <2>2. job'[a].pc \in About => KeepsOK(job[a])'
    BY <1>2, <1>3, <2>1 DEF KeepsOK
  <2> QED  BY <1>1, <1>f, <2>1, <2>2, ProducedKept
<1>7. CASE DropRemedy(a) \/ DropDocuments(a)
  <2>1. UNCHANGED <<files, produced>> /\ job[a].pc \in {"drop_remedy", "drop_documents"}
    BY <1>7 DEF DropRemedy, DropDocuments, docs
  <2>2. job'[a].pc \in {"drop_documents", "reopen"}
    BY <1>7, DropRemedyIs, DropDocumentsIs
  <2>3. F(a) \notin shared => produced[F(a)] = {}
    BY <1>2, <1>3, <2>1 DEF KeepsOK
  <2>4. F(a) \notin shared /\ job'[a].pc \in About => KeepsOK(job[a])'
    BY <1>2, <1>3, <2>1, <2>2, <2>3 DEF KeepsOK
  <2> QED  BY <1>1, <1>2, <1>3, <1>f, <2>1, <2>3, <2>4, ProducedKept
<1>8. CASE SetDraft(a) \/ SetRemedy(a)
  <2>1. /\ files' = files /\ job'[a].pc = "report" /\ job[a].path \in Path
        /\ Produces(F(a), {job[a].path})
    BY <1>8, SetDraftIs, SetRemedyIs DEF SetDraft, SetRemedy, docs
  <2>2. /\ Present' = Present /\ produced'[F(a)] = produced[F(a)] \cup ({job[a].path} \cap Present)
        /\ produced'[F(a)] \subseteq Present'
        /\ \A g \in Fp : g # F(a) => produced'[g] = produced[g]
    BY <1>2, <2>1, ProducesIs
  <2>3. F(a) \notin shared => produced'[F(a)] \subseteq Named(rows'[F(a)])
    <3> SUFFICES ASSUME F(a) \notin shared, NEW p \in produced[F(a)] \cup {job[a].path}
                 PROVE  p \in Named(rows'[F(a)])
      BY <2>2
    <3>1. KeepsOK(job[a]) /\ (p = job[a].path \/ p \in Named(rows[F(a)]))
      BY <1>3
    <3>2. CASE SetDraft(a)
      <4>1. p = job[a].path \/ p # rows[F(a)].draft
        BY <1>2, <3>1, <3>2 DEF SetDraft, KeepsOK
      <4> QED  BY <3>1, <3>2, <4>1, SetDraftIs DEF Named
    <3>3. CASE SetRemedy(a)
      <4>1. p = job[a].path \/ p # rows[F(a)].remedy
        BY <1>2, <3>1, <3>3 DEF SetRemedy, KeepsOK
      <4> QED  BY <3>1, <3>3, <4>1, SetRemedyIs DEF Named
    <3> QED  BY <1>8, <3>2, <3>3
  <2> QED  BY <1>1, <1>k, <2>1, <2>2, <2>3, ProducedKept
<1>9. CASE Record(a)
  <2>1. files' = files /\ job[a].pc = "create" /\ job[a].made \in SUBSET Path
    BY <1>9, RecordIs DEF Record, docs
  <2>2. CASE job'[a] = NoJob /\ UNCHANGED <<rows, produced>>
    BY <1>1, <1>k, <2>1, <2>2, FilesStay, ProducedStays, NoJobIs
  <2>3. CASE /\ Produces(F(a), job[a].made) /\ job'[a].pc = "point_draft"
             /\ rows'[F(a)].draft = rows[F(a)].draft /\ rows'[F(a)].remedy = rows[F(a)].remedy
             /\ rows'[F(a)].documents = RecordWith(a)
    <3>1. /\ Present' = Present /\ produced'[F(a)] = produced[F(a)] \cup (job[a].made \cap Present)
          /\ produced'[F(a)] \subseteq Present'
          /\ \A g \in Fp : g # F(a) => produced'[g] = produced[g]
      BY <1>2, <2>1, <2>3, ProducesIs
    <3>2. F(a) \notin shared => produced'[F(a)] \subseteq Named(rows'[F(a)])
      <4> SUFFICES ASSUME F(a) \notin shared PROVE produced'[F(a)] \subseteq Named(rows'[F(a)])
        OBVIOUS
      <4>1. job[a].row.documents = rows[F(a)].documents
        BY <1>2, <1>3, <2>1 DEF KeepsOK
      <4> QED  BY <1>3, <2>3, <3>1, <4>1 DEF Named, RecordWith
    <3>3. F(a) \notin shared => KeepsOK(job[a])'
      BY <1>2, <1>3, <2>1, <2>3 DEF KeepsOK, About
    <3> QED  BY <1>1, <3>1, <3>2, <3>3, ProducedKept
  <2> QED  BY <1>9, <2>2, <2>3, RecordIs
<1>10. CASE PointDraft(a)
  <2>1. /\ UNCHANGED <<files, produced>> /\ job[a].pc = "point_draft" /\ job'[a].pc = "point_remedy"
    BY <1>10, PointDraftIs DEF PointDraft, docs
  <2>2. F(a) \notin shared =>
          rows'[F(a)].remedy = rows[F(a)].remedy /\ produced[F(a)] \subseteq Named(rows'[F(a)])
    <3> SUFFICES ASSUME F(a) \notin shared
                 PROVE  /\ rows'[F(a)].remedy = rows[F(a)].remedy
                        /\ produced[F(a)] \subseteq Named(rows'[F(a)])
      OBVIOUS
    <3>1. CASE rows' = rows
      BY <1>3, <3>1
    <3>2. CASE /\ job[a].row.draft = None /\ rows'[F(a)].remedy = rows[F(a)].remedy
               /\ rows'[F(a)].documents = rows[F(a)].documents
      <4>1. rows[F(a)].draft = None
        BY <1>2, <1>3, <2>1, <3>2 DEF KeepsOK
      <4>2. None \notin produced[F(a)]
        BY <1>2, <1>4, Nones
      <4> QED  BY <1>3, <3>2, <4>1, <4>2 DEF Named
    <3> QED  BY <1>10, <3>1, <3>2, PointDraftIs
  <2>3. F(a) \notin shared => KeepsOK(job[a])'
    BY <1>2, <1>3, <2>1, <2>2 DEF KeepsOK, About
  <2> QED  BY <1>1, <1>3, <1>f, <2>1, <2>2, <2>3, ProducedKept
<1>11. CASE PointRemedy(a)
  <2>1. /\ UNCHANGED <<files, produced>> /\ job[a].pc = "point_remedy" /\ job'[a].pc = "report"
    BY <1>11, PointRemedyIs DEF PointRemedy, docs
  <2>2. F(a) \notin shared => produced[F(a)] \subseteq Named(rows'[F(a)])
    <3> SUFFICES ASSUME F(a) \notin shared PROVE produced[F(a)] \subseteq Named(rows'[F(a)])
      OBVIOUS
    <3>1. CASE rows' = rows
      BY <1>3, <3>1
    <3>2. CASE /\ job[a].row.remedy = None /\ rows'[F(a)].draft = rows[F(a)].draft
               /\ rows'[F(a)].documents = rows[F(a)].documents
      <4>1. rows[F(a)].remedy = None
        BY <1>2, <1>3, <2>1, <3>2 DEF KeepsOK
      <4>2. None \notin produced[F(a)]
        BY <1>2, <1>4, Nones
      <4> QED  BY <1>3, <3>2, <4>1, <4>2 DEF Named
    <3> QED  BY <1>11, <3>1, <3>2, PointRemedyIs
  <2> QED  BY <1>1, <1>3, <1>f, <1>k, <2>1, <2>2, ProducedKept
<1>12. CASE SetFiled(a)
  <2>1. /\ UNCHANGED <<files, produced>> /\ job'[a].pc = "link" /\ job'[a].next = "idle"
        /\ Named(rows'[F(a)]) = Named(rows[F(a)])
    BY <1>12, SetFiledIs DEF SetFiled, docs
  <2>2. KeepsOK(job[a])'
    BY <2>1 DEF KeepsOK
  <2> QED  BY <1>1, <1>3, <1>f, <2>1, <2>2, ProducedKept
<1>13. CASE FindItem(a) \/ CreateItem(a)
  <2>1. /\ UNCHANGED <<rows, produced, files>>
        /\ job'[a].pc \in {"idle", "set_filed", "create_item"}
    BY <1>13, FindItemIs, CreateItemIs, NoJobIs
  <2> QED  BY <1>1, <1>k, <2>1, FilesStay, ProducedStays
<1>14. CASE WriteDraft(a) \/ WriteRemedy(a) \/ ReadLinked(a) \/ SaveLink(a) \/ CreateOne(a)
  <2>1. Grows /\ UNCHANGED <<rows, produced>>
    BY <1>14, WriteDraftIs, WriteRemedyIs, ReadLinkedIs, SaveLinkIs, CreateOneIs
  <2>2. F(a) \notin shared /\ job'[a].pc \in About => KeepsOK(job[a])'
    <3> SUFFICES ASSUME F(a) \notin shared, job'[a].pc \in About PROVE KeepsOK(job[a])'
      OBVIOUS
    <3>1. KeepsOK(job[a]) /\ job'[a] # NoJob /\ job'[a].f = F(a) /\ job'[a].row = job[a].row
      BY <1>3, NoJobIs DEF About
    <3>2. CASE WriteDraft(a)
      BY <1>2, <2>1, <3>1, <3>2, WriteDraftIs DEF KeepsOK
    <3>3. CASE WriteRemedy(a)
      BY <1>2, <2>1, <3>1, <3>3, WriteRemedyIs DEF KeepsOK
    <3>4. CASE ReadLinked(a)
      BY <1>2, <2>1, <3>1, <3>4, ReadLinkedIs DEF KeepsOK
    <3>5. CASE SaveLink(a)
      BY <1>2, <2>1, <3>1, <3>5, SaveLinkIs DEF KeepsOK
    <3>6. CASE CreateOne(a)
      BY <1>2, <2>1, <3>1, <3>6, CreateOneIs DEF KeepsOK
    <3> QED  BY <1>14, <3>2, <3>3, <3>4, <3>5, <3>6
  <2> QED  BY <1>1, <2>1, <2>2, ProducedStays
<1> QED  BY <1>5, <1>6, <1>7, <1>8, <1>9, <1>10, <1>11, <1>12, <1>13, <1>14 DEF Working

\* A handler's step keeps the types.
LEMMA WorkingTypes ==
  ASSUME Types, JobsOK, NEW a \in Actor, Working(a)
  PROVE  Types'
<1>1. Serves(a) /\ Grows /\ job[a].pc \in About
  BY WorkingServes, WorkingGrows DEF Serves
<1>2. job[a] \in Job /\ F(a) \in Fp
  BY <1>1, AboutIs
<1>3. tracker' \in [Fp -> [Target -> Tally]]
  <2>1. tracker \in [Fp -> [Target -> Tally]]
    BY DEF Types, TypeOK
  <2>2. CASE tracker' = tracker
    BY <2>1, <2>2
  <2>3. CASE FindItem(a) \/ CreateItem(a)
    <3>1. TheTarget(a) \in Target
      BY <2>3, TargetIs DEF FindItem, CreateItem
    <3>2. /\ [TallyOf(a) EXCEPT !.missed = @ + 1] \in Tally
          /\ [TallyOf(a) EXCEPT !.items = @ + 1] \in Tally
      BY <1>2, <2>1, <3>1 DEF TallyOf, Tally
    <3> QED  BY <1>2, <2>2, <2>3, <3>1, <3>2, FindItemIs, CreateItemIs, SetTallyIs
  <2> QED  BY <2>2, <2>3, WriteDraftIs, WriteRemedyIs, ReadLinkedIs, SaveLinkIs, CreateOneIs
              DEF Working, Dismiss, DropDraft, DropRemedy, DropDocuments, Reopen,
              SetDraft, SetRemedy, Record, PointDraft, PointRemedy, SetFiled
<1>4. produced' \in [Fp -> SUBSET Path]
  <2>1. produced \in [Fp -> SUBSET Path]
    BY DEF Types, TypeOK
  <2>2. CASE produced' = produced
    BY <2>1, <2>2
  <2>3. CASE DropDraft(a)
    BY <2>1, <2>3 DEF DropDraft
  <2>4. CASE \E ps \in SUBSET Path : Produces(F(a), ps)
    <3>1. PICK ps \in SUBSET Path : Produces(F(a), ps)
      BY <2>4
    <3>2. produced[F(a)] \cup (ps \cap Present) \in SUBSET Path
      BY <1>2, <2>1, <3>1
    <3> QED  BY <2>1, <3>1, <3>2 DEF Produces
  <2>5. CASE SetDraft(a) \/ SetRemedy(a)
    <3>1. {job[a].path} \in SUBSET Path /\ Produces(F(a), {job[a].path})
      BY <2>5, SetDraftIs, SetRemedyIs DEF SetDraft, SetRemedy
    <3> QED  BY <2>4, <3>1
  <2>6. CASE Record(a)
    BY <2>2, <2>4, <2>6, RecordIs
  <2> QED  BY <2>2, <2>3, <2>5, <2>6, WriteDraftIs, WriteRemedyIs, ReadLinkedIs, SaveLinkIs,
              CreateOneIs, FindItemIs, CreateItemIs
           DEF Working, Dismiss, DropRemedy, DropDocuments, Reopen, PointDraft, PointRemedy, SetFiled
<1>5. /\ rows' \in [Fp -> Row \cup {None}] /\ job' \in [Actor -> Job] /\ rep' \in [Proc -> Rep]
      /\ overtaken' \subseteq Proc /\ files' \in [Path -> File \cup {None}]
      /\ UNCHANGED <<runs, worker, report, landed, inventory, behind, shared, requests, edits>>
  BY <1>1 DEF Serves, Grows
<1>6. \A b \in Actor : job'[b].f \in Fp \cup {None}
  BY <1>5 DEF Job
<1> QED  BY <1>3, <1>4, <1>5, <1>6 DEF Types, TypeOK, Newest

\* A handler's step keeps the invariant.
LEMMA WorkingKeeps ==
  ASSUME FindingIInv, NEW a \in Actor, Working(a)
  PROVE  FindingIInv'
<1>1. /\ Types /\ JobsOK /\ WritersOK /\ StoredOK /\ OwnersResolve /\ LogOK /\ ReportOK /\ AloneOK
      /\ FiledOK /\ FiledOnce /\ ProducedOK
  BY DEF FindingIInv
<1>2. JobsOK' /\ WritersOK' /\ StoredOK' /\ OwnersResolve' /\ LogOK' /\ ReportOK' /\ AloneOK'
  BY <1>1, WorkingServes, ServesRest
<1> QED  BY <1>1, <1>2, WorkingTypes, WorkingFiled, WorkingProduced DEF FindingIInv

-----------------------------------------------------------------------------
(* The first step of a request                                             *)


\* What a handler knows of its finding when it begins.
LEMMA StartIs ==
  ASSUME Types, ProducedOK, NEW a \in Actor, NEW f \in Fp, Start(a, f)
  PROVE  \E pc \in About \ {"report", "create_item"}, todo \in SUBSET (Path \cup Target) :
            /\ BeginWith(a, f, pc, todo)
            /\ pc \in {"dismiss", "drop_draft", "draft", "remedy", "create", "find"}
            /\ pc = "create" => todo \subseteq Path
            /\ pc = "find" => \E t \in Target : todo = {t}
            /\ pc = "draft" => rows[f].draft \notin produced[f]
            /\ pc = "remedy" => rows[f].remedy \notin produced[f]
<1>1. \A p : p \in produced[f] => Exists(p)
  BY Nones DEF ProducedOK, Present, Exists
<1>2. {} \in SUBSET (Path \cup Target)
  OBVIOUS
<1>3. CASE StartDismiss(a, f)
  <2>1. BeginWith(a, f, "dismiss", {}) /\ "dismiss" \in About \ {"report", "create_item"}
    BY <1>3 DEF StartDismiss, Begin, About
  <2> QED  BY <1>2, <2>1
<1>4. CASE StartReopen(a, f)
  <2>1. BeginWith(a, f, "drop_draft", {}) /\ "drop_draft" \in About \ {"report", "create_item"}
    BY <1>4 DEF StartReopen, Begin, About
  <2> QED  BY <1>2, <2>1
<1>5. CASE StartDraft(a, f)
  <2>1. /\ BeginWith(a, f, "draft", {}) /\ "draft" \in About \ {"report", "create_item"}
        /\ rows[f].draft \notin produced[f]
    BY <1>1, <1>5 DEF StartDraft, Begin, About
  <2> QED  BY <1>2, <2>1
<1>6. CASE StartRemedy(a, f)
  <2>1. /\ BeginWith(a, f, "remedy", {}) /\ "remedy" \in About \ {"report", "create_item"}
        /\ rows[f].remedy \notin produced[f]
    BY <1>1, <1>6 DEF StartRemedy, Begin, About
  <2> QED  BY <1>2, <2>1
<1>7. CASE StartCreate(a, f)
  <2>1. PICK plan \in SUBSET Path : BeginWith(a, f, "create", plan)
    BY <1>7 DEF StartCreate
  <2>2. plan \in SUBSET (Path \cup Target) /\ "create" \in About \ {"report", "create_item"}
    BY <2>1 DEF About
  <2> QED  BY <2>1, <2>2
<1>8. CASE StartFile(a, f)
  <2>1. PICK t \in Target : BeginWith(a, f, "find", {t})
    BY <1>8 DEF StartFile
  <2>2. {t} \in SUBSET (Path \cup Target) /\ "find" \in About \ {"report", "create_item"}
    BY <2>1 DEF About
  <2> QED  BY <2>1, <2>2
<1> QED  BY <1>3, <1>4, <1>5, <1>6, <1>7, <1>8 DEF Start

\* A handler that begins keeps the invariant.
LEMMA StartKeeps ==
  ASSUME FindingIInv, NEW a \in Actor, NEW f \in Fp, Start(a, f)
  PROVE  FindingIInv'
<1>1. /\ Types /\ JobsOK /\ WritersOK /\ StoredOK /\ OwnersResolve /\ LogOK /\ ReportOK /\ AloneOK
      /\ FiledOK /\ FiledOnce /\ ProducedOK
  BY DEF FindingIInv
<1>2. PICK pc \in About \ {"report", "create_item"}, todo \in SUBSET (Path \cup Target) :
            /\ BeginWith(a, f, pc, todo)
            /\ pc \in {"dismiss", "drop_draft", "draft", "remedy", "create", "find"}
            /\ pc = "create" => todo \subseteq Path
            /\ pc = "find" => \E t \in Target : todo = {t}
            /\ pc = "draft" => rows[f].draft \notin produced[f]
            /\ pc = "remedy" => rows[f].remedy \notin produced[f]
  BY <1>1, StartIs
<1>3. /\ job \in [Actor -> Job] /\ rows \in [Fp -> Row \cup {None}]
  BY <1>1 DEF Types, TypeOK
<1>4. /\ job' \in [Actor -> Job] /\ Others(a) /\ job[a].pc = "idle"
      /\ job'[a].pc = pc /\ job'[a].f = f /\ job'[a].row = rows[f] /\ job'[a].todo = todo
      /\ job'[a].made = {} /\ job'[a].next = "idle" /\ rows[f] # None
  BY <1>2, <1>3, BeginIs
<1>5. /\ UNCHANGED <<rows, runs, tracker, landed, files, report, inventory, worker, rep, edits,
                     overtaken, behind, produced>>
      /\ requests' = requests + 1 /\ requests < MaxRequests
      /\ shared' = IF \E b \in Actor : job[b].f = f THEN shared \cup {f} ELSE shared
  BY <1>2 DEF BeginWith, table, docs
<1>6. shared \subseteq shared' /\ shared' \subseteq Fp
  BY <1>1, <1>5 DEF Types, TypeOK
<1>7. Types'
  <2>1. requests' \in 0..MaxRequests
    BY <1>1, <1>5, ConstantsAssumption DEF Types, TypeOK, ConstantsAssumption
  <2>2. \A b \in Actor : job'[b].f \in Fp \cup {None}
    BY <1>4 DEF Job
  <2> QED  BY <1>1, <1>4, <1>5, <1>6, <2>1, <2>2 DEF Types, TypeOK, Newest
<1>8. JobsOK'
  <2>1. rows[f] \in Row
    BY <1>3, <1>4
  <2>2. JobOK(job[a])'
    BY <1>2, <1>4, <1>5, <2>1 DEF JobOK
  <2> QED  BY <1>1, <1>4, <1>5, <2>2, JobsKept
<1>9. WritersOK'
  <2>1. Active' = Active /\ Running' = Running
    BY <1>5 DEF Active, Running, Newest
  <2>2. ASSUME NEW b \in Actor
        PROVE  (rep'[b].pc # "idle" <=> job'[b].pc = "report") /\ ~rep'[b].final
    BY <1>1, <1>2, <1>4, <1>5 DEF WritersOK, Others
  <2> QED  BY <1>1, <1>5, <2>1, <2>2 DEF WritersOK
<1>10. StoredOK' /\ OwnersResolve' /\ LogOK'
  BY <1>1, <1>5, RowsStay, StoredKept, LogKept
<1>11. ReportOK'
  <2>1. Visible' = Visible /\ WorkerOwes' = WorkerOwes
    BY <1>5 DEF Visible, WorkerOwes, Active
  <2>2. \A b \in Actor : Owes(b) => Owes(b)'
    BY <1>4 DEF Others, Owes
  <2> QED  BY <1>1, <1>5, <2>1, <2>2 DEF ReportOK
<1>12. AloneOK'
  <2> SUFFICES ASSUME NEW b \in Actor, NEW c \in Actor, b # c, job'[b].pc \in About,
                      job'[c].pc \in About, job'[b].f = job'[c].f
               PROVE  job'[b].f \in shared'
    BY DEF AloneOK
  <2>1. CASE b # a /\ c # a
    BY <1>1, <1>4, <1>6, <2>1 DEF Others, AloneOK
  <2>2. CASE b = a \/ c = a
    BY <1>4, <1>5, <2>2 DEF Others
  <2> QED  BY <2>1, <2>2
<1>13. FiledOK' /\ FiledOnce'
  BY <1>1, <1>2, <1>4, <1>5, <1>6, FiledKept
<1>14. ProducedOK'
  <2>1. Present' = Present
    BY <1>5 DEF Present
  <2>2. ASSUME NEW b \in Actor, job'[b].pc \in About, job'[b].f \notin shared'
        PROVE  KeepsOK(job[b])'
    <3>1. CASE b = a
      BY <1>2, <1>4, <1>5, <3>1 DEF KeepsOK
    <3>2. CASE b # a
      <4>1. job'[b] = job[b] /\ KeepsOK(job[b])
        BY <1>1, <1>4, <1>6, <2>2, <3>2 DEF Others, ProducedOK
      <4> QED  BY <1>5, <4>1 DEF KeepsOK
    <3> QED  BY <3>1, <3>2
  <2>3. ProducedRecorded'
    BY <1>1, <1>5, <1>6 DEF ProducedOK, ProducedRecorded
  <2> QED  BY <1>1, <1>5, <2>1, <2>2, <2>3 DEF ProducedOK
<1> QED  BY <1>7, <1>8, <1>9, <1>10, <1>11, <1>12, <1>13, <1>14 DEF FindingIInv

-----------------------------------------------------------------------------
(* A request for a run, and its claim of the branch                        *)

\* Runs and rows that stay.
LEMMA RestKept ==
  ASSUME Types, FiledOK, FiledOnce, ProducedOK, NEW a \in Actor, Others(a),
         job'[a].pc \notin About,
         UNCHANGED <<rows, tracker, files, shared, produced>>
  PROVE  FiledOK' /\ FiledOnce' /\ ProducedOK'
<1>1. job'[a].pc # "create_item"
  BY DEF About
<1>2. FiledOK' /\ FiledOnce'
  BY <1>1, FiledKept
<1>3. Present' = Present
  BY DEF Present
<1>4. ASSUME NEW b \in Actor, job'[b].pc \in About, job'[b].f \notin shared'
      PROVE  KeepsOK(job[b])'
  <2>1. job'[b] = job[b] /\ KeepsOK(job[b])
    BY <1>4 DEF Others, ProducedOK
  <2> QED  BY <2>1 DEF KeepsOK
<1>5. ProducedRecorded'
  BY DEF ProducedOK, ProducedRecorded
<1> QED  BY <1>2, <1>3, <1>4, <1>5 DEF ProducedOK

\* A request for a run takes the documents and changes nothing.
LEMMA RequestRunKeeps ==
  ASSUME FindingIInv, NEW a \in Actor, RequestRun(a)
  PROVE  FindingIInv'
<1>1. /\ Types /\ JobsOK /\ WritersOK /\ StoredOK /\ OwnersResolve /\ LogOK /\ ReportOK /\ AloneOK
      /\ FiledOK /\ FiledOnce /\ ProducedOK
  BY DEF FindingIInv
<1>2. UNCHANGED <<rows, runs, tracker, landed, files, report, inventory, worker, rep, requests, edits,
                  overtaken, behind, shared, produced>>
  BY DEF RequestRun, table, docs, events, aux
<1>3. Audited \in SUBSET Path
  BY <1>1 DEF Audited, Present, Types, TypeOK
<1> DEFINE new == [NoJob EXCEPT !.pc = "claim", !.todo = Audited]
<1>4. new \in Job /\ new.pc = "claim" /\ new.todo \subseteq Path
  BY <1>3, NoJobIs DEF Job
<1>5. job' = [job EXCEPT ![a] = new] /\ job[a].pc = "idle"
  BY DEF RequestRun
<1> HIDE DEF new
<1>6. job' \in [Actor -> Job] /\ job'[a] = new /\ Others(a)
  BY <1>1, <1>4, <1>5, SetJob DEF Types
<1>7. job'[a].pc \notin About
  BY <1>4, <1>6 DEF About
<1>8. Types'
  <2>1. \A b \in Actor : job'[b].f \in Fp \cup {None}
    BY <1>6 DEF Job
  <2> QED  BY <1>1, <1>2, <1>6, <2>1 DEF Types, TypeOK, Newest
<1>9. JobsOK'
  <2>1. JobOK(job[a])'
    BY <1>4, <1>6, <1>7 DEF JobOK
  <2> QED  BY <1>1, <1>2, <1>6, <2>1, JobsKept
<1>10. WritersOK'
  <2>1. Active' = Active /\ Running' = Running
    BY <1>2 DEF Active, Running, Newest
  <2>2. ASSUME NEW b \in Actor
        PROVE  (rep'[b].pc # "idle" <=> job'[b].pc = "report") /\ ~rep'[b].final
    BY <1>1, <1>2, <1>4, <1>5, <1>6 DEF WritersOK, Others
  <2> QED  BY <1>1, <1>2, <2>1, <2>2 DEF WritersOK
<1>11. StoredOK' /\ OwnersResolve' /\ LogOK'
  BY <1>1, <1>2, RowsStay, StoredKept, LogKept
<1>12. ReportOK'
  <2>1. Visible' = Visible /\ WorkerOwes' = WorkerOwes
    BY <1>2 DEF Visible, WorkerOwes, Active
  <2>2. \A b \in Actor : Owes(b) => Owes(b)'
    BY <1>5, <1>6 DEF Others, Owes
  <2> QED  BY <1>1, <1>2, <2>1, <2>2 DEF ReportOK
<1>13. AloneOK'
  BY <1>1, <1>2, <1>6, <1>7, AloneKept
<1> QED  BY <1>1, <1>2, <1>6, <1>7, <1>8, <1>9, <1>10, <1>11, <1>12, <1>13, RestKept DEF FindingIInv

\* A run begins with nothing stored.
LEMMA ClaimRunKeeps ==
  ASSUME FindingIInv, NEW a \in Actor, ClaimRun(a)
  PROVE  FindingIInv'
<1>1. /\ Types /\ JobsOK /\ WritersOK /\ StoredOK /\ OwnersResolve /\ LogOK /\ ReportOK /\ AloneOK
      /\ FiledOK /\ FiledOnce /\ ProducedOK
  BY DEF FindingIInv
<1>2. /\ UNCHANGED <<rows, tracker, landed, files, report, inventory, rep, requests, edits,
                     overtaken, behind, shared, produced>>
      /\ Answer(a) /\ job[a].pc = "claim"
  BY DEF ClaimRun, docs, events, aux
<1>3. /\ job' \in [Actor -> Job] /\ Others(a) /\ job'[a] = NoJob /\ job'[a].pc = "idle"
  BY <1>1, <1>2, AnswerIs DEF Types
<1>4. job'[a].pc \notin About
  BY <1>3 DEF About
<1>5. job[a].todo \in SUBSET Path
  BY <1>1, <1>2 DEF JobsOK, JobOK
<1>6. /\ runs \in Seq(Run) /\ Newest \in Nat /\ Newest > 0 /\ worker \in Work
  BY <1>1 DEF Types, TypeOK, Newest
<1>7. \/ UNCHANGED <<runs, worker>>
      \/ /\ worker.pc = "idle"
         /\ \E r \in Recipe, scope \in SUBSET (Path \cup {Source}) :
              /\ runs' = Append(runs, [status |-> "running", recipe |-> r, snap |-> job[a].todo])
              /\ worker' = [NoWork EXCEPT !.pc = "retire", !.scope = scope]
  <2>1. CASE worker.pc = "idle" /\ Newest < MaxRuns /\ Budget
    <3>1. PICK r \in Recipe : \E scope \in IF r.perSource THEN {{Source}} ELSE (SUBSET job[a].todo) \ {{}} :
                /\ runs' = Append(runs, [status |-> "running", recipe |-> r, snap |-> job[a].todo])
                /\ worker' = [NoWork EXCEPT !.pc = "retire", !.scope = scope]
      BY <2>1 DEF ClaimRun
    <3>2. PICK scope \in IF r.perSource THEN {{Source}} ELSE (SUBSET job[a].todo) \ {{}} :
                /\ runs' = Append(runs, [status |-> "running", recipe |-> r, snap |-> job[a].todo])
                /\ worker' = [NoWork EXCEPT !.pc = "retire", !.scope = scope]
      BY <3>1
    <3>3. scope \in SUBSET (Path \cup {Source})
      BY <1>5, <3>2
    <3> QED  BY <2>1, <3>2, <3>3
  <2>2. CASE ~(worker.pc = "idle" /\ Newest < MaxRuns /\ Budget)
    BY <2>2 DEF ClaimRun
  <2> QED  BY <2>1, <2>2
<1>8. Types' /\ WritersOK' /\ StoredOK' /\ OwnersResolve' /\ LogOK' /\ (WorkerOwes => WorkerOwes')
  <2>1. \A b \in Actor : job'[b].f \in Fp \cup {None}
    BY <1>3 DEF Job
  <2>2. \A b \in Actor : (rep'[b].pc # "idle" <=> job'[b].pc = "report") /\ ~rep'[b].final
    BY <1>1, <1>2, <1>3 DEF WritersOK, Others
  <2>3. CASE UNCHANGED <<runs, worker>>
    <3>1. Types'
      BY <1>1, <1>2, <1>3, <2>1, <2>3 DEF Types, TypeOK, Newest
    <3>2. WritersOK' /\ (WorkerOwes => WorkerOwes')
      <4>1. Active' = Active /\ Running' = Running
        BY <2>3 DEF Active, Running, Newest
      <4> QED  BY <1>1, <1>2, <2>2, <2>3, <4>1 DEF WritersOK, WorkerOwes
    <3> QED  BY <1>1, <1>2, <2>3, <3>1, <3>2, RowsStay, StoredKept, LogKept
  <2>4. ASSUME worker.pc = "idle", NEW r \in Recipe, NEW scope \in SUBSET (Path \cup {Source}),
               runs' = Append(runs, [status |-> "running", recipe |-> r, snap |-> job[a].todo]),
               worker' = [NoWork EXCEPT !.pc = "retire", !.scope = scope]
        PROVE  Types' /\ WritersOK' /\ StoredOK' /\ OwnersResolve' /\ LogOK' /\ WorkerOwes'
    <3> DEFINE run == [status |-> "running", recipe |-> r, snap |-> job[a].todo]
    <3>1. run \in Run /\ run.status = "running"
      BY <1>5 DEF Run
    <3>2. runs' = Append(runs, run)
      BY <2>4
    <3> HIDE DEF run
    <3>3. /\ runs' \in Seq(Run) /\ Newest' = Newest + 1 /\ runs'[Newest'] = run
          /\ \A i \in 1..Newest : runs'[i] = runs[i]
      BY <1>6, <3>1, <3>2 DEF Newest
    <3>4. worker' \in Work /\ worker'.pc = "retire" /\ worker'.todo = {} /\ worker'.scope = scope
      BY <2>4, NoWorkIs DEF Work
    <3>5. Types'
      BY <1>1, <1>2, <1>3, <1>6, <2>1, <3>3, <3>4 DEF Types, TypeOK
    <3>6. Active' /\ Running' /\ WorkerOwes'
      BY <1>6, <3>1, <3>3, <3>4 DEF Active, Running, WorkerOwes
    <3>7. WritersOK'
      <4>1. rep["worker"].pc = "idle"
        BY <1>1, <2>4 DEF WritersOK
      <4> QED  BY <1>2, <2>2, <3>6, <4>1 DEF WritersOK
    <3>8. \A f \in Fp : rows[f] # None => rows[f].run \in Nat /\ rows[f].run <= Newest
      BY <1>1 DEF StoredOK, Types, TypeOK, Row
    <3>9. StoredOK'
      BY <1>2, <1>6, <3>3, <3>4, <3>8 DEF StoredOK
    <3>10. OwnersResolve'
      <4> SUFFICES ASSUME NEW f \in Fp, rows'[f] # None, ~rows'[f].live
                   PROVE  \E i \in rows'[f].run + 1 .. Newest' :
                            \/ f \in Owned(runs'[i].recipe)
                            \/ DocPath[f] \notin runs'[i].snap \cup {None}
        BY DEF OwnersResolve
      <4>1. PICK i \in rows[f].run + 1 .. Newest : \/ f \in Owned(runs[i].recipe)
                                                   \/ DocPath[f] \notin runs[i].snap \cup {None}
        BY <1>1, <1>2 DEF OwnersResolve
      <4>2. rows[f].run \in Nat
        BY <1>2, <3>8
      <4>3. i \in 1..Newest /\ i \in rows[f].run + 1 .. Newest'
        BY <1>6, <3>3, <4>1, <4>2
      <4>4. runs'[i] = runs[i]
        BY <3>3, <4>3
      <4> QED  BY <1>2, <4>1, <4>3, <4>4
    <3>11. LogOK'
      <4> SUFFICES ASSUME report # None, NEW i \in 1..Len(report.log)
                   PROVE  report.log[i] <= Newest' /\ report.log[i] # Newest'
        BY <1>2 DEF LogOK
      <4>1. report.log \in Seq(Nat)
        BY <1>1 DEF Types, TypeOK, Report
      <4>2. report.log[i] \in Nat /\ report.log[i] <= Newest
        BY <1>1, <4>1 DEF LogOK
      <4> QED  BY <1>6, <3>3, <4>2
    <3> QED  BY <3>5, <3>6, <3>7, <3>9, <3>10, <3>11
  <2> QED  BY <1>7, <2>3, <2>4
<1>9. JobsOK'
  <2>1. JobOK(job[a])'
    BY <1>3, <1>4 DEF JobOK
  <2> QED  BY <1>1, <1>2, <1>3, <2>1, JobsKept
<1>10. ReportOK'
  <2>1. Visible' = Visible
    BY <1>2 DEF Visible
  <2>2. \A b \in Actor : Owes(b) => Owes(b)'
    BY <1>2, <1>3 DEF Others, Owes
  <2> QED  BY <1>1, <1>2, <1>8, <2>1, <2>2 DEF ReportOK
<1>11. AloneOK'
  BY <1>1, <1>2, <1>3, <1>4, AloneKept
<1> QED  BY <1>1, <1>2, <1>3, <1>4, <1>8, <1>9, <1>10, <1>11, RestKept DEF FindingIInv

-----------------------------------------------------------------------------
(* The worker                                                              *)

\* What users did with a finding stays.
SameTriage == \A f \in Fp : rows[f] # None => /\ rows'[f] # None
                                              /\ Triage(rows'[f]) = Triage(rows[f])

\* A step that leaves what users did leaves what requests know of it.
LEMMA TriageKept ==
  ASSUME Types, JobsOK, AloneOK, FiledOK, FiledOnce, ProducedOK, SameTriage,
         UNCHANGED <<job, files, produced, shared, tracker>>
  PROVE  JobsOK' /\ AloneOK' /\ FiledOK' /\ FiledOnce' /\ ProducedOK'
<1>1. ASSUME NEW f \in Fp, rows[f] # None
      PROVE  /\ rows'[f] # None /\ rows'[f].draft = rows[f].draft
             /\ rows'[f].remedy = rows[f].remedy /\ rows'[f].documents = rows[f].documents
  BY <1>1 DEF SameTriage, Triage
<1>2. JobsOK'
  <2> SUFFICES ASSUME NEW a \in Actor PROVE JobOK(job[a])'
    BY DEF JobsOK
  <2>1. job'[a] = job[a] /\ JobOK(job[a])
    BY DEF JobsOK
  <2> QED  BY <1>1, <2>1 DEF JobOK
<1>3. AloneOK' /\ FiledOnce'
  BY DEF AloneOK, FiledOnce
<1>4. FiledOK'
  BY DEF FiledOK, TheTarget
<1>5. ProducedOK'
  <2>1. Present' = Present
    BY DEF Present
  <2>2. ASSUME NEW a \in Actor, job'[a].pc \in About, job'[a].f \notin shared'
        PROVE  KeepsOK(job[a])'
    <3>1. job'[a] = job[a] /\ KeepsOK(job[a]) /\ job[a].pc \in About
      BY <2>2 DEF ProducedOK
    <3>2. job[a].f \in Fp /\ rows[job[a].f] # None
      BY <3>1, AboutIs
    <3> QED  BY <1>1, <3>1, <3>2 DEF KeepsOK
  <2>3. ASSUME NEW f \in Fp
        PROVE  /\ produced'[f] \subseteq Present' /\ (rows'[f] = None => produced'[f] = {})
               /\ f \notin shared' /\ rows'[f] # None =>
                     produced'[f] \subseteq {rows'[f].draft, rows'[f].remedy} \cup rows'[f].documents
    <3>1. CASE rows[f] = None
      BY <2>1, <3>1 DEF ProducedOK
    <3>2. CASE rows[f] # None
      BY <1>1, <2>1, <3>2 DEF ProducedOK, ProducedRecorded
    <3> QED  BY <3>1, <3>2
  <2> QED  BY <2>2, <2>3 DEF ProducedOK, ProducedRecorded
<1> QED  BY <1>2, <1>3, <1>4, <1>5

\* Rows that change overtake their readers, and the worker owes a report.
LEMMA WorkerReport ==
  ASSUME ReportOK, UNCHANGED <<job, report, behind>>, OtherReps("worker"),
         rep'["worker"] = rep["worker"] \/ rep'["worker"].pc = "rows",
         \/ UNCHANGED <<rows, overtaken>> /\ (WorkerOwes => WorkerOwes')
         \/ overtaken' = overtaken \cup Reported /\ WorkerOwes'
  PROVE  ReportOK'
<1>1. ASSUME NEW p \in Proc, p \notin overtaken', rep'[p].pc \in {"file", "save"}
      PROVE  rep'[p].shown = Visible'
  <2>1. rep'[p] = rep[p]
    BY <1>1 DEF OtherReps
  <2>2. rows' = rows /\ p \notin overtaken
    BY <1>1, <2>1 DEF Reported
  <2>3. Visible' = Visible
    BY <2>2 DEF Visible
  <2> QED  BY <1>1, <2>1, <2>2, <2>3 DEF ReportOK
<1>2. report' # None /\ ~behind' =>
          report'.shown = Visible' \/ WorkerOwes' \/ (\E a \in Actor : Owes(a)')
  <2>1. CASE UNCHANGED <<rows, overtaken>> /\ (WorkerOwes => WorkerOwes')
    <3>1. Visible' = Visible /\ \A a \in Actor : Owes(a)' = Owes(a)
      BY <2>1 DEF Visible, Owes
    <3> QED  BY <2>1, <3>1 DEF ReportOK
  <2>2. CASE WorkerOwes'
    BY <2>2
  <2> QED  BY <2>1, <2>2
<1> QED  BY <1>1, <1>2 DEF ReportOK

\* The other parts of the invariant that a step of the worker could disturb.
Ours == Types /\ WritersOK /\ StoredOK /\ OwnersResolve /\ LogOK /\ ReportOK

\* A run is under way: the log does not name it, and its recipe is the current.
LEMMA ActiveIs ==
  ASSUME Types, WritersOK, StoredOK, LogOK, Active
  PROVE  /\ Running /\ Newest \in Nat \ {0} /\ runs \in Seq(Run) /\ runs[Newest] \in Run
         /\ worker \in Work
         /\ report # None => \A i \in 1..Len(report.log) :
               report.log[i] <= Newest /\ report.log[i] # Newest
         /\ \A f \in Fp : rows[f] # None => /\ rows[f] \in Row /\ rows[f].run \in Nat
                                            /\ rows[f].run <= Newest
<1>1. runs \in Seq(Run) /\ Newest > 0 /\ worker \in Work /\ rows \in [Fp -> Row \cup {None}]
  BY DEF Types, TypeOK
<1>2. Newest \in Nat \ {0} /\ runs[Newest] \in Run
  BY <1>1 DEF Newest
<1>3. Running
  BY DEF WritersOK
<1>4. \A f \in Fp : rows[f] # None => rows[f] \in Row /\ rows[f].run \in Nat /\ rows[f].run <= Newest
  BY <1>1 DEF Row, StoredOK
<1> QED  BY <1>1, <1>2, <1>3, <1>4 DEF LogOK

\* A step of a run under way that leaves it so, and the runs as they are.
LEMMA ActiveStep ==
  ASSUME Types, WritersOK, LogOK, Active, Active', UNCHANGED <<runs, job, report>>,
         OtherReps("worker"),
         \/ rep' = rep /\ rep["worker"].pc = "idle"
         \/ rep'["worker"].final = FALSE /\ worker'.pc = "unit"
  PROVE  WritersOK' /\ LogOK' /\ WorkerOwes' /\ Newest' = Newest /\ Current' = Current
<1>1. Newest' = Newest /\ Current' = Current /\ Running' = Running
  BY DEF Newest, Current, Running
<1>2. \A a \in Actor : (rep'[a].pc # "idle" <=> job'[a].pc = "report") /\ ~rep'[a].final
  BY Nones DEF WritersOK, OtherReps, Proc
<1>3. WritersOK'
  BY <1>1, <1>2 DEF WritersOK
<1>4. LogOK'
  BY <1>1 DEF LogOK
<1> QED  BY <1>1, <1>3, <1>4 DEF WorkerOwes

\* A worker that works, but on no report, writes none.
LEMMA WorkerWrites ==
  ASSUME WritersOK, worker.pc \notin {"unit", "release"}
  PROVE  rep["worker"].pc = "idle"
  BY DEF WritersOK

\* Retiring leaves the run with nothing stored, and what it retires resolved.
LEMMA RetireKeeps ==
  ASSUME Ours, Retire
  PROVE  Ours' /\ SameTriage
<1>1. Types /\ WritersOK /\ StoredOK /\ OwnersResolve /\ LogOK /\ ReportOK /\ Active
  BY DEF Ours, Active, Retire
<1>2. /\ worker.pc = "retire" /\ worker' = [worker EXCEPT !.pc = "unit"]
      /\ UNCHANGED <<runs, tracker, landed, files, report, inventory, job, rep, behind, shared,
                     produced, requests, edits>>
      /\ overtaken' = overtaken \cup Reported
      /\ rows' = [f \in Fp |-> IF rows[f] # None /\ DocPath[f] \notin runs[Newest].snap \cup {None}
                               THEN [rows[f] EXCEPT !.live = FALSE] ELSE rows[f]]
  BY DEF Retire, SetRows, docs, events
<1>3. /\ worker \in Work /\ Newest \in Nat
      /\ \A f \in Fp : rows[f] # None => /\ rows[f] \in Row /\ rows[f].run \in Nat
                                            /\ rows[f].run <= Newest
  BY <1>1, ActiveIs
<1>4. /\ worker' \in Work /\ worker'.pc = "unit" /\ worker'.scope = worker.scope
      /\ worker'.todo = worker.todo
  BY <1>2, <1>3 DEF Work
<1>5. Active' /\ rep["worker"].pc = "idle" /\ OtherReps("worker")
  BY <1>1, <1>2, <1>4, WorkerWrites DEF Active, OtherReps
<1>6. WritersOK' /\ LogOK' /\ WorkerOwes' /\ Newest' = Newest /\ Current' = Current
  BY <1>1, <1>2, <1>5, ActiveStep
<1>7. ASSUME NEW f \in Fp
      PROVE  /\ rows'[f] \in Row \cup {None} /\ (rows'[f] = None <=> rows[f] = None)
             /\ rows[f] # None => /\ Triage(rows'[f]) = Triage(rows[f])
                                  /\ rows'[f].run = rows[f].run
                                  /\ \/ rows'[f].live = rows[f].live
                                     \/ DocPath[f] \notin runs[Newest].snap \cup {None}
  <2>1. CASE rows[f] # None /\ DocPath[f] \notin runs[Newest].snap \cup {None}
    <3>1. rows[f] \in Row
      BY <1>3, <2>1
    <3> DEFINE new == [rows[f] EXCEPT !.live = FALSE]
    <3>2. /\ new \in Row /\ new.run = rows[f].run /\ new.status = rows[f].status
          /\ new.draft = rows[f].draft /\ new.remedy = rows[f].remedy
          /\ new.documents = rows[f].documents /\ new.item = rows[f].item
      BY <3>1 DEF Row
    <3>3. rows'[f] = new
      BY <1>2, <2>1
    <3> HIDE DEF new
    <3> QED  BY <2>1, <3>2, <3>3, Nones DEF Triage
  <2>2. CASE ~(rows[f] # None /\ DocPath[f] \notin runs[Newest].snap \cup {None})
    <3>1. rows'[f] = rows[f]
      BY <1>2, <2>2
    <3> QED  BY <1>3, <3>1
  <2> QED  BY <2>1, <2>2
<1>8. rows' \in [Fp -> Row \cup {None}]
  BY <1>2, <1>7
<1>9. Reported \subseteq Proc
  BY DEF Reported
<1>10. Types'
  BY <1>1, <1>2, <1>4, <1>6, <1>8, <1>9 DEF Types, TypeOK
<1>11. \A f \in Fp : rows[f] # None => rows[f].run # Newest
  BY <1>1, <1>2 DEF StoredOK
<1>12. StoredOK'
  BY <1>3, <1>4, <1>6, <1>7, <1>11 DEF StoredOK
<1>13. OwnersResolve'
  <2> SUFFICES ASSUME NEW f \in Fp, rows'[f] # None, ~rows'[f].live
               PROVE  \E r \in rows[f].run + 1 .. Newest : \/ f \in Owned(runs[r].recipe)
                                                           \/ DocPath[f] \notin runs[r].snap \cup {None}
    BY <1>2, <1>6, <1>7 DEF OwnersResolve
  <2>1. CASE ~rows[f].live
    BY <1>1, <1>7, <2>1 DEF OwnersResolve
  <2>2. CASE DocPath[f] \notin runs[Newest].snap \cup {None}
    <3>1. Newest \in rows[f].run + 1 .. Newest
      BY <1>3, <1>7, <1>11
    <3> QED  BY <2>2, <3>1
  <2> QED  BY <1>7, <2>1, <2>2
<1>14. ReportOK'
  BY <1>1, <1>2, <1>5, <1>6, WorkerReport
<1>15. SameTriage
  BY <1>7 DEF SameTriage
<1> QED  BY <1>6, <1>10, <1>12, <1>13, <1>14, <1>15 DEF Ours

\* Rows that stay are as users left them.
LEMMA SameIs == rows' = rows => SameTriage
  BY DEF SameTriage

\* A unit that is checked is in the scope, and nothing of it is stored yet.
LEMMA CheckUnitKeeps ==
  ASSUME Ours, CheckUnit
  PROVE  Ours' /\ SameTriage
<1>1. Types /\ WritersOK /\ StoredOK /\ OwnersResolve /\ LogOK /\ ReportOK /\ Active
  BY DEF Ours, Active, CheckUnit
<1>2. /\ worker.pc = "unit" /\ rep["worker"].pc = "idle"
      /\ UNCHANGED <<rows, runs, tracker, landed, files, report, inventory, job, rep, behind, shared,
                     overtaken, produced, requests, edits>>
  BY DEF CheckUnit, table, docs, events, aux
<1>3. /\ worker \in Work /\ inventory \in Inventory \cup {None}
  BY <1>1 DEF Types, TypeOK
<1>4. /\ worker' \in Work /\ worker'.scope = worker.scope
      /\ worker'.pc \in {"upsert", "extract", "progress"}
      /\ worker'.pc = "upsert" => /\ worker'.unit \in worker'.scope
                                  /\ worker'.todo \subseteq worker'.found
                                  /\ worker'.found \subseteq Checkable(worker'.unit)
  <2>1. PICK u \in worker.scope :
         \/ \E found \in SUBSET Checkable(u) :
                 worker' = [worker EXCEPT !.pc = "upsert", !.unit = u,
                                          !.found = found, !.todo = found]
         \/ worker' = [worker EXCEPT !.pc = "extract", !.unit = u, !.base = inventory]
         \/ worker' = [worker EXCEPT !.pc = "progress", !.unit = u]
    BY DEF CheckUnit
  <2>2. u \in Path \cup {Source}
    BY <1>3 DEF Work
  <2>3. CASE worker' = [worker EXCEPT !.pc = "extract", !.unit = u, !.base = inventory]
    BY <1>3, <2>2, <2>3 DEF Work
  <2>4. CASE worker' = [worker EXCEPT !.pc = "progress", !.unit = u]
    BY <1>3, <2>2, <2>4 DEF Work
  <2>5. ASSUME NEW found \in SUBSET Checkable(u),
               worker' = [worker EXCEPT !.pc = "upsert", !.unit = u, !.found = found, !.todo = found]
        PROVE  /\ worker' \in Work /\ worker'.scope = worker.scope /\ worker'.pc = "upsert"
               /\ worker'.unit = u /\ worker'.todo = found /\ worker'.found = found
    <3>1. found \subseteq Fp
      BY DEF Checkable, Owned
    <3> QED  BY <1>3, <2>2, <2>5, <3>1 DEF Work
  <2> QED  BY <2>1, <2>3, <2>4, <2>5
<1>5. Active' /\ OtherReps("worker")
  BY <1>2, <1>4 DEF Active, OtherReps
<1>6. WritersOK' /\ LogOK' /\ WorkerOwes' /\ Newest' = Newest /\ Current' = Current
  BY <1>1, <1>2, <1>5, ActiveStep
<1>7. Types'
  BY <1>1, <1>2, <1>4, <1>6 DEF Types, TypeOK, Work
<1>8. \A u : Checkable(u)' = Checkable(u)
  BY <1>6 DEF Checkable
<1>9. StoredOK'
  <2>1. \A f \in Fp : rows[f] # None /\ rows[f].run = Newest => UnitOf(f) \notin worker.scope
    BY <1>1, <1>2 DEF StoredOK
  <2> QED  BY <1>1, <1>2, <1>4, <1>6, <1>8, <2>1 DEF StoredOK
<1>10. OwnersResolve'
  BY <1>1, <1>2, <1>6 DEF OwnersResolve
<1>11. ReportOK'
  BY <1>1, <1>2, <1>5, <1>6, WorkerReport
<1> QED  BY <1>2, <1>6, <1>7, <1>9, <1>10, <1>11, SameIs DEF Ours

\* What was found is stored with what users did.
LEMMA UpsertKeeps ==
  ASSUME Ours, Upsert
  PROVE  Ours' /\ SameTriage
<1>1. Types /\ WritersOK /\ StoredOK /\ OwnersResolve /\ LogOK /\ ReportOK /\ Active
  BY DEF Ours, Active, Upsert
<1>2. /\ worker.pc = "upsert"
      /\ UNCHANGED <<runs, tracker, landed, files, report, inventory, job, rep, behind, shared,
                     produced, requests, edits>>
      /\ overtaken' = overtaken \cup Reported
  BY DEF Upsert, SetRows, docs, events
<1>3. PICK g \in worker.todo : /\ rows' = [rows EXCEPT ![g] = Upserted(g)]
                               /\ worker' = [worker EXCEPT !.todo = @ \ {g}]
  BY DEF Upsert, SetRows
<1>4. /\ worker \in Work /\ Newest \in Nat
      /\ \A f \in Fp : rows[f] # None => /\ rows[f] \in Row /\ rows[f].run \in Nat
                                         /\ rows[f].run <= Newest
      /\ rows \in [Fp -> Row \cup {None}]
  BY <1>1, ActiveIs DEF Types, TypeOK
<1>5. /\ worker' \in Work /\ worker'.pc = "upsert" /\ worker'.scope = worker.scope
      /\ worker'.unit = worker.unit /\ worker'.found = worker.found
      /\ worker'.todo = worker.todo \ {g} /\ g \in Fp
  BY <1>2, <1>3, <1>4 DEF Work
<1>6. Active' /\ rep["worker"].pc = "idle" /\ OtherReps("worker")
  BY <1>1, <1>2, <1>5, WorkerWrites DEF Active, OtherReps
<1>7. WritersOK' /\ LogOK' /\ WorkerOwes' /\ Newest' = Newest /\ Current' = Current
  BY <1>1, <1>2, <1>6, ActiveStep
<1>8. /\ Upserted(g) \in Row /\ Upserted(g).run = Newest /\ Upserted(g).live
      /\ rows[g] # None => Triage(Upserted(g)) = Triage(rows[g])
  <2>1. CASE rows[g] = None
    BY <1>4, <2>1, NewRowIs DEF Upserted
  <2>2. CASE rows[g] # None
    <3> DEFINE new == [rows[g] EXCEPT !.run = Newest, !.live = TRUE]
    <3>1. /\ new \in Row /\ new.run = Newest /\ new.live /\ new.status = rows[g].status
          /\ new.draft = rows[g].draft /\ new.remedy = rows[g].remedy
          /\ new.documents = rows[g].documents /\ new.item = rows[g].item
      BY <1>4, <1>5, <2>2 DEF Row
    <3>2. Upserted(g) = new
      BY <2>2 DEF Upserted
    <3> HIDE DEF new
    <3> QED  BY <2>2, <3>1, <3>2, Nones DEF Triage
  <2> QED  BY <2>1, <2>2
<1>9. /\ rows' \in [Fp -> Row \cup {None}] /\ rows'[g] = Upserted(g) /\ rows'[g] # None
      /\ \A f \in Fp : f # g => rows'[f] = rows[f]
  BY <1>3, <1>4, <1>5, <1>8, Nones
<1>10. Types'
  <2>1. Reported \subseteq Proc
    BY DEF Reported
  <2>2. worker'.todo \subseteq Fp /\ worker'.scope \subseteq Path \cup {Source}
    BY <1>5 DEF Work
  <2> QED  BY <1>1, <1>2, <1>5, <1>7, <1>9, <2>1, <2>2 DEF Types, TypeOK
<1>11. UnitOf(g) = worker.unit /\ g \in worker.found
  <2>1. worker.todo \subseteq worker.found /\ worker.found \subseteq Checkable(worker.unit)
    BY <1>1, <1>2 DEF StoredOK
  <2> QED  BY <1>3, <2>1 DEF Checkable
<1>12. StoredOK'
  <2>1. \A u : Checkable(u)' = Checkable(u)
    BY <1>7 DEF Checkable
  <2>2. worker'.pc = "upsert" => /\ worker'.unit \in worker'.scope
                                 /\ worker'.todo \subseteq worker'.found
                                 /\ worker'.found \subseteq Checkable(worker'.unit)
    BY <1>1, <1>2, <1>5 DEF StoredOK
  <2>3. \A f \in Fp : rows'[f] # None => rows'[f].run <= Newest'
    BY <1>4, <1>7, <1>8, <1>9
  <2>4. ASSUME NEW f \in Fp, rows'[f] # None, rows'[f].run = Newest', UnitOf(f) \in worker'.scope
        PROVE  UnitOf(f) = worker'.unit /\ f \in worker'.found
    <3>1. CASE f = g
      BY <1>5, <1>11, <3>1
    <3>2. CASE f # g
      BY <1>1, <1>5, <1>7, <1>9, <2>4, <3>2 DEF StoredOK
    <3> QED  BY <3>1, <3>2
  <2> QED  BY <1>5, <2>1, <2>2, <2>3, <2>4 DEF StoredOK
<1>13. OwnersResolve'
  BY <1>1, <1>2, <1>7, <1>8, <1>9 DEF OwnersResolve
<1>14. ReportOK'
  BY <1>1, <1>2, <1>6, <1>7, WorkerReport
<1>15. SameTriage
  <2> SUFFICES ASSUME NEW f \in Fp, rows[f] # None
               PROVE  rows'[f] # None /\ Triage(rows'[f]) = Triage(rows[f])
    BY DEF SameTriage
  <2>1. CASE f = g
    BY <1>8, <1>9, <2>1
  <2>2. CASE f # g
    BY <1>9, <2>2
  <2> QED  BY <2>1, <2>2
<1> QED  BY <1>7, <1>10, <1>12, <1>13, <1>14, <1>15 DEF Ours

\* What was not found again is resolved by the run that owns its kind.
LEMMA ReconcileKeeps ==
  ASSUME Ours, Reconcile
  PROVE  Ours' /\ SameTriage
<1>1. Types /\ WritersOK /\ StoredOK /\ OwnersResolve /\ LogOK /\ ReportOK /\ Active
  BY DEF Ours, Active, Reconcile
<1>2. /\ worker.pc = "upsert" /\ worker' = [worker EXCEPT !.pc = "progress"]
      /\ UNCHANGED <<runs, tracker, landed, files, report, inventory, job, rep, behind, shared,
                     produced, requests, edits>>
      /\ overtaken' = overtaken \cup Reported
      /\ rows' = [f \in Fp |-> IF rows[f] # None /\ Stale(f)
                               THEN [rows[f] EXCEPT !.live = FALSE] ELSE rows[f]]
  BY DEF Reconcile, SetRows, docs, events
<1>3. /\ worker \in Work /\ Newest \in Nat
      /\ \A f \in Fp : rows[f] # None => /\ rows[f] \in Row /\ rows[f].run \in Nat
                                         /\ rows[f].run <= Newest
  BY <1>1, ActiveIs
<1>4. /\ worker' \in Work /\ worker'.pc = "progress" /\ worker'.scope = worker.scope
      /\ worker'.todo = worker.todo /\ worker'.unit = worker.unit /\ worker'.found = worker.found
  BY <1>2, <1>3 DEF Work
<1>5. Active' /\ rep["worker"].pc = "idle" /\ OtherReps("worker")
  BY <1>1, <1>2, <1>4, WorkerWrites DEF Active, OtherReps
<1>6. WritersOK' /\ LogOK' /\ WorkerOwes' /\ Newest' = Newest /\ Current' = Current
  BY <1>1, <1>2, <1>5, ActiveStep
<1>7. ASSUME NEW f \in Fp
      PROVE  /\ rows'[f] \in Row \cup {None} /\ (rows'[f] = None <=> rows[f] = None)
             /\ rows[f] # None => /\ Triage(rows'[f]) = Triage(rows[f])
                                  /\ rows'[f].run = rows[f].run
                                  /\ rows'[f].live = rows[f].live \/ Stale(f)
  <2>1. CASE rows[f] # None /\ Stale(f)
    <3>1. rows[f] \in Row
      BY <1>3, <2>1
    <3> DEFINE new == [rows[f] EXCEPT !.live = FALSE]
    <3>2. /\ new \in Row /\ new.run = rows[f].run /\ new.status = rows[f].status
          /\ new.draft = rows[f].draft /\ new.remedy = rows[f].remedy
          /\ new.documents = rows[f].documents /\ new.item = rows[f].item
      BY <3>1 DEF Row
    <3>3. rows'[f] = new
      BY <1>2, <2>1
    <3> HIDE DEF new
    <3> QED  BY <2>1, <3>2, <3>3, Nones DEF Triage
  <2>2. CASE ~(rows[f] # None /\ Stale(f))
    <3>1. rows'[f] = rows[f]
      BY <1>2, <2>2
    <3> QED  BY <1>3, <3>1
  <2> QED  BY <2>1, <2>2
<1>8. rows' \in [Fp -> Row \cup {None}]
  BY <1>2, <1>7
<1>9. Reported \subseteq Proc
  BY DEF Reported
<1>10. Types'
  BY <1>1, <1>2, <1>4, <1>6, <1>8, <1>9 DEF Types, TypeOK
<1>11. \A f \in Fp : rows[f] # None /\ rows[f].run = Newest /\ UnitOf(f) \in worker.scope =>
          UnitOf(f) = worker.unit /\ f \in worker.found
  BY <1>1, <1>2 DEF StoredOK
<1>12. StoredOK'
  BY <1>3, <1>4, <1>6, <1>7, <1>11 DEF StoredOK
<1>13. OwnersResolve'
  <2> SUFFICES ASSUME NEW f \in Fp, rows'[f] # None, ~rows'[f].live
               PROVE  \E r \in rows[f].run + 1 .. Newest : \/ f \in Owned(runs[r].recipe)
                                                           \/ DocPath[f] \notin runs[r].snap \cup {None}
    BY <1>2, <1>6, <1>7 DEF OwnersResolve
  <2>1. CASE ~rows[f].live
    BY <1>1, <1>7, <2>1 DEF OwnersResolve
  <2>2. CASE Stale(f)
    <3>1. f \in Owned(Current) /\ UnitOf(f) = worker.unit /\ f \notin worker.found
      BY <2>2 DEF Stale, Checkable
    <3>2. worker.unit \in worker.scope
      BY <1>1, <1>2 DEF StoredOK
    <3>3. rows[f].run # Newest
      BY <1>7, <1>11, <3>1, <3>2
    <3>4. Newest \in rows[f].run + 1 .. Newest
      BY <1>3, <1>7, <3>3
    <3> QED  BY <3>1, <3>4 DEF Current
  <2> QED  BY <1>7, <2>1, <2>2
<1>14. ReportOK'
  BY <1>1, <1>2, <1>5, <1>6, WorkerReport
<1>15. SameTriage
  BY <1>7 DEF SameTriage
<1> QED  BY <1>6, <1>10, <1>12, <1>13, <1>14, <1>15 DEF Ours

\* An extraction writes the inventory, or not.
LEMMA ExtractKeeps ==
  ASSUME Ours, Extract
  PROVE  Ours' /\ SameTriage
<1>1. Types /\ WritersOK /\ StoredOK /\ OwnersResolve /\ LogOK /\ ReportOK /\ Active
  BY DEF Ours, Active, Extract
<1>2. /\ worker.pc = "extract" /\ worker' = [worker EXCEPT !.pc = "progress", !.base = None]
      /\ UNCHANGED <<rows, runs, tracker, landed, files, report, job, rep, behind, shared,
                     overtaken, produced, requests, edits>>
  BY DEF Extract, table, events, aux
<1>3. /\ worker \in Work /\ Newest \in Nat /\ inventory \in Inventory \cup {None}
  BY <1>1, ActiveIs DEF Types, TypeOK
<1>4. /\ worker' \in Work /\ worker'.pc = "progress" /\ worker'.scope = worker.scope
      /\ worker'.todo = worker.todo
  BY <1>2, <1>3 DEF Work
<1>5. inventory' \in Inventory \cup {None}
  <2>1. inventory # None => inventory.text \in Text
    BY <1>3 DEF Inventory
  <2> QED  BY <1>3, <2>1, BlankIs DEF Extract, Inventory
<1>6. Active' /\ rep["worker"].pc = "idle" /\ OtherReps("worker")
  BY <1>1, <1>2, <1>4, WorkerWrites DEF Active, OtherReps
<1>7. WritersOK' /\ LogOK' /\ WorkerOwes' /\ Newest' = Newest /\ Current' = Current
  BY <1>1, <1>2, <1>6, ActiveStep
<1>8. Types'
  BY <1>1, <1>2, <1>4, <1>5, <1>7 DEF Types, TypeOK
<1>9. StoredOK'
  BY <1>1, <1>2, <1>4, <1>7 DEF StoredOK
<1>10. OwnersResolve'
  BY <1>1, <1>2, <1>7 DEF OwnersResolve
<1>11. ReportOK'
  BY <1>1, <1>2, <1>6, <1>7, WorkerReport
<1> QED  BY <1>2, <1>7, <1>8, <1>9, <1>10, <1>11, SameIs DEF Ours

\* A unit that is done with leaves the scope, and a report follows.
LEMMA ProgressKeeps ==
  ASSUME Ours, Progress
  PROVE  Ours' /\ SameTriage
<1>1. Types /\ WritersOK /\ StoredOK /\ OwnersResolve /\ LogOK /\ ReportOK /\ Active
  BY DEF Ours, Active, Progress
<1>2. /\ worker.pc = "progress" /\ StartReport("worker", FALSE)
      /\ worker' = [worker EXCEPT !.pc = "unit", !.scope = @ \ {worker.unit},
                                !.unit = None, !.found = {}]
      /\ UNCHANGED <<rows, runs, tracker, landed, files, report, inventory, job, behind, shared,
                     overtaken, produced, requests, edits>>
  BY DEF Progress, table, docs, events, aux
<1>3. /\ worker \in Work /\ Newest \in Nat
  BY <1>1, ActiveIs
<1>4. /\ worker' \in Work /\ worker'.pc = "unit" /\ worker'.scope = worker.scope \ {worker.unit}
      /\ worker'.todo = worker.todo
  BY <1>2, <1>3 DEF Work
<1>5. /\ rep' \in [Proc -> Rep] /\ OtherReps("worker")
      /\ rep'["worker"].pc = "rows" /\ rep'["worker"].final = FALSE
  BY <1>1, <1>2, StartReportIs DEF Types, Proc
<1>6. Active'
  BY <1>4 DEF Active
<1>7. WritersOK' /\ LogOK' /\ WorkerOwes' /\ Newest' = Newest /\ Current' = Current
  BY <1>1, <1>2, <1>4, <1>5, <1>6, ActiveStep
<1>8. Types'
  <2>1. worker'.scope \subseteq Path \cup {Source} /\ worker'.todo \subseteq Fp
    BY <1>4 DEF Work
  <2> QED  BY <1>1, <1>2, <1>4, <1>5, <1>7, <2>1 DEF Types, TypeOK
<1>9. StoredOK'
  <2>1. \A f \in Fp : rows[f] # None /\ rows[f].run = Newest => UnitOf(f) \notin worker.scope \ {worker.unit}
    BY <1>1, <1>2 DEF StoredOK
  <2> QED  BY <1>1, <1>2, <1>4, <1>7, <2>1 DEF StoredOK
<1>10. OwnersResolve'
  BY <1>1, <1>2, <1>7 DEF OwnersResolve
<1>11. ReportOK'
  BY <1>1, <1>2, <1>5, <1>7, WorkerReport
<1> QED  BY <1>2, <1>7, <1>8, <1>9, <1>10, <1>11, SameIs DEF Ours

\* A run ends, and its last report follows.
LEMMA FinishKeeps ==
  ASSUME Ours, Finish
  PROVE  Ours' /\ SameTriage
<1>1. Types /\ WritersOK /\ StoredOK /\ OwnersResolve /\ LogOK /\ ReportOK /\ Active
  BY DEF Ours, Active, Finish
<1>2. /\ worker.pc = "unit" /\ StartReport("worker", TRUE)
      /\ worker' = [worker EXCEPT !.pc = "release"]
      /\ UNCHANGED <<rows, tracker, landed, files, report, inventory, job, behind, shared,
                     overtaken, produced, requests, edits>>
  BY DEF Finish, docs, events, aux
<1>3. /\ worker \in Work /\ Newest \in Nat \ {0} /\ runs \in Seq(Run) /\ runs[Newest] \in Run
      /\ report # None => \A i \in 1..Len(report.log) :
               report.log[i] <= Newest /\ report.log[i] # Newest
  BY <1>1, ActiveIs
<1>4. /\ worker' \in Work /\ worker'.pc = "release" /\ worker'.scope = worker.scope
      /\ worker'.todo = worker.todo
  BY <1>2, <1>3 DEF Work
<1>5. /\ rep' \in [Proc -> Rep] /\ OtherReps("worker")
      /\ rep'["worker"].pc = "rows" /\ rep'["worker"].final = TRUE
  BY <1>1, <1>2, StartReportIs DEF Types, Proc
<1>6. /\ runs' \in Seq(Run) /\ Newest' = Newest /\ runs'[Newest].status # "running"
      /\ \A i \in 1..Newest : runs'[i].recipe = runs[i].recipe /\ runs'[i].snap = runs[i].snap
  <2> DEFINE end == IF worker.scope = {} THEN "ok" ELSE "stopped"
             run == [runs[Newest] EXCEPT !.status = end]
  <2>1. end \in {"ok", "stopped"}
    OBVIOUS
  <2>2. runs' = [runs EXCEPT ![Newest] = run]
    BY DEF Finish
  <2> HIDE DEF end
  <2>3. /\ run \in Run /\ run.status # "running" /\ run.recipe = runs[Newest].recipe
        /\ run.snap = runs[Newest].snap
    BY <1>3, <2>1 DEF Run
  <2> HIDE DEF run
  <2>4. Newest \in 1..Len(runs)
    BY <1>3 DEF Newest
  <2>5. runs' \in Seq(Run) /\ Len(runs') = Len(runs) /\ runs'[Newest] = run
    BY <1>3, <2>2, <2>3, <2>4
  <2>6. \A i \in 1..Newest : i # Newest => runs'[i] = runs[i]
    BY <1>3, <2>2, <2>4 DEF Newest
  <2> QED  BY <2>3, <2>5, <2>6 DEF Newest
<1>7. ~Active' /\ ~Running' /\ WorkerOwes'
  BY <1>4, <1>5, <1>6 DEF Active, Running, WorkerOwes
<1>8. WritersOK'
  <2>1. \A a \in Actor : (rep'[a].pc # "idle" <=> job'[a].pc = "report") /\ ~rep'[a].final
    BY <1>1, <1>2, <1>5, Nones DEF WritersOK, OtherReps, Proc
  <2> QED  BY <1>4, <1>7, <2>1 DEF WritersOK
<1>9. LogOK'
  BY <1>2, <1>3, <1>6 DEF LogOK
<1>10. Types'
  <2>1. worker'.scope \subseteq Path \cup {Source} /\ worker'.todo \subseteq Fp
    BY <1>4 DEF Work
  <2> QED  BY <1>1, <1>2, <1>3, <1>4, <1>5, <1>6, <2>1 DEF Types, TypeOK
<1>11. StoredOK'
  BY <1>1, <1>2, <1>4, <1>6, <1>7 DEF StoredOK
<1>12. OwnersResolve'
  <2> SUFFICES ASSUME NEW f \in Fp, rows[f] # None, ~rows[f].live
               PROVE  \E r \in rows[f].run + 1 .. Newest :
                          \/ f \in Owned(runs'[r].recipe) \/ DocPath[f] \notin runs'[r].snap \cup {None}
    BY <1>2, <1>6 DEF OwnersResolve
  <2>1. PICK r \in rows[f].run + 1 .. Newest :
                          \/ f \in Owned(runs[r].recipe) \/ DocPath[f] \notin runs[r].snap \cup {None}
    BY <1>1 DEF OwnersResolve
  <2>2. rows[f].run \in Nat
    BY <1>1, ActiveIs
  <2>3. r \in 1..Newest
    BY <1>3, <2>1, <2>2
  <2> QED  BY <1>6, <2>1, <2>3
<1>13. ReportOK'
  BY <1>1, <1>2, <1>5, <1>7, WorkerReport
<1> QED  BY <1>2, <1>8, <1>9, <1>10, <1>11, <1>12, <1>13, SameIs DEF Ours

\* The branch is free again.
LEMMA ReleaseKeeps ==
  ASSUME Ours, Release
  PROVE  Ours' /\ SameTriage
<1>1. Types /\ WritersOK /\ StoredOK /\ OwnersResolve /\ LogOK /\ ReportOK
  BY DEF Ours
<1>2. /\ worker.pc = "release" /\ rep["worker"].pc = "idle" /\ worker' = NoWork
      /\ UNCHANGED <<rows, runs, tracker, landed, files, report, inventory, job, rep, behind, shared,
                     overtaken, produced, requests, edits>>
  BY DEF Release, table, docs, events, aux
<1>3. worker' \in Work /\ worker'.pc = "idle" /\ worker'.scope = {} /\ worker'.todo = {}
  BY <1>2, NoWorkIs
<1>4. /\ ~Active /\ ~Active' /\ ~WorkerOwes /\ OtherReps("worker") /\ Running' = Running
      /\ Newest' = Newest
  BY <1>2, <1>3 DEF Active, WorkerOwes, OtherReps, Running, Newest
<1>5. WritersOK'
  BY <1>1, <1>2, <1>4 DEF WritersOK
<1>6. LogOK'
  BY <1>1, <1>2, <1>4 DEF LogOK
<1>7. Types'
  BY <1>1, <1>2, <1>3, <1>4 DEF Types, TypeOK
<1>8. StoredOK'
  BY <1>1, <1>2, <1>3, <1>4 DEF StoredOK
<1>9. OwnersResolve'
  BY <1>1, <1>2, <1>4 DEF OwnersResolve
<1>10. ReportOK'
  BY <1>1, <1>2, <1>4, WorkerReport
<1> QED  BY <1>2, <1>5, <1>6, <1>7, <1>8, <1>9, <1>10, SameIs DEF Ours

\* A step of the worker keeps the invariant, and what users did.
LEMMA WorkerKeeps ==
  ASSUME FindingIInv, WorkerStep
  PROVE  FindingIInv' /\ SameTriage
<1>1. Ours /\ Types /\ JobsOK /\ AloneOK /\ FiledOK /\ FiledOnce /\ ProducedOK
  BY DEF FindingIInv, Ours
<1>2. Ours' /\ SameTriage
  BY <1>1, RetireKeeps, CheckUnitKeeps, UpsertKeeps, ReconcileKeeps, ExtractKeeps, ProgressKeeps,
     FinishKeeps, ReleaseKeeps DEF WorkerStep
<1>3. UNCHANGED <<job, files, produced, shared, tracker>>
  BY DEF WorkerStep, Retire, CheckUnit, Upsert, Reconcile, Extract, Progress, Finish, Release,
         table, docs, aux
<1> QED  BY <1>1, <1>2, <1>3, TriageKept DEF FindingIInv, Ours

-----------------------------------------------------------------------------
(* The report                                                              *)

\* A writer that goes on, or the end of one: nobody else is disturbed.
WriterStep(p) ==
    /\ rep[p].pc # "idle" /\ rep' \in [Proc -> Rep] /\ OtherReps(p) /\ overtaken' \subseteq overtaken
    /\ UNCHANGED <<rows, runs, tracker, landed, files, inventory, worker, requests, edits, shared,
                   produced>>
    /\ \/ /\ rep'[p].pc # "idle" /\ rep'[p].final = rep[p].final /\ UNCHANGED job
       \/ /\ rep'[p].pc = "idle" /\ rep'[p].final = FALSE
          /\ IF p \in Actor THEN Answer(p) ELSE UNCHANGED job

\* What a writer's step leaves.
LEMMA WriterKeeps ==
  ASSUME FindingIInv, NEW p \in Proc, WriterStep(p)
  PROVE  /\ JobsOK' /\ WritersOK' /\ StoredOK' /\ OwnersResolve' /\ AloneOK' /\ FiledOK' /\ FiledOnce'
         /\ ProducedOK' /\ job' \in [Actor -> Job]
         /\ Newest' = Newest /\ Active' = Active /\ Visible' = Visible
         /\ \A b \in Actor : b # p => job'[b] = job[b]
<1>1. /\ Types /\ JobsOK /\ WritersOK /\ StoredOK /\ OwnersResolve /\ AloneOK
      /\ FiledOK /\ FiledOnce /\ ProducedOK
  BY DEF FindingIInv
<1>2. UNCHANGED <<rows, runs, tracker, landed, files, inventory, worker, requests, edits, shared,
                  produced>>
  BY DEF WriterStep
<1>3. Newest' = Newest /\ Active' = Active /\ Visible' = Visible /\ Running' = Running
  BY <1>2 DEF Newest, Active, Visible, Running
<1>4. StoredOK' /\ OwnersResolve'
  BY <1>1, <1>2, RowsStay, StoredKept
<1>5. CASE job' = job
  <2>1. SameTriage
    BY <1>2, SameIs
  <2>2. JobsOK' /\ AloneOK' /\ FiledOK' /\ FiledOnce' /\ ProducedOK'
    BY <1>1, <1>2, <1>5, <2>1, TriageKept
  <2>3. p \in Actor => rep'[p].pc # "idle" /\ rep'[p].final = rep[p].final
    <3> SUFFICES ASSUME p \in Actor, rep'[p].pc = "idle" PROVE FALSE
      BY DEF WriterStep
    <3>1. job'[p].pc = "idle"
      BY <1>1, AnswerIs DEF WriterStep, Types
    <3>2. job[p].pc = "report"
      BY <1>1 DEF WriterStep, WritersOK
    <3> QED  BY <1>5, <3>1, <3>2
  <2>4. \A a \in Actor : (rep'[a].pc # "idle" <=> job'[a].pc = "report") /\ ~rep'[a].final
    BY <1>1, <1>5, <2>3 DEF WriterStep, WritersOK, OtherReps, Proc
  <2>5. rep'["worker"].pc # "idle" => worker'.pc \in {"unit", "release"}
    BY <1>1, <1>2, Nones DEF WriterStep, WritersOK, OtherReps, Proc
  <2>6. rep'["worker"].pc # "idle" /\ rep'["worker"].final => worker'.pc = "release"
    BY <1>1, <1>2, Nones DEF WriterStep, WritersOK, OtherReps, Proc
  <2>7. WritersOK'
    BY <1>1, <1>3, <2>4, <2>5, <2>6 DEF WritersOK
  <2>8. job' \in [Actor -> Job]
    BY <1>1, <1>5 DEF Types
  <2> QED  BY <1>3, <1>4, <1>5, <2>2, <2>7, <2>8
<1>6. CASE p \in Actor /\ Answer(p) /\ rep'[p].pc = "idle" /\ rep'[p].final = FALSE
  <2>1. job' \in [Actor -> Job] /\ Others(p) /\ job'[p] = NoJob /\ job'[p].pc = "idle"
    BY <1>1, <1>6, AnswerIs DEF Types
  <2>2. job'[p].pc \notin About /\ JobOK(job[p])'
    BY <2>1 DEF About, JobOK
  <2>3. JobsOK'
    BY <1>1, <1>2, <1>6, <2>1, <2>2, JobsKept
  <2>4. AloneOK'
    BY <1>1, <1>2, <1>6, <2>1, <2>2, AloneKept
  <2>5. FiledOK' /\ FiledOnce' /\ ProducedOK'
    BY <1>1, <1>2, <1>6, <2>1, <2>2, RestKept
  <2>6. \A a \in Actor : (rep'[a].pc # "idle" <=> job'[a].pc = "report") /\ ~rep'[a].final
    BY <1>1, <1>6, <2>1 DEF WriterStep, WritersOK, OtherReps, Others, Proc
  <2>7. rep'["worker"] = rep["worker"]
    BY <1>6, Nones DEF WriterStep, OtherReps, Proc
  <2>8. WritersOK'
    BY <1>1, <1>2, <1>3, <2>6, <2>7 DEF WritersOK
  <2> QED  BY <1>3, <1>4, <2>1, <2>3, <2>4, <2>5, <2>8 DEF Others
<1> QED  BY <1>5, <1>6 DEF WriterStep

\* The types of what such a step leaves.
LEMMA WriterTypes ==
  ASSUME Types, NEW p \in Proc, WriterStep(p), job' \in [Actor -> Job],
         report' = None \/ report' \in Report, behind' \in BOOLEAN
  PROVE  Types'
<1>1. \A b \in Actor : job'[b].f \in Fp \cup {None}
  BY DEF Job
<1> QED  BY <1>1 DEF WriterStep, Types, TypeOK, Newest

\* The rows are read, or the report is left to the worker.
LEMMA ReportRowsKeeps ==
  ASSUME FindingIInv, NEW p \in Proc, ReportRows(p)
  PROVE  FindingIInv'
<1>1. Types /\ WritersOK /\ LogOK /\ ReportOK
  BY DEF FindingIInv
<1>2. /\ rep[p].pc = "rows" /\ rep[p] \in Rep
      /\ UNCHANGED <<rows, runs, tracker, landed, files, report, inventory, worker, requests, edits,
                     behind, shared, produced>>
  BY <1>1 DEF ReportRows, table, docs, events, Types
<1>3. CASE p = "worker" \/ (Newest > 0 /\ ~Running)
  <2> DEFINE new == [rep[p] EXCEPT !.pc = "file", !.shown = Visible]
  <2>1. Visible \in Shown
    <3>1. \A f \in Fp : rows[f] # None => rows[f].status \in Status
      BY <1>1 DEF Types, TypeOK, Row
    <3> QED  BY <3>1 DEF Visible, Shown
  <2>2. new \in Rep /\ new.pc = "file" /\ new.final = rep[p].final /\ new.shown = Visible
    BY <1>2, <2>1 DEF Rep
  <2>3. rep' = [rep EXCEPT ![p] = new] /\ overtaken' = overtaken \ {p} /\ job' = job
    BY <1>3 DEF ReportRows
  <2> HIDE DEF new
  <2>4. rep' \in [Proc -> Rep] /\ rep'[p] = new /\ OtherReps(p)
    BY <1>1, <2>2, <2>3, SetRep DEF Types
  <2>5. WriterStep(p)
    BY <1>2, <2>2, <2>3, <2>4 DEF WriterStep
  <2>6. Newest' = Newest /\ Active' = Active /\ Visible' = Visible /\ job' \in [Actor -> Job]
    BY <2>5, WriterKeeps
  <2>7. Types'
    BY <1>1, <1>2, <2>5, <2>6, WriterTypes DEF Types, TypeOK
  <2>8. LogOK'
    <3>1. rep'["worker"].pc # "idle" /\ rep'["worker"].final =>
             rep["worker"].pc # "idle" /\ rep["worker"].final
      BY <1>2, <2>2, <2>4 DEF OtherReps, Proc
    <3> QED  BY <1>1, <1>2, <2>6, <3>1 DEF LogOK
  <2>9. ReportOK'
    <3>1. ASSUME NEW q \in Proc, q \notin overtaken', rep'[q].pc \in {"file", "save"}
          PROVE  rep'[q].shown = Visible'
      <4>1. CASE q = p
        BY <2>2, <2>4, <2>6, <4>1
      <4>2. CASE q # p
        <5>1. rep'[q] = rep[q] /\ q \notin overtaken
          BY <2>3, <2>4, <3>1, <4>2 DEF OtherReps
        <5> QED  BY <1>1, <2>6, <3>1, <5>1 DEF ReportOK
      <4> QED  BY <4>1, <4>2
    <3>2. rep'["worker"].pc # "idle" <=> rep["worker"].pc # "idle"
      BY <1>2, <2>2, <2>4 DEF OtherReps, Proc
    <3>3. WorkerOwes' = WorkerOwes /\ \A a \in Actor : Owes(a)' = Owes(a)
      BY <1>2, <2>3, <2>6, <3>2 DEF WorkerOwes, Owes
    <3> QED  BY <1>1, <1>2, <2>6, <3>1, <3>3 DEF ReportOK
  <2> QED  BY <2>5, <2>7, <2>8, <2>9, WriterKeeps DEF FindingIInv
<1>4. CASE ~(p = "worker" \/ (Newest > 0 /\ ~Running))
  <2>1. rep' = [rep EXCEPT ![p] = NoRep] /\ Answer(p) /\ overtaken' = overtaken /\ p \in Actor
    BY <1>4 DEF ReportRows, Proc
  <2>2. rep' \in [Proc -> Rep] /\ OtherReps(p) /\ rep'[p].pc = "idle" /\ rep'[p].final = FALSE
    BY <1>1, <2>1, RepOverIs DEF Types
  <2>3. Active
    BY <1>1, <1>4 DEF WritersOK, Types
  <2>4. WriterStep(p)
    BY <1>2, <2>1, <2>2 DEF WriterStep
  <2>5. Newest' = Newest /\ Active' = Active /\ Visible' = Visible /\ job' \in [Actor -> Job]
    BY <2>4, WriterKeeps
  <2>6. Types'
    BY <1>1, <1>2, <2>4, <2>5, WriterTypes DEF Types, TypeOK
  <2>7. rep'["worker"] = rep["worker"]
    BY <2>1, <2>2, Nones DEF OtherReps, Proc
  <2>8. LogOK'
    BY <1>1, <1>2, <2>7, LogKept
  <2>9. ReportOK'
    <3>1. \A q \in Proc : rep'[q].pc \in {"file", "save"} => rep'[q] = rep[q]
      BY <2>2 DEF OtherReps
    <3> QED  BY <1>1, <2>1, <2>3, <2>5, <3>1 DEF ReportOK, WorkerOwes
  <2> QED  BY <2>4, <2>6, <2>8, <2>9, WriterKeeps DEF FindingIInv
<1> QED  BY <1>3, <1>4

\* The report is read.
LEMMA ReportFileKeeps ==
  ASSUME FindingIInv, NEW p \in Proc, ReportFile(p)
  PROVE  FindingIInv'
<1>1. Types /\ WritersOK /\ LogOK /\ ReportOK
  BY DEF FindingIInv
<1>2. /\ rep[p].pc = "file" /\ rep[p] \in Rep
      /\ UNCHANGED <<rows, runs, tracker, landed, files, report, inventory, worker, job, requests, edits,
                     overtaken, behind, shared, produced>>
  BY <1>1 DEF ReportFile, table, docs, events, aux, Types
<1> DEFINE new == [rep[p] EXCEPT !.pc = "save", !.base = report]
<1>3. new \in Rep /\ new.pc = "save" /\ new.final = rep[p].final /\ new.shown = rep[p].shown
  BY <1>1, <1>2 DEF Rep, Types, TypeOK
<1>4. rep' = [rep EXCEPT ![p] = new]
  BY DEF ReportFile
<1> HIDE DEF new
<1>5. rep' \in [Proc -> Rep] /\ rep'[p] = new /\ OtherReps(p)
  BY <1>1, <1>3, <1>4, SetRep DEF Types
<1>6. WriterStep(p)
  BY <1>2, <1>3, <1>5 DEF WriterStep
<1>7. Newest' = Newest /\ Active' = Active /\ Visible' = Visible /\ job' \in [Actor -> Job]
  BY <1>6, WriterKeeps
<1>8. Types'
  BY <1>1, <1>2, <1>6, <1>7, WriterTypes DEF Types, TypeOK
<1>9. /\ rep'["worker"].pc # "idle" <=> rep["worker"].pc # "idle"
      /\ rep'["worker"].final = rep["worker"].final
  BY <1>2, <1>3, <1>5 DEF OtherReps, Proc
<1>10. LogOK'
  BY <1>1, <1>2, <1>7, <1>9 DEF LogOK
<1>11. ReportOK'
  <2>1. WorkerOwes' = WorkerOwes /\ \A a \in Actor : Owes(a)' = Owes(a)
    BY <1>2, <1>7, <1>9 DEF WorkerOwes, Owes
  <2>2. \A q \in Proc \ overtaken : rep'[q].pc \in {"file", "save"} => rep'[q].shown = Visible
    BY <1>1, <1>2, <1>3, <1>5 DEF ReportOK, OtherReps
  <2> QED  BY <1>1, <1>2, <1>7, <2>1, <2>2 DEF ReportOK
<1> QED  BY <1>6, <1>8, <1>10, <1>11, WriterKeeps DEF FindingIInv

\* A line of the log is added at its end.
LEMMA AppendIs ==
  ASSUME NEW log \in Seq(Nat), NEW n \in Nat
  PROVE  /\ log \o <<n>> = Append(log, n) /\ Append(log, n) \in Seq(Nat)
         /\ Len(Append(log, n)) = Len(log) + 1
         /\ \A i \in 1..Len(log) : Append(log, n)[i] = log[i]
         /\ Append(log, n)[Len(log) + 1] = n
  OBVIOUS

\* What a writer saves: what it read, around its findings, and the line of the
\* run when it is the last report of one.
LEMMA MergedIs ==
  ASSUME Types, NEW p \in Proc, rep[p].pc = "save", SaveAccepted(report, rep[p].base)
  PROVE  /\ Merged(rep[p]) \in Report /\ Merged(rep[p]).shown = rep[p].shown
         /\ report # None => Merged(rep[p]).text = report.text
         /\ LET log == IF report = None THEN << >> ELSE report.log IN
              /\ log \in Seq(Nat)
              /\ Merged(rep[p]).log = IF rep[p].final THEN Append(log, Newest) ELSE log
<1>1. /\ rep[p] \in Rep /\ rep[p].shown \in Shown /\ rep[p].final \in BOOLEAN
      /\ rep[p].base = report /\ (report # None => report \in Report)
  BY DEF Types, TypeOK, Rep, SaveAccepted
<1> DEFINE log == IF report = None THEN << >> ELSE report.log
<1>2. log \in Seq(Nat) /\ Newest \in Nat
  BY <1>1 DEF Report, Types, TypeOK, Newest
<1>3. Merged(rep[p]).log = IF rep[p].final THEN Append(log, Newest) ELSE log
  <2>1. Merged(rep[p]).log = log \o (IF rep[p].final THEN <<Newest>> ELSE << >>)
    BY <1>1 DEF Merged
  <2> HIDE DEF log
  <2>2. CASE rep[p].final
    BY <1>2, <2>1, <2>2, AppendIs
  <2>3. CASE ~rep[p].final
    BY <1>2, <2>1, <2>3
  <2> QED  BY <1>1, <2>2, <2>3
<1>4. Merged(rep[p]).log \in Seq(Nat)
  <2> HIDE DEF log
  <2> QED  BY <1>2, <1>3, AppendIs
<1>5. /\ Merged(rep[p]).shown = rep[p].shown
      /\ Merged(rep[p]).text = IF report = None THEN Blank ELSE report.text
  BY <1>1 DEF Merged
<1>6. Merged(rep[p]).text \in Text
  BY <1>1, <1>5, BlankIs DEF Report
<1>7. Merged(rep[p]) \in Report
  BY <1>1, <1>4, <1>5, <1>6 DEF Report, Merged
<1> QED  BY <1>2, <1>3, <1>5, <1>7

\* The last report of a run is saved when the run is over, and the log does not
\* name it yet.
LEMMA FinalIs ==
  ASSUME Types, WritersOK, LogOK, NEW p \in Proc, rep[p].pc = "save", rep[p].final
  PROVE  /\ p = "worker" /\ ~Active
         /\ report # None => \A i \in 1..Len(report.log) :
               report.log[i] \in Nat /\ report.log[i] <= Newest /\ report.log[i] # Newest
<1>1. p = "worker"
  BY DEF WritersOK, Proc
<1>2. worker.pc = "release"
  BY <1>1 DEF WritersOK
<1>3. report # None => report.log \in Seq(Nat)
  BY DEF Types, TypeOK, Report
<1> QED  BY <1>1, <1>2, <1>3 DEF LogOK, Active

\* The report is saved over what was read, or is behind.
LEMMA ReportSaveKeeps ==
  ASSUME FindingIInv, NEW p \in Proc, ReportSave(p)
  PROVE  FindingIInv'
<1>1. Types /\ WritersOK /\ LogOK /\ ReportOK
  BY DEF FindingIInv
<1>2. /\ rep[p].pc = "save" /\ rep[p] \in Rep /\ rep' = [rep EXCEPT ![p] = NoRep]
      /\ overtaken' = overtaken \ {p}
      /\ UNCHANGED <<rows, runs, tracker, landed, files, inventory, worker, requests, edits, shared,
                     produced>>
  BY <1>1 DEF ReportSave, table, events, Types
<1>3. rep' \in [Proc -> Rep] /\ OtherReps(p) /\ rep'[p].pc = "idle" /\ rep'[p].final = FALSE
  BY <1>1, <1>2, RepOverIs DEF Types
<1>4. WriterStep(p)
  BY <1>2, <1>3 DEF WriterStep, ReportSave
<1>5. /\ Newest' = Newest /\ Active' = Active /\ Visible' = Visible /\ job' \in [Actor -> Job]
      /\ \A b \in Actor : b # p => job'[b] = job[b]
  BY <1>4, WriterKeeps
<1>6. \/ /\ SaveAccepted(report, rep[p].base) /\ report' = Merged(rep[p])
         /\ behind' = (p \in overtaken)
      \/ behind' = TRUE /\ report' = report
  BY DEF ReportSave
<1>7. Types'
  <2>1. report' = None \/ report' \in Report
    BY <1>1, <1>2, <1>6, MergedIs DEF Types, TypeOK
  <2>2. behind' \in BOOLEAN
    <3>1. behind' = (p \in overtaken) \/ behind' = TRUE
      BY <1>6
    <3>2. CASE behind' = (p \in overtaken)
      <4>1. CASE p \in overtaken
        <5>1. (p \in overtaken) = TRUE
          BY <4>1
        <5> QED  BY <3>2, <5>1
      <4>2. CASE p \notin overtaken
        <5>1. (p \in overtaken) = FALSE
          BY <4>2
        <5> QED  BY <3>2, <5>1
      <4> QED  BY <4>1, <4>2
    <3> QED  BY <3>1, <3>2
  <2> QED  BY <1>1, <1>4, <1>5, <2>1, <2>2, WriterTypes
<1>8. LogOK'
  <2>1. rep'["worker"].pc # "idle" /\ rep'["worker"].final =>
           rep["worker"].pc # "idle" /\ rep["worker"].final
    BY <1>2, <1>3 DEF OtherReps, Proc
  <2>2. CASE report' = report
    BY <1>1, <1>5, <2>1, <2>2 DEF LogOK
  <2>3. CASE SaveAccepted(report, rep[p].base) /\ report' = Merged(rep[p])
    <3> DEFINE log == IF report = None THEN << >> ELSE report.log
    <3>1. log \in Seq(Nat) /\ report'.log = (IF rep[p].final THEN Append(log, Newest) ELSE log)
      BY <1>1, <1>2, <2>3, MergedIs
    <3>2. \A i \in 1..Len(log) : /\ log[i] <= Newest
                                 /\ log[i] = Newest => ~Active /\ ~(rep["worker"].pc # "idle"
                                                                   /\ rep["worker"].final)
      BY <1>1 DEF LogOK
    <3> HIDE DEF log
    <3>3. CASE ~rep[p].final
      BY <1>5, <2>1, <3>1, <3>2, <3>3 DEF LogOK
    <3>4. CASE rep[p].final
      <4>1. p = "worker" /\ ~Active
        BY <1>1, <1>2, <3>4, FinalIs
      <4>2. Newest \in Nat
        BY <1>1 DEF Types, TypeOK, Newest
      <4>3. /\ report'.log = Append(log, Newest) /\ Len(report'.log) = Len(log) + 1
            /\ \A i \in 1..Len(log) : report'.log[i] = log[i]
            /\ report'.log[Len(log) + 1] = Newest
        BY <3>1, <3>4, <4>2, AppendIs
      <4>4. \A i \in 1..Len(report'.log) : report'.log[i] <= Newest
        BY <3>1, <3>2, <4>2, <4>3
      <4> QED  BY <1>3, <1>5, <4>1, <4>4 DEF LogOK
    <3> QED  BY <3>3, <3>4
  <2> QED  BY <1>6, <2>2, <2>3
<1>9. ReportOK'
  <2>1. \A q \in Proc \ overtaken' : rep'[q].pc \in {"file", "save"} => rep'[q].shown = Visible'
    BY <1>1, <1>2, <1>3, <1>5 DEF ReportOK, OtherReps
  <2>2. ~behind' => report'.shown = Visible'
    <3> SUFFICES ASSUME ~behind' PROVE report'.shown = Visible'
      OBVIOUS
    <3>1. SaveAccepted(report, rep[p].base) /\ report' = Merged(rep[p]) /\ p \notin overtaken
      BY <1>6
    <3>2. report'.shown = rep[p].shown
      BY <1>1, <1>2, <3>1, MergedIs
    <3> QED  BY <1>1, <1>2, <1>5, <3>1, <3>2 DEF ReportOK
  <2> QED  BY <2>1, <2>2 DEF ReportOK
<1> QED  BY <1>4, <1>7, <1>8, <1>9, WriterKeeps DEF FindingIInv

-----------------------------------------------------------------------------
(* Humans and crashes                                                      *)

\* Nothing of the engine is disturbed by a human's edit.
LEMMA EngineKept ==
  ASSUME FindingIInv,
         UNCHANGED <<rows, runs, tracker, worker, job, rep, overtaken, behind, shared>>
  PROVE  /\ JobsOK' /\ WritersOK' /\ StoredOK' /\ OwnersResolve' /\ AloneOK' /\ FiledOK' /\ FiledOnce'
<1>1. JobsOK /\ WritersOK /\ StoredOK /\ OwnersResolve /\ AloneOK /\ FiledOK /\ FiledOnce
  BY DEF FindingIInv
<1>2. JobsOK'
  BY <1>1 DEF JobsOK, JobOK
<1>3. WritersOK'
  BY <1>1 DEF WritersOK, Active, Running, Newest
<1>4. StoredOK' /\ OwnersResolve'
  BY <1>1, RowsStay, StoredKept
<1>5. AloneOK' /\ FiledOnce'
  BY <1>1 DEF AloneOK, FiledOnce
<1>6. FiledOK'
  BY <1>1 DEF FiledOK, TheTarget
<1> QED  BY <1>2, <1>3, <1>4, <1>5, <1>6

\* A report that keeps its findings and its log.
LEMMA ReportKept ==
  ASSUME LogOK, ReportOK,
         UNCHANGED <<rows, runs, worker, job, rep, overtaken, behind>>,
         report' = report \/ (report # None /\ report'.log = report.log /\ report'.shown = report.shown)
  PROVE  LogOK' /\ ReportOK'
<1>1. Visible' = Visible /\ Newest' = Newest /\ Active' = Active /\ WorkerOwes' = WorkerOwes
  BY DEF Visible, Newest, Active, WorkerOwes
<1>2. \A a \in Actor : Owes(a)' = Owes(a)
  BY DEF Owes
<1> QED  BY <1>1, <1>2 DEF LogOK, ReportOK

\* Documents go only with what they were produced for.
LEMMA DocumentsKept ==
  ASSUME Types, JobsOK, ProducedOK, UNCHANGED <<rows, job, shared>>,
         \A f \in Fp : produced'[f] \subseteq produced[f] /\ produced'[f] \subseteq Present'
  PROVE  ProducedOK'
<1>1. ASSUME NEW a \in Actor, job'[a].pc \in About, job'[a].f \notin shared'
      PROVE  KeepsOK(job[a])'
  <2>1. job[a].f \in Fp
    BY <1>1, AboutIs
  <2>2. job'[a] = job[a] /\ KeepsOK(job[a]) /\ produced'[job[a].f] \subseteq produced[job[a].f]
    BY <1>1, <2>1 DEF ProducedOK
  <2> QED  BY <2>2 DEF KeepsOK
<1>2. ASSUME NEW f \in Fp
      PROVE  /\ produced'[f] \subseteq Present' /\ (rows'[f] = None => produced'[f] = {})
             /\ f \notin shared' /\ rows'[f] # None =>
                   produced'[f] \subseteq {rows'[f].draft, rows'[f].remedy} \cup rows'[f].documents
  BY DEF ProducedOK, ProducedRecorded
<1> QED  BY <1>1, <1>2 DEF ProducedOK, ProducedRecorded

\* A human's edit keeps the invariant.
LEMMA EditKeeps ==
  ASSUME FindingIInv, Edit
  PROVE  FindingIInv'
<1>1. Types /\ JobsOK /\ LogOK /\ ReportOK /\ ProducedOK
  BY DEF FindingIInv
<1>2. /\ UNCHANGED <<rows, runs, tracker, worker, job, rep, overtaken, behind, shared, requests>>
      /\ edits < MaxEdits /\ edits' = edits + 1
  BY DEF Edit, EditDocument, CreateDocument, DeleteDocument, EditReport, EditInventory, Land, Human,
         table, aux
<1>3. edits' \in 0..MaxEdits
  BY <1>1, <1>2, ConstantsAssumption DEF Types, TypeOK, ConstantsAssumption
<1>4. /\ files \in [Path -> File \cup {None}] /\ produced \in [Fp -> SUBSET Path]
      /\ landed \subseteq Path
  BY <1>1 DEF Types, TypeOK
<1>5. /\ files' \in [Path -> File \cup {None}] /\ produced' \in [Fp -> SUBSET Path]
      /\ landed' \subseteq Path
      /\ \A f \in Fp : produced'[f] \subseteq produced[f] /\ produced'[f] \subseteq Present'
      /\ report' = None \/ report' \in Report
      /\ inventory' = None \/ inventory' \in Inventory
      /\ report' = report \/ (report # None /\ report'.log = report.log /\ report'.shown = report.shown)
  <2>f. ASSUME files' = files PROVE \A f \in Fp : produced[f] \subseteq Present'
    BY <1>1, <2>f DEF ProducedOK, Present
  <2>r. /\ report = None \/ report \in Report
        /\ inventory = None \/ inventory \in Inventory
    BY <1>1 DEF Types, TypeOK
  <2>1. ASSUME NEW p \in Path, EditDocument(p)
        PROVE  /\ files' \in [Path -> File \cup {None}]
               /\ UNCHANGED <<landed, report, inventory, produced>>
               /\ \A f \in Fp : produced[f] \subseteq Present'
    <3>1. PICK t \in Text \ {files[p].text} : files' = [files EXCEPT ![p].text = t]
      BY <2>1 DEF EditDocument
    <3> DEFINE doc == [files[p] EXCEPT !.text = t]
    <3>2. doc \in File
      BY <1>4, <2>1 DEF EditDocument, File
    <3>3. files' = [files EXCEPT ![p] = doc]
      BY <3>1
    <3> HIDE DEF doc
    <3>4. doc # None
      BY <3>2, Nones
    <3>5. Present \subseteq Present'
      BY <1>4, <3>3, <3>4 DEF Present
    <3> QED  BY <1>1, <1>4, <2>1, <3>2, <3>3, <3>5 DEF EditDocument, aux, ProducedOK
  <2>2. ASSUME NEW p \in Path, CreateDocument(p)
        PROVE  /\ files' \in [Path -> File \cup {None}]
               /\ UNCHANGED <<landed, report, inventory, produced>>
               /\ \A f \in Fp : produced[f] \subseteq Present'
    <3>1. Grows
      BY <1>1, <2>2, FreshIs, WriteIs DEF CreateDocument
    <3> QED  BY <1>1, <2>2, <3>1 DEF CreateDocument, aux, ProducedOK, Grows, Present
  <2>3. ASSUME NEW p \in Path, DeleteDocument(p)
        PROVE  /\ files' \in [Path -> File \cup {None}] /\ produced' \in [Fp -> SUBSET Path]
               /\ UNCHANGED <<landed, report, inventory>>
               /\ \A f \in Fp : produced'[f] \subseteq produced[f] /\ produced'[f] \subseteq Present'
    <3>1. /\ files' = [files EXCEPT ![p] = None] /\ produced' = [f \in Fp |-> produced[f] \ {p}]
          /\ UNCHANGED <<landed, report, inventory>>
      BY <2>3 DEF DeleteDocument
    <3>2. Present \ {p} \subseteq Present'
      BY <1>4, <3>1 DEF Present
    <3> QED  BY <1>1, <1>4, <3>1, <3>2 DEF ProducedOK
  <2>4. CASE EditReport
    <3>1. PICK t \in Text \ {report.text} : report' = [report EXCEPT !.text = t]
      BY <2>4 DEF EditReport
    <3>2. report # None /\ report \in Report /\ UNCHANGED <<landed, files, inventory, produced>>
      BY <2>4, <2>r DEF EditReport, aux
    <3>3. report' \in Report /\ report'.log = report.log /\ report'.shown = report.shown
      BY <3>1, <3>2 DEF Report
    <3> QED  BY <1>4, <2>f, <2>r, <3>2, <3>3
  <2>5. CASE EditInventory
    <3>1. PICK t \in Text \ {inventory.text} : inventory' = [inventory EXCEPT !.text = t]
      BY <2>5 DEF EditInventory
    <3>2. inventory \in Inventory /\ UNCHANGED <<landed, files, report, produced>>
      BY <2>5, <2>r DEF EditInventory, aux
    <3>3. inventory' \in Inventory
      BY <3>1, <3>2 DEF Inventory
    <3> QED  BY <1>4, <2>f, <2>r, <3>2, <3>3
  <2>6. CASE Land
    <3>1. landed' = Present /\ UNCHANGED <<files, report, inventory, produced>>
      BY <2>6 DEF Land, aux
    <3>2. Present \subseteq Path
      BY DEF Present
    <3> QED  BY <1>4, <2>f, <2>r, <3>1, <3>2
  <2> QED  BY <1>4, <2>r, <2>1, <2>2, <2>3, <2>4, <2>5, <2>6 DEF Edit
<1>6. Types'
  BY <1>1, <1>2, <1>3, <1>5 DEF Types, TypeOK, Newest
<1>7. LogOK' /\ ReportOK'
  BY <1>1, <1>2, <1>5, ReportKept
<1>8. ProducedOK'
  BY <1>1, <1>2, <1>5, DocumentsKept
<1> QED  BY <1>2, <1>6, <1>7, <1>8, EngineKept DEF FindingIInv

\* A crash leaves what is stored, and a report that may be behind.
LEMMA CrashKeeps ==
  ASSUME FindingIInv, Crash
  PROVE  FindingIInv'
<1>1. /\ Types /\ WritersOK /\ StoredOK /\ OwnersResolve /\ LogOK /\ FiledOnce /\ ProducedOK
  BY DEF FindingIInv
<1>2. /\ worker' = NoWork /\ job' = [a \in Actor |-> NoJob] /\ rep' = [p \in Proc |-> NoRep]
      /\ overtaken' = {} /\ behind' = TRUE /\ edits < MaxEdits /\ edits' = edits + 1
      /\ UNCHANGED <<rows, tracker, landed, files, report, inventory, shared, produced, requests>>
  BY DEF Crash, Human, docs
<1>3. /\ runs \in Seq(Run) /\ Newest \in Nat \ {0} /\ runs[Newest] \in Run
  BY <1>1 DEF Types, TypeOK, Newest
<1>4. /\ runs' \in Seq(Run) /\ Newest' = Newest /\ ~Running'
      /\ \A i \in 1..Newest : runs'[i].recipe = runs[i].recipe /\ runs'[i].snap = runs[i].snap
  <2>1. CASE ~Running
    BY <1>3, <2>1 DEF Crash, Running, Newest
  <2>2. CASE Running
    <3> DEFINE run == [runs[Newest] EXCEPT !.status = "stopped"]
    <3>1. /\ run \in Run /\ run.status # "running" /\ run.recipe = runs[Newest].recipe
          /\ run.snap = runs[Newest].snap
      BY <1>3 DEF Run
    <3>2. runs' = [runs EXCEPT ![Newest] = run]
      BY <2>2 DEF Crash
    <3> HIDE DEF run
    <3>3. Newest \in 1..Len(runs)
      BY <1>3 DEF Newest
    <3>4. runs' \in Seq(Run) /\ Len(runs') = Len(runs) /\ runs'[Newest] = run
      BY <1>3, <3>1, <3>2, <3>3
    <3>5. \A i \in 1..Newest : i # Newest => runs'[i] = runs[i]
      BY <1>3, <3>2, <3>3 DEF Newest
    <3> QED  BY <3>1, <3>4, <3>5 DEF Newest, Running
  <2> QED  BY <2>1, <2>2
<1>5. /\ job' \in [Actor -> Job] /\ rep' \in [Proc -> Rep] /\ worker' \in Work
      /\ worker'.pc = "idle" /\ worker'.scope = {} /\ worker'.todo = {}
      /\ \A a \in Actor : job'[a].pc = "idle" /\ job'[a].f = None
      /\ \A p \in Proc : rep'[p].pc = "idle" /\ rep'[p].final = FALSE
  BY <1>2, NoJobIs, NoRepIs, NoWorkIs
<1>6. ~Active'
  BY <1>5 DEF Active
<1>7. Types'
  <2>1. edits' \in 0..MaxEdits
    BY <1>1, <1>2, ConstantsAssumption DEF Types, TypeOK, ConstantsAssumption
  <2> QED  BY <1>1, <1>2, <1>3, <1>4, <1>5, <2>1 DEF Types, TypeOK
<1>8. JobsOK' /\ AloneOK'
  BY <1>5 DEF JobsOK, JobOK, AloneOK, About
<1>9. WritersOK'
  <2>1. \A a \in Actor : rep'[a].pc = "idle" /\ rep'[a].final = FALSE
    BY <1>5 DEF Proc
  <2>2. rep'["worker"].pc = "idle"
    BY <1>5 DEF Proc
  <2> QED  BY <1>4, <1>5, <1>6, <2>1, <2>2 DEF WritersOK
<1>10. StoredOK'
  BY <1>1, <1>2, <1>4, <1>5, <1>6 DEF StoredOK
<1>11. OwnersResolve'
  <2> SUFFICES ASSUME NEW f \in Fp, rows[f] # None, ~rows[f].live
               PROVE  \E r \in rows[f].run + 1 .. Newest :
                          \/ f \in Owned(runs'[r].recipe) \/ DocPath[f] \notin runs'[r].snap \cup {None}
    BY <1>2, <1>4 DEF OwnersResolve
  <2>1. PICK r \in rows[f].run + 1 .. Newest :
                          \/ f \in Owned(runs[r].recipe) \/ DocPath[f] \notin runs[r].snap \cup {None}
    BY <1>1 DEF OwnersResolve
  <2>2. rows[f].run \in Nat
    BY <1>1 DEF Types, TypeOK, Row
  <2>3. r \in 1..Newest
    BY <1>3, <2>1, <2>2
  <2> QED  BY <1>4, <2>1, <2>3
<1>12. LogOK'
  <2>1. rep'["worker"].pc = "idle"
    BY <1>5 DEF Proc
  <2> QED  BY <1>1, <1>2, <1>4, <1>6, <2>1 DEF LogOK
<1>13. ReportOK'
  BY <1>2, <1>5 DEF ReportOK
<1>14. FiledOK' /\ FiledOnce'
  BY <1>1, <1>2, <1>5 DEF FiledOK, FiledOnce
<1>15. ProducedOK'
  BY <1>1, <1>2, <1>5 DEF ProducedOK, ProducedRecorded, Present, About
<1> QED  BY <1>7, <1>8, <1>9, <1>10, <1>11, <1>12, <1>13, <1>14, <1>15 DEF FindingIInv

-----------------------------------------------------------------------------
(* The invariant                                                           *)

\* The first run left a branch with nothing in flight.
LEMMA InitIs == Init => FindingIInv
<1> SUFFICES ASSUME Init PROVE FindingIInv
  OBVIOUS
<1> DEFINE first == CHOOSE r \in Recipe : Before \subseteq Owned(r)
           run == [status |-> "ok", recipe |-> first, snap |-> {DocPath[f] : f \in Fp} \ {None}]
<1>1. first \in Recipe
  <2>1. PICK r \in Recipe : \A f \in Before : Kind[f] \in r.kinds
    BY ConstantsAssumption DEF ConstantsAssumption
  <2>2. Before \subseteq Owned(r)
    BY <2>1, ConstantsAssumption DEF ConstantsAssumption, Owned
  <2> QED  BY <2>1, <2>2
<1>2. run \in Run /\ run.status = "ok"
  <2>1. {DocPath[f] : f \in Fp} \ {None} \in SUBSET Path
    BY Nones
  <2> HIDE DEF first
  <2> QED  BY <1>1, <2>1 DEF Run
<1>3. runs = <<run>>
  BY DEF Init
<1> HIDE DEF run, first
<1>4. runs \in Seq(Run) /\ Newest = 1 /\ runs[Newest].status = "ok" /\ ~Running
  BY <1>2, <1>3 DEF Newest, Running
<1>5. /\ rows = [f \in Fp |-> IF f \in Before THEN NewRow(1) ELSE None]
      /\ report = [text |-> Blank, shown |-> Visible, log |-> <<1>>]
      /\ inventory = None
      /\ files = [p \in Path |-> IF \E f \in Fp : DocPath[f] = p THEN Fresh ELSE None]
      /\ landed = (IF Protected THEN Present ELSE {})
      /\ tracker = [f \in Fp |-> [t \in Target |-> [items |-> 0, missed |-> 0]]]
      /\ worker = NoWork /\ job = [a \in Actor |-> NoJob] /\ rep = [p \in Proc |-> NoRep]
      /\ requests = 0 /\ edits = 0 /\ overtaken = {} /\ behind = FALSE
      /\ shared = {} /\ produced = [f \in Fp |-> {}]
  BY DEF Init
<1>6. /\ job \in [Actor -> Job] /\ rep \in [Proc -> Rep] /\ worker \in Work
      /\ worker.pc = "idle" /\ worker.scope = {} /\ worker.todo = {}
      /\ \A a \in Actor : job[a].pc = "idle" /\ job[a].f = None
      /\ \A p \in Proc : rep[p].pc = "idle" /\ rep[p].final = FALSE
  BY <1>5, NoJobIs, NoRepIs, NoWorkIs
<1>7. \A f \in Fp : /\ rows[f] \in Row \cup {None}
                    /\ rows[f] # None => rows[f].run = 1 /\ rows[f].live
  BY <1>5, NewRowIs
<1>8. ~Active
  BY <1>6 DEF Active
<1>9. Types
  <2>1. files \in [Path -> File \cup {None}] /\ landed \subseteq Path
    BY <1>5, FreshIs DEF Present
  <2>2. rows \in [Fp -> Row \cup {None}]
    BY <1>5, <1>7
  <2>3. report \in Report /\ report.log = <<1>> /\ report.shown = Visible
    <3>1. Visible \in Shown
      BY <1>7 DEF Visible, Shown, Row
    <3> QED  BY <1>5, <3>1, BlankIs DEF Report
  <2>4. tracker \in [Fp -> [Target -> Tally]] /\ produced \in [Fp -> SUBSET Path]
    BY <1>5 DEF Tally
  <2>5. requests \in 0..MaxRequests /\ edits \in 0..MaxEdits
    BY <1>5, ConstantsAssumption DEF ConstantsAssumption
  <2>6. /\ overtaken \subseteq Proc /\ shared \subseteq Fp /\ behind \in BOOLEAN
        /\ inventory = None /\ \A a \in Actor : job[a].f \in Fp \cup {None}
        /\ worker.todo \subseteq Fp /\ worker.scope \subseteq Path \cup {Source}
    BY <1>5, <1>6
  <2>7. TypeOK
    BY <1>4, <2>1, <2>2, <2>3, <2>4, <2>5, <2>6 DEF TypeOK
  <2> QED  BY <1>4, <1>6, <2>6, <2>7 DEF Types
<1>10. JobsOK /\ AloneOK /\ FiledOK
  BY <1>6 DEF JobsOK, JobOK, AloneOK, FiledOK, About
<1>11. WritersOK
  <2>1. rep["worker"].pc = "idle" /\ \A a \in Actor : rep[a].pc = "idle" /\ rep[a].final = FALSE
    BY <1>6 DEF Proc
  <2> QED  BY <1>4, <1>6, <1>8, <2>1 DEF WritersOK
<1>12. StoredOK /\ OwnersResolve
  BY <1>4, <1>6, <1>7, <1>8 DEF StoredOK, OwnersResolve
<1>13. LogOK
  <2>1. report.log = <<1>> /\ Len(report.log) = 1 /\ report.log[1] = 1
    BY <1>5
  <2>2. rep["worker"].pc = "idle"
    BY <1>6 DEF Proc
  <2> QED  BY <1>4, <1>8, <2>1, <2>2 DEF LogOK
<1>14. ReportOK
  BY <1>5, <1>6 DEF ReportOK
<1>15. FiledOnce
  BY <1>5 DEF FiledOnce
<1>16. ProducedOK
  BY <1>5, <1>6 DEF ProducedOK, ProducedRecorded, About
<1> QED  BY <1>9, <1>10, <1>11, <1>12, <1>13, <1>14, <1>15, <1>16 DEF FindingIInv

\* A report's step keeps the invariant.
LEMMA ReportKeeps ==
  ASSUME FindingIInv, NEW p \in Proc, ReportStep(p)
  PROVE  FindingIInv'
  BY ReportRowsKeeps, ReportFileKeeps, ReportSaveKeeps DEF ReportStep

\* A request's step keeps the invariant.
LEMMA HandleKeeps ==
  ASSUME FindingIInv, NEW a \in Actor, Handle(a)
  PROVE  FindingIInv'
<1>1. ClaimRun(a) \/ Working(a)
  BY DEF Handle, Working
<1> QED  BY <1>1, ClaimRunKeeps, WorkingKeeps

\* Nothing happens.
LEMMA StutterKeeps == FindingIInv /\ UNCHANGED vars => FindingIInv'
<1> SUFFICES ASSUME FindingIInv, UNCHANGED vars PROVE FindingIInv'
  OBVIOUS
<1>1. UNCHANGED <<rows, landed, files, report, inventory, runs, tracker, worker,
                  job, rep, requests, edits, overtaken, behind, shared, produced>>
  BY DEF vars
<1>2. Types /\ LogOK /\ ReportOK /\ ProducedOK
  BY DEF FindingIInv
<1>3. Types'
  BY <1>1, <1>2 DEF Types, TypeOK, Newest
<1>4. LogOK' /\ ReportOK'
  BY <1>1, <1>2, ReportKept
<1>5. ProducedOK'
  BY <1>1, <1>2 DEF ProducedOK, ProducedRecorded, KeepsOK, Present
<1> QED  BY <1>1, <1>3, <1>4, <1>5, EngineKept DEF FindingIInv

\* Whatever happens keeps the invariant.
LEMMA StepKeeps == FindingIInv /\ [Next]_vars => FindingIInv'
  BY WorkerKeeps, ReportKeeps, StartKeeps, RequestRunKeeps, HandleKeeps, EditKeeps, CrashKeeps,
     StutterKeeps DEF Next

\* The findings, their report, what requests hold of them and what the worker
\* has stored stay consistent, for any constants (driftWorker, the handlers of
\* api/drift.go, writeDriftReport).
THEOREM FindingInvariance == Spec => []FindingIInv
<1>1. Init => FindingIInv
  BY InitIs
<1>2. FindingIInv /\ [Next]_vars => FindingIInv'
  BY StepKeeps
<1> QED  BY <1>1, <1>2, PTL DEF Spec

\* A finding leaves the list only through a run that owns its kind or found
\* its document gone, and no document it led to is forgotten.
THEOREM FindingKept == Spec => []FindingInv
<1>1. FindingIInv => FindingInv
  BY DEF FindingIInv, Types, ProducedOK, FindingInv
<1> QED  BY <1>1, FindingInvariance, PTL

\* With nothing in flight a report that is not known to be behind shows every
\* live finding with its status (writeDriftReport, refreshDriftReport).
THEOREM Tracks == Spec => []ReportTracks
<1>1. FindingIInv => ReportTracks
  BY DEF FindingIInv, ReportOK, ReportTracks, Quiet, WorkerOwes, Active, Owes
<1> QED  BY <1>1, FindingInvariance, PTL

\* One marker has one work item, and one more for each search that did not show
\* an item there was, for any targets and any retries (postDriftFile).
THEOREM Filed == Spec => []FiledOnce
<1>1. FindingIInv => FiledOnce
  BY DEF FindingIInv
<1> QED  BY <1>1, FindingInvariance, PTL

-----------------------------------------------------------------------------
(* What a step may never do                                                *)

\* Who begins reads, and changes nothing that is stored.
LEMMA StartLeaves ==
  ASSUME NEW a \in Actor, NEW f \in Fp, Start(a, f)
  PROVE  UNCHANGED <<rows, files, report, inventory>>
<1>1. ASSUME NEW pc, NEW todo, BeginWith(a, f, pc, todo)
      PROVE  UNCHANGED <<rows, files, report, inventory>>
  BY <1>1 DEF BeginWith, table, docs
<1>2. CASE StartCreate(a, f) \/ StartFile(a, f)
  BY <1>1, <1>2 DEF StartCreate, StartFile
<1>3. CASE StartDismiss(a, f) \/ StartReopen(a, f) \/ StartDraft(a, f) \/ StartRemedy(a, f)
  BY <1>1, <1>3 DEF StartDismiss, StartReopen, StartDraft, StartRemedy, Begin
<1> QED  BY <1>2, <1>3 DEF Start

\* A step of anybody but the worker, a claim and a crash leaves the worker.
LEMMA WorkerAlone ==
  ASSUME FindingIInv, Next, worker' # worker
  PROVE  WorkerStep \/ rows' = rows
<1>1. Types /\ JobsOK
  BY DEF FindingIInv
<1>2. CASE \E p \in Proc : ReportStep(p)
  BY <1>2 DEF ReportStep, ReportRows, ReportFile, ReportSave, table
<1>3. CASE \E a \in Actor, f \in Fp : Start(a, f)
  BY <1>3, StartLeaves
<1>4. CASE \E a \in Actor : RequestRun(a) \/ Handle(a)
  <2>1. PICK a \in Actor : RequestRun(a) \/ ClaimRun(a) \/ Working(a)
    BY <1>4 DEF Handle, Working
  <2>2. CASE Working(a)
    BY <1>1, <2>2, WorkingServes DEF Serves
  <2> QED  BY <2>1, <2>2 DEF RequestRun, ClaimRun, table
<1>5. CASE Edit \/ Crash
  BY <1>5 DEF Edit, EditDocument, CreateDocument, DeleteDocument, EditReport, EditInventory, Land,
              Crash, table
<1> QED  BY <1>2, <1>3, <1>4, <1>5 DEF Next

\* Whatever a run finds, no longer finds or retires, it leaves what users did
\* with a finding, and never deletes one (UpsertDriftFinding).
THEOREM Triaged == Spec => TriageSurvives
<1>1. ASSUME FindingIInv, [Next]_vars, worker' # worker, NEW f \in Fp, rows[f] # None
      PROVE  Triage(rows'[f]) = Triage(rows[f])
  <2>1. Next
    BY <1>1 DEF vars
  <2>2. CASE WorkerStep
    BY <1>1, <2>2, WorkerKeeps DEF SameTriage
  <2> QED  BY <1>1, <2>1, <2>2, WorkerAlone
<1>2. FindingIInv /\ [Next]_vars => [worker' # worker => \A f \in Fp :
          rows[f] # None => Triage(rows'[f]) = Triage(rows[f])]_vars
  BY <1>1
<1> QED  BY <1>2, FindingInvariance, PTL DEF Spec, TriageSurvives

\* Who changes the report saves over what it read, or edits its text.
LEMMA ReportAlone ==
  ASSUME FindingIInv, [Next]_vars, report' # report
  PROVE  \/ /\ report # None /\ report'.log = report.log /\ report' # None /\ edits' # edits
         \/ \E p \in Proc : /\ rep[p].pc = "save" /\ SaveAccepted(report, rep[p].base)
                            /\ report' = Merged(rep[p])
<1>1. Types /\ JobsOK
  BY DEF FindingIInv
<1>2. Next
  BY DEF vars
<1>3. CASE WorkerStep
  BY <1>3 DEF WorkerStep, Retire, CheckUnit, Upsert, Reconcile, Extract, Progress, Finish, Release, docs
<1>4. CASE \E p \in Proc : ReportStep(p)
  BY <1>4 DEF ReportStep, ReportRows, ReportFile, ReportSave, docs
<1>5. CASE \E a \in Actor, f \in Fp : Start(a, f)
  BY <1>5, StartLeaves
<1>6. CASE \E a \in Actor : RequestRun(a) \/ Handle(a)
  <2>1. PICK a \in Actor : RequestRun(a) \/ ClaimRun(a) \/ Working(a)
    BY <1>6 DEF Handle, Working
  <2>2. CASE Working(a)
    BY <1>1, <2>2, WorkingServes DEF Serves
  <2> QED  BY <2>1, <2>2 DEF RequestRun, ClaimRun, docs
<1>7. CASE EditReport
  <2>1. PICK t \in Text : report' = [report EXCEPT !.text = t]
    BY <1>7 DEF EditReport
  <2>2. report # None /\ report \in Report /\ edits \in Nat /\ edits' = edits + 1
    BY <1>1, <1>7, ConstantsAssumption DEF EditReport, Human, Types, TypeOK, ConstantsAssumption
  <2>3. report' \in Report /\ report'.log = report.log
    BY <1>1, <2>1, <2>2 DEF Report, EditReport, Types, TypeOK
  <2> QED  BY <2>2, <2>3, Nones
<1>8. CASE (Edit /\ ~EditReport) \/ Crash
  BY <1>8 DEF Edit, EditDocument, CreateDocument, DeleteDocument, EditInventory, Land, Crash, docs
<1> QED  BY <1>2, <1>3, <1>4, <1>5, <1>6, <1>7, <1>8 DEF Next

\* A run adds its line to the log once, when it finishes, and no refresh drops
\* or repeats a line (extractRunLog, appendLog).
THEOREM LogAccumulates == Spec => RunLogAccumulates
<1>1. ASSUME FindingIInv, [Next]_vars, report # None, report' # None
      PROVE  report'.log \in {report.log} \cup IF Contains(report.log, Newest) THEN {}
                                               ELSE {Append(report.log, Newest)}
  <2>1. Types /\ WritersOK /\ LogOK
    BY <1>1 DEF FindingIInv
  <2>2. CASE report'.log = report.log
    BY <2>2
  <2>3. ASSUME NEW p \in Proc, rep[p].pc = "save", SaveAccepted(report, rep[p].base),
               report' = Merged(rep[p]), rep[p].final
        PROVE  report'.log = Append(report.log, Newest) /\ ~Contains(report.log, Newest)
    <3>1. report'.log = Append(report.log, Newest)
      BY <1>1, <2>1, <2>3, MergedIs
    <3>2. \A i \in 1..Len(report.log) : report.log[i] # Newest
      BY <1>1, <2>1, <2>3, FinalIs
    <3> QED  BY <3>1, <3>2 DEF Contains
  <2>4. ASSUME NEW p \in Proc, rep[p].pc = "save", SaveAccepted(report, rep[p].base),
               report' = Merged(rep[p]), ~rep[p].final
        PROVE  report'.log = report.log
    BY <1>1, <2>1, <2>4, MergedIs
  <2> QED  BY <1>1, <2>2, <2>3, <2>4, ReportAlone
<1>2. FindingIInv /\ [Next]_vars => [report # None /\ report' # None =>
          report'.log \in {report.log} \cup IF Contains(report.log, Newest) THEN {}
                                            ELSE {Append(report.log, Newest)}]_vars
  BY <1>1
<1> QED  BY <1>2, FindingInvariance, PTL DEF Spec, RunLogAccumulates

\* What a step that is not a human's edit leaves in the documents.
LEMMA FilesKept ==
  ASSUME FindingIInv, [Next]_vars
  PROVE  /\ edits' = edits => \A p \in Path : files[p] # None =>
                                 files'[p] # None /\ files'[p].text = files[p].text
         /\ \A p \in Path : files[p] # None /\ files'[p] # None => files[p].links \subseteq files'[p].links
<1>1. Types /\ JobsOK /\ edits \in Nat
  BY ConstantsAssumption DEF FindingIInv, Types, TypeOK, ConstantsAssumption
<1>2. CASE Grows \/ files' = files
  BY <1>2 DEF Grows
<1>3. CASE \E a \in Actor : Working(a)
  BY <1>1, <1>2, <1>3, WorkingGrows
<1>4. CASE Edit
  <2>1. edits' # edits
    BY <1>1, <1>4 DEF Edit, EditDocument, CreateDocument, DeleteDocument, EditReport, EditInventory,
                      Land, Human
  <2>2. CASE \E p \in Path : EditDocument(p)
    <3>1. PICK p \in Path : EditDocument(p)
      BY <2>2
    <3>2. PICK t \in Text : files' = [files EXCEPT ![p].text = t]
      BY <3>1 DEF EditDocument
    <3>3. files[p] \in File /\ files \in [Path -> File \cup {None}]
      BY <1>1, <3>1 DEF EditDocument, Types, TypeOK
    <3>4. files'[p].links = files[p].links /\ \A q \in Path : q # p => files'[q] = files[q]
      BY <3>2, <3>3 DEF File
    <3> QED  BY <2>1, <3>4
  <2>3. CASE \E p \in Path : CreateDocument(p) \/ DeleteDocument(p)
    BY <1>1, <2>1, <2>3 DEF CreateDocument, DeleteDocument, Types, TypeOK
  <2>4. CASE EditReport \/ EditInventory \/ Land
    BY <1>2, <2>4 DEF EditReport, EditInventory, Land
  <2> QED  BY <1>4, <2>2, <2>3, <2>4 DEF Edit
<1>5. CASE WorkerStep
  BY <1>2, <1>5 DEF WorkerStep, Retire, CheckUnit, Upsert, Reconcile, Extract, Progress, Finish, Release,
                    docs
<1>6. CASE \E p \in Proc : ReportStep(p)
  BY <1>2, <1>6 DEF ReportStep, ReportRows, ReportFile, ReportSave, docs
<1>7. CASE \E a \in Actor, f \in Fp : Start(a, f)
  BY <1>2, <1>7, StartLeaves
<1>8. CASE (\E a \in Actor : RequestRun(a) \/ ClaimRun(a)) \/ Crash \/ UNCHANGED vars
  BY <1>2, <1>8 DEF RequestRun, ClaimRun, Crash, docs, vars
<1> QED  BY <1>3, <1>4, <1>5, <1>6, <1>7, <1>8 DEF Next, Handle, Working

\* Who changes the inventory keeps its text, or is a human.
LEMMA InventoryKept ==
  ASSUME FindingIInv, [Next]_vars, edits' = edits, inventory # None
  PROVE  inventory' # None /\ inventory'.text = inventory.text
<1>1. Types /\ JobsOK /\ edits \in Nat /\ inventory \in Inventory
  BY ConstantsAssumption DEF FindingIInv, Types, TypeOK, ConstantsAssumption
<1>2. CASE inventory' = inventory
  BY <1>2
<1>3. CASE Extract
  <2>1. CASE inventory' = [text |-> inventory.text, run |-> Newest]
    <3>1. inventory' \in Inventory /\ inventory'.text = inventory.text
      BY <1>1, <2>1 DEF Inventory, Types, TypeOK, Newest
    <3> QED  BY <3>1, Nones
  <2> QED  BY <1>2, <1>3, <2>1 DEF Extract
<1>4. CASE WorkerStep
  BY <1>2, <1>3, <1>4 DEF WorkerStep, Retire, CheckUnit, Upsert, Reconcile, Progress, Finish,
                          Release, docs
<1>5. CASE Edit \/ Crash
  BY <1>1, <1>5 DEF Edit, EditDocument, CreateDocument, DeleteDocument, EditReport, EditInventory,
                    Land, Crash, Human
<1>6. CASE \E p \in Proc : ReportStep(p)
  BY <1>2, <1>6 DEF ReportStep, ReportRows, ReportFile, ReportSave, docs
<1>7. CASE \E a \in Actor, f \in Fp : Start(a, f)
  BY <1>2, <1>7, StartLeaves
<1>8. CASE (\E a \in Actor : RequestRun(a) \/ ClaimRun(a)) \/ UNCHANGED vars
  BY <1>2, <1>8 DEF RequestRun, ClaimRun, docs, vars
<1>9. CASE \E a \in Actor : Working(a)
  BY <1>1, <1>2, <1>9, WorkingServes DEF Serves
<1> QED  BY <1>4, <1>5, <1>6, <1>7, <1>8, <1>9 DEF Next, Handle, Working

\* What the engine writes into a report, an inventory or a document never
\* takes a human's text or another link with it (SaveFile's compare-and-swap).
THEOREM EditsKept == Spec => EditsSurvive
<1>1. ASSUME FindingIInv, [Next]_vars
      PROVE  /\ edits' = edits =>
                  /\ report # None => report' # None /\ report'.text = report.text
                  /\ inventory # None => inventory' # None /\ inventory'.text = inventory.text
                  /\ \A p \in Path : files[p] # None =>
                        files'[p] # None /\ files'[p].text = files[p].text
             /\ \A p \in Path : files[p] # None /\ files'[p] # None =>
                  files[p].links \subseteq files'[p].links
  <2>1. ASSUME edits' = edits, report # None, report' # report
        PROVE  report' # None /\ report'.text = report.text
    <3>1. PICK p \in Proc : /\ rep[p].pc = "save" /\ SaveAccepted(report, rep[p].base)
                            /\ report' = Merged(rep[p])
      BY <1>1, <2>1, ReportAlone
    <3>2. Types
      BY <1>1 DEF FindingIInv
    <3> QED  BY <2>1, <3>1, <3>2, MergedIs, Nones
  <2> QED  BY <1>1, <2>1, FilesKept, InventoryKept
<1>2. FindingIInv /\ [Next]_vars =>
        [/\ edits' = edits =>
            /\ report # None => report' # None /\ report'.text = report.text
            /\ inventory # None => inventory' # None
                                   /\ inventory'.text = inventory.text
            /\ \A p \in Path : files[p] # None =>
                  files'[p] # None /\ files'[p].text = files[p].text
         /\ \A p \in Path : files[p] # None /\ files'[p] # None =>
            files[p].links \subseteq files'[p].links]_vars
  BY <1>1
<1> QED  BY <1>2, FindingInvariance, PTL DEF Spec, EditsSurvive
=============================================================================
