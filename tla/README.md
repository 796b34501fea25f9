# SpecQuill in TLA+

SpecQuill edits the Markdown specifications of several git repositories from a
browser: a Go server (`src/server`) keeps a bare clone and worktrees of each
repository, users draft on personal branches, land them by merge or by a
proposal on the forge, and an alignment engine has a language model audit the
documents against source code. This directory models the parts whose
correctness depends on the order of things, checks them with TLC on small
instances, and proves what matters most with TLAPS for every instance.

## 1. The system

| Component | State it keeps | Operations | What is hard |
|---|---|---|---|
| **Git layer** (`internal/gitx`, `api/merge.go`, `api/workspace.go`) | refs, object store, one worktree and index per branch, `r.mu`, a mutex per branch | save, move, delete, discard, commit, create branch, ensure workspace, merge, pull, push; the sync loop (fetch, fast-forward) and the worktree janitor | two kinds of locks that do not cover each other; values read under no lock and used under one; a crash between `update-ref` and `reset`, or a `reset` that fails |
| **Alignment runs** (`api/drift.go`, `store/drift.go`) | rows of `drift_runs` with progress and checkpoint, the in-memory registry, one worker goroutine per run | start, resume, cancel; the worker's units and stages; closing interrupted rows at boot | restart anywhere, cancel anywhere, failing stages, a ceiling on model calls, two requests at once |
| **Stages of a recipe** (`api/pipeline.go`, `recipe`) | the items a stage produced, the checkpoint in memory and in the store | fan out over earlier items, check evidence, cap, annotate in batches, select files, checkpoint, rehydrate, assemble | positions that shift, copies that go stale, a snapshot older than the run that reports it |
| **Findings, report, filing** (`api/drift.go`, `store/drift.go`) | rows of `drift_findings`, the report and inventories in the repository, items on a tracker | upsert, reconcile, retire, dismiss, draft, remedy, plan, create, file; refresh of the report | triage against re-detection; read, merge and compare-and-swap; a tracker whose answer is lost |
| **Editor draft** (`web/src/hooks/useDraft.ts`) | the draft, the sha it is based on, a save in flight, a copy in local storage, two timers | type, autosave, flush, resolve a conflict, recover, keepalive save of a hidden tab | answers that come late or never, two saves in flight, one ref for one document after another |
| **Roles, grants, invites, workspace claims** (`api`, `authz`, `store`) | SQLite tables | sign in, enrol, grant, invite, revoke, claim | an address that signs in between the lookup and the write; two uniqueness rules |
| **Sessions and forge tokens** (`auth`, `api/pat.go`, `api/middleware.go`) | session rows, a token vault in memory | sign in, slide, expire, sweep, sign out | memory and table age by different clocks |
| **Projects, repositories, shares** (`api/admin.go`, `store`, `cmd/specquill/main.go`) | the YAML, its mirror in the store, the managers' registrations | add, delete, register, sync at start | statements that a death of the process parts; an edit of the YAML |
| **Clones on demand** (`gitx/reclaim.go`, `fleet.go`, `api/dynamic.go`) | clone directories, use stamps, a cached "is cloned" flag | clone, use, remove, reclaim | check, then remove, while a request writes; removals that fail half-way, clones cut short |
| **Importers** (`importer`, `gitx/mirror.go`) | a mirror repository per source, the last sync's outcome | timed and manual sync | reading by position; an older fetch that lands last |
| **Moves** (`project`, `refactor`) | none: a request over many files | move a file or folder and rewrite what refers to it | renamed first, rewritten file by file, beside other people's saves |
| **Recipe filters** (`recipe/glob.go`) | none: pure | match a path | backtracking |
| **Assistant, drafting, source cache** (`api/speccy.go`, `speccytools.go`, `ai`) | the transcript, which travels through the browser; a cache of snapshots | converse with tools, suspend for a question, draft; look up a source | every call answered once; documents that change between a tool's read and its save; the head read before the content, and a branch that is forced back |
| **Wizard, linker, link checks; document formats; forges and trackers; events; configuration; web views** | caches, streams | remote calls, text transformations | I/O and text |

How they interact: every HTTP handler runs on a goroutine of its own and calls
the git layer and the single-connection SQLite store; the sync loop, the
janitors, the importers and the alignment worker are background goroutines
that call the same; the browser talks HTTP and refetches on server-sent
events. Whoever writes a document, be it the editor, the worker with its report,
a move or the assistant, goes through the git layer's `SaveFile`, and is safe
only by the sha of what it read. That check is in `Gitx`, `Finding`, `Moves`,
`Assistant` and `Draft`, each with the reads and saves its code makes around
it.

What makes each component correct:

- *Git layer*: no request discards a commit or overwrites an unsaved file that
  it was not told to; a protected branch moves only by a merge, by following
  origin, or as the claimed workspace of a merge; a worktree's index follows its branch; every request and every pass
  of the sync loop ends and gives `r.mu` back.
- *Runs*: one per branch; progress is exact; resuming skips nothing; a run that
  ends, in whatever way, frees the branch.
- *Stages*: nothing is reported with evidence nobody checked, under an area it
  is not of, or as covered by a document that is gone.
- *Findings*: what users did survives re-detection; a finding is filed once, as far as
  the tracker's search shows what was filed;
  the report follows the findings and keeps what people wrote into it.
- *Draft*: what was typed is on the server or kept; no save takes what somebody
  else wrote; something is always left that will save.
- *Access*: an address that was given access has it after it signs in, and not
  after it was taken away; each user has one workspace, and nobody else's.
- *Sessions*: a live session keeps its token; no token outlives its session for
  ever.
- *Projects*: those of the YAML are managed by it, those of the app stay until
  they are deleted there, and each has its repository.
- *Clones*: work that is nowhere else is not removed for idleness; a clone that
  is trusted to be there is there, whole or in part.
- *Importers*: the mirror misses no page that was there all along, and comes to
  show a space that is left alone.
- *Moves*: links lead where they led; no author's text is lost.
- *Assistant*: the provider gets a well-formed transcript; no edit of a person
  is dropped; no request is answered from an older source than it found, unless
  the source's branch came back to where it had been.

`PROJECT.json` lists the hazards with their lines, and which property watches
each.

## 2. Modules

| Module | What it is |
|---|---|
| `Gitx`, `MCGitx` | one writable repository: refs, worktrees, locks, requests in steps, the sync loop, the remote, crashes, failing resets |
| `RunLedger`, `DriftRun` | what a reader of `drift_runs` may rely on; the alignment runs of one branch, which implement it |
| `Pipeline` | the stages of a recipe over one unit |
| `Finding`, `MCFinding` | the findings of one branch, their documents, items and report |
| `Draft` | one tab of the editor and the server's documents |
| `Access` | accounts, grants, invites, claims |
| `SignIn` | sessions and the token vault |
| `Registry` | projects, repositories and shares of a deployment |
| `Clones` | one clone of one user |
| `Importer` | one imported space and its mirror |
| `Moves` | one branch's documents under a move |
| `Glob` | the matching of patterns |
| `Assistant`, `SourceCache` | the conversation and the drafting request; the cache of snapshots |
| `MCServices`, `MCBackground`, `MCEngine` | instances of several of these, side by side |
| `GitxProofs`, `DriftRunProofs`, `FindingProofs`, `AccessProofs`, `SignInProofs`, `ClonesProofs` | the theorems of each, with their proofs |
| `DeploymentProofs` | the theorems of `Registry` and of `Importer`, with their proofs |
| `EngineProofs` | the theorems of `Assistant`, `Pipeline`, `Moves`, `SourceCache`, `Glob` and `Draft`, with their proofs |

**Side by side.** `MCServices` runs `Access`, `Registry`, `Clones` and
`SourceCache`,
`MCBackground` runs `DriftRun`, `SignIn`, `Importer` and `Draft`, and `MCEngine`
runs `Pipeline`, `Moves`, `Assistant`, `Glob` and `Draft`. The
components of one of these modules share no variable, so a product of their
state spaces would only repeat each one's: the variable `part` says which of
them a behaviour moves, and the others rest in an initial state. One run thus
has the sum of their states, each component checked for all of its own. What
components do share, the documents and the sha check, is inside each module
that depends on it.

### Gitx and the code

State: `head`, `origin` and `upstream` are `refs/heads`, `refs/remotes/origin`
and the remote's own branches; `made`, `tree`, `anc` and `carries` are the
object store (a commit's tree, its ancestors, and the commits whose changes it
contains, which differ for a squash); `wt`, `work` and `index` are the
worktrees, and `base` is a history variable: the commit a worktree was last checked
out, reset or committed at, or was found unchanged at when a ref moved away from
it; `mu` is `r.mu`; `pc` and `job` hold what a handler remembers
between two of its steps; `left` notes the branches whose worktree a crash or a
failed reset left behind the ref; `raced` notes that somebody else wrote a branch a
running request depends on.

Every section under a branch mutex runs one visible git command on one
worktree and is one action, so the branch mutex needs no variable. Sections of
`r.mu` are split where a ref is read and written later, because `Commit` moves
refs without taking `r.mu`. `SaveFile`, `MoveFile`, `DeleteFile`, `Discard`,
`Commit`, `CreateBranch`, `Push` and `EvictWorktree` are one action each.
`EnsureWorkspace` is `StartWorkspace`, `WsBase`, `WsCreate` or `WsCount`,
`WsDirty`, then `ResetBranchFF`: `FfCheck`, `FfLock`, `FfSwap`, `Sync`. A merge
is `StartMerge`, `MgStatus`, `MgCheck`, `MgLock`, `MgTree`, `MgSwap`, `Sync`,
and then `ResetBranchFF` of the merged workspace. `Sync` is `git reset --hard`, which
may fail (the janitor's `git status` may hold the index's lock): the code discards the
error, and so does the model. `Faults` says whether an instance has crashes and
failing resets. `Claimed` are the branches somebody's claim names, a protected one
among them: the claim is stored before the branch is refused. `Pull` and the sync loop
fetch in `StartPull` and walk the branches in `FfNext`.

### DriftRun and the code

State: `runs` and `last` are the table; `claimed` and `cancelled` the registry
and the run's context; `job` what `postDriftRun` remembers between its reads,
the claim and the insert; `worker` the goroutine's locals; `settled` and
`refused` record, for the properties, which units were checked or failed and
which were refused a model call.

The store has one connection, so a statement is an action. `StartRun` and
`ResumeRun` are the handler up to the claim (documents and recipe may be any
at that moment), `Claim`, then `Create` or `CreateFails`. The worker's
`NextUnit` is the loop's head; a stage is `StageRehydrated` from the
checkpoint, `StageAnswered`, `StageFails`, `StageRefused` by the ceiling or
`StageCancelled`; `StoreUnit` writes the result; then `ClearCheckpoint`,
`Progress`, and at the end `Finish` and `Release`, which are two steps because
the registry is released by a deferred call after the row is closed. `Crash`
is the death of the process together with `MarkInterruptedDriftRuns` at the
next boot.

### Pipeline and the code

`live` is `produced`, `state` and `saved` the checkpoint in memory and in the
store, `cursor` the place in `runStage`. `StartStage` is the head of a stage (the
items it fans out over, the files it may read), `Charge` the ceiling,
`SelectFiles`, `Answer` and `Remark` what a reply becomes: evidence checked,
items without a required name dropped, the cap, annotations merged into the
items by index. `EndStage` appends a copy to the checkpoint, `Rehydrate` reads it
back, `Finish` assembles requirements under their areas or findings. `Stop` and
`Resume` end a run between two steps and start the next. Items point at their
area by position, as in the code, and `shared` says which items are the very
maps of the checkpoint. Two fields of an item are for the properties: `proved` is the
quote that was looked up when the item was made, and `requoted` that an annotation
wrote another since.

### Finding and the code

`rows` is `drift_findings`, `report` and `inventory` the documents with the
findings they show, their log and what people wrote; `tracker` counts the items
with a finding's marker, and the searches that did not show an item there was
(`FindItem`: the code reads one page). `worker` is the run after its model calls: upsert,
reconcile by recipe and unit, retire against the request's snapshot, finish.
`job` holds the requests (dismiss, draft, remedy, plan, create, file), each in
the statements and saves of its handler, and `rep` the refresh of the report that
follows each. `Edit` is a person's save, `Crash` a restart. `shared`, `behind`
and `produced` record, for the properties, which findings two requests worked on
at once, whether a refresh was dropped, and what was created.

### Draft and the code

`buf` is the hook's ref and React state in one record: `raw`, `dirty`, `base`
(baseSha), `conflicted`, `sync`, `timer` (the debounce), `ls` (the document whose
recovery copy is due), `saving` (inFlight, with what was sent and what came back)
and `shown`, `marked` (the rendered draft's path and flag, which differ from the
ref's while another document loads). `wire` holds the writes under way: the
autosave's, and keepalives nobody waits for. `Autosave` is `persist` up to its
await, `Saved` and `Refused` the rest; `Land` is `putFile` with `SaveFile`'s sha
check; `Broken` a connection that fails before or after the request arrived.
`Open` is a navigation with the editor's guard, `Reload` a reload or a browser
that dies, `Hide` a hidden tab. A text is the set of what was written into it, so
that "taking along" is a subset relation.

### Access, SignIn, Registry, Clones, Importer

One statement of the store, one call of the vault, one critical section or one
git command is a step. `Access` gives each request in flight its locals in `op`;
a sign-in is `UpsertUser`, `SetUserRole`, `ClaimGrantInvites`; a grant is `Lookup`
and then a grant or an invite; a first workspace request is `Workspace`,
`InsertClaim`, `InsertSuffixed`. `SignIn` counts time in ticks of the ten-minute
janitor, `Clones` in ticks of the hourly one, both relative to now, so that time
needs no bound. `Registry` has the start of the process as one step (`Boot`,
which syncs repositories and projects from the YAML and registers them) and the
requests as the statements and map accesses they make. `Clones` keeps the
directory, the fetch that fills the remote refs, the row, the registration, the
two cached flags and the stamp apart, because each is lost or kept by different
events. A removal may fail or die half-way, a clone may be cut short, and what is
left (`Remains`) has `git/HEAD`, which is all the next request looks for, or has not. `Importer` reads the space by position, a page of results per step.

### Moves, Assistant, SourceCache, Glob

`Moves` holds paths as sequences of segments and references as they are spelled;
`MoveFiles` is the rename, `OwnRead`, `OwnSave` rebase what moved, and `NextDoc`,
`SaveDoc` rewrite the rest against the snapshot taken in `Look`. `Assistant` is
`StreamTools`: a post, its retries, a reply's calls one by one, the question that
suspends the conversation, and the tools with the reads and saves they make; a
document is the set of edits in it. `SourceCache` reads the head before the
content, and the content object by object, each by the branch's name; a branch is its
history of heads, to which every fetch may add any commit, an earlier one too. `Glob` walks a segment as `matchSegment` does, a step per iteration, and
compares walk and recursion with what the patterns mean.

## 3. Runs

| Run | Question | Bounds and why they are enough |
|---|---|---|
| `gitx_requests` | Does a request of any kind, beside writes by users, the remote and the janitor, keep commits? Does the index follow the branch? Does a protected branch move only as it should? | two branches (one protected, both named by a claim), one path with two contents, three commits, one server actor, a crash anywhere in its request, a reset that fails: every ahead, behind, diverged and conflicting case occurs |
| `gitx_race` | Does a merge racing the sync loop and commits keep the target's commits? Do the proofs' invariants hold (`KeepIInv` contains `IInv`)? | two actors, one content, three commits, no crash (`gitx_requests` has those): the race needs one commit more than the merge |
| `gitx_paths` | Do drafts survive partial commits, partial discards and moves? | two paths, one content, three commits |
| `gitx_liveness` | Does every request end? | two actors that want the lock, two commits, a crash, resets that fail |
| `findings` | Do runs keep what users did, requests and runs what people wrote, and does the report follow both? | a document's finding and a gap of a source, four recipes (two on the same documents), two requests and two runs, an edit or a crash, a search that misses an item, four events in all, two of worker and requests under way at once (`MaxBusy`): a second run meets a finding in each of its states, and any two of them interleave statement by statement; three at once, and everything larger, is the theorems' |
| `services` | Do access, projects and clones survive interleavings and restarts, and removals and clones that end half-way? Are sources fresh? | two accounts whose names make one slug, one repository, two requests; two ids, of which a project's own config defines one, two requests, any YAML at each start; one clone, two requests and the janitor, two of them under way at once (all three is the theorem's), idle after one tick and retained for two; two sources of two commits and two readers, a cache of two, snapshots of two objects, two moves of a branch: it takes two to come back to a head |
| `background` | Do runs implement the ledger and end? Do tokens stay with their sessions and no longer? Does the mirror catch up? Is a draft always saved in the end? | two requests, rows, units and stages (the second tolerates errors), a ceiling of two calls, two restarts; one session, two tabs, time-to-live two ticks; two pages read one at a time, two syncs, an edit; two documents, a word, another's edit, one navigation, reload or broken connection |
| `engine` | Do results keep their evidence and place, links and texts survive moves, tools and the autosave lose nothing? Do filters mean what they say? | an extraction over three stages and a gap recipe, two files, five replies, four comments (one replaces a quote), four calls, two runs; five paths, one move and one edit, two documents that link, or one with a reference in its frontmatter too; two tool rounds, two posts, batches of two, two requests; every pattern and path of three segments and every segment of three characters over a small alphabet; one document, two words (one is typed while the other is saved), another's edit, two events |
| `gitx_workspace_loss`, `pipeline_resume`, `moves_links`, `draft_recovery` | four comments the code does not keep: section 5 | the smallest instance that shows it |

`findings`, `background`, `engine` and the runs that use their modules do not
check for deadlock: once the requests in the bounds are answered the model
stops, as the server idles. The walk of `Glob` ends in its verdict.

The two `Undisturbed...` properties say that a request *nobody overtook*
(`raced`) loses nothing, neither a commit nor an uncommitted file;
`gitx_workspace_loss` shows why the condition is needed.
`WorktreeFollowsHead` excepts the branches a crash or a failed reset left behind,
until their worktree is next set to a commit, and `TrustedCloneExists` a directory of
which a failed removal, or a clone or removal cut short, left a part: section 5 says
what comes of them.
In the same way `FiledOnce` and `ProducedRecorded` speak of findings no two
requests worked on at once (and `FiledOnce` allows one item more for each search of the
tracker that did not show one), `ReportTracks` of a report whose last refresh was not
dropped, and `LinksFollow` of a move nobody disturbed: the code resolves those
races by losing, and the condition says exactly which ones. `LinksFollow` also
excepts the references in a frontmatter that section 5 lists, one by one
(`Ambiguous`). Before it was proved, it and the invariant of its proof were checked
over every subset of six paths (three of them called `x` in nested folders) and every
move of a document or of a folder, with one reference spelled in any of 36 ways (756
thousand states) and with two in one document (1.18 million); `engine` keeps a
smaller instance: a reference in the bodies of two documents, or one document with a
reference, or with one in its frontmatter and one in its body.

`DraftInv` and `NothingClobbered` are checked for one document over reloads,
hidden tabs and connections that break. From one document to another they do not
hold: `draft_recovery` shows the shortest way, section 5 the others. Liveness of
drafts holds over navigation too and is checked with two documents.

### Fairness

`Gitx!FairSpec` gives each actor strong fairness on its steps: a step that
needs `r.mu` is enabled again and again while others take the lock in turn,
and Go's mutexes hand the lock to a waiter that has starved for a millisecond.
Nothing is assumed of users, the remote or the janitor.

`BackgroundFairness` repeats the fairness of each component for the behaviours
that move it. *Runs*: weak fairness of the worker's goroutine and of the insert of
a request that holds the claim; a model call ends because the HTTP client gives
every exchange five minutes. *Sessions*: a request under way takes its next
statement, the ticker ticks and the sweep runs. *Importer*: a sync under way goes
on and the loop starts a sync when its interval is over; reading and snapshotting
are strongly fair, because a read that fails and a server that stops may come in
between again and again, but a source that always fails is never mirrored.
*Draft* (`DraftStep`): timers run out, and a save somebody waits for is answered
and its answer handled. Nothing is assumed of users, administrators, other
people's edits, keepalives, reloads or restarts.

## 4. Proofs

A theorem holds for every value of the constants, the runs' bounds included; the
runs check the same properties on the instances of section 3, and each inductive
invariant was checked there before it was proved. The assumptions on constants
say only that they have their kinds (protected branches are branches, users and
sessions are numbers, bounds are naturals, `None` is none of the things it stands
beside, an id can be listed at least once, a space has finitely many pages, a path
is a sequence of names, a sketch is no document, a failed call is tried at least
once, what a user types is not the text of a document as it was, patterns and
names are sequences of characters, replies are lists), with
five that the code or its configuration guarantees: the idle time after which a
token is swept has a positive floor (`SignInAssumption`), a clone becomes idle no
later than it is given up (`ClonesAssumption`), what was found before the
first run came from one recipe (`Finding!ConstantsAssumption`), recipes passed
`Validate` when they were loaded (`PipelineAssumption`), and names that are matched
hold no `*` (`GlobAssumption`; section 5 says what happens to one that does).
`SourceCache` needs only that a snapshot reads some number of objects: a source's branch
may be anywhere after any fetch, and between any two objects. `Gitx` takes nothing of
claims but that they name branches, protected ones included, nor of resets that they
succeed.

**GitxProofs.** `Spec => []IInv`, from which type correctness,
`WorktreeFollowsHead`, `MergeKeepsTarget` and `ProtectedMovesBySwap` follow.
None of them is inductive alone. That landing a merge keeps the target needs
that the commit about to land descends from the head that was read
(`MergeOnTop`), that the compare-and-swap compares against that head
(`JobOK`), and that refs name existing commits (`RefsOK`). That the index
follows the branch needs that the actor which moved the ref is still inside
its critical section (`LockOK`) and has that branch's reset before it, or that a crash
or a reset that failed is on record (`left`). That a protected
branch moves by a swap alone, be it the target of a merge, a branch that follows origin
or a claimed one that was merged, and not between a swap and its reset, is
`SyncInPlace`.

`UndisturbedKeepsCommits` and `UndisturbedKeepsDrafts` speak of a whole request,
from what it read first to the last ref it moves, and follow from a second
invariant above the first, `Spec => []KeepIInv`. A commit carries what its
ancestors carry (`HistoryOK`). A handler depends on the branches it will move
(`UsesOK`), so a write to one of them by anybody else sets `raced`; and if nobody
did, what it learnt is still so (`Current`): the branch is contained in the commit it
is about to be moved to, and its worktree has no change. While a merge holds `r.mu`
branches only gain commits (`GrownSince`): its parents are the shas it read, its
tree is of the branches by name, and it still carries all its parents carry. There is one
lemma per action for the invariant and one per action that moves a ref or resets
a worktree for the two properties; a crash only forgets requests.

**DriftRunProofs.** `Spec => []IInv`, from which type correctness,
`DoneIsExact` and `ResumeLosesNothing` follow, and `Spec => ImplementsLedger`.
The ledger's "one run at a time" rests on who may be where: a row runs only
while the worker has it and has not closed it (`RowsOK`), the worker has the
newest row and counts what the row counts (`WorkerOK`), and a request about to
insert has the registry and finds no worker (`ClaimOK`). That resuming loses
nothing needs that what a request remembers between its reads and its insert
still continues the run it picked up (`JobsOK`), which holds because scopes of
rows never change and settled units stay settled. The refinement has one lemma
per action that the ledger sees: `Create` opens, `Progress` advances, `Finish`
and `Crash` close; all others stutter.

**FindingProofs.** `Spec => []FindingIInv`, from which `FindingInv`,
`ReportTracks` and `FiledOnce` follow, and with it the action properties
`TriageSurvives`, `RunLogAccumulates` and `EditsSurvive`. Its parts are about
what a handler has read by the time it comes to each statement (`JobsOK`), who
is writing the report and at the end of what (`WritersOK`), and then one part
for each promise:

- The report follows the rows because whoever changed a row still owes a
  refresh, and rows that were read for one are those there are, or their reader
  is marked as overtaken (`ReportOK`).
- One item per marker needs that who found no marker still finds none when it
  creates the item, unless its search did not show the one there was, which is counted;
  two requests on one finding at once break that, and are on record (`AloneOK`,
  `FiledOK`).
- No document a finding led to is forgotten because a handler overwrites a link
  only when nothing that is there hangs on it, and writes back columns that are
  still what it read (`KeepsOK`).
- A run logs itself once because the log names its number only after its last
  report (`LogOK`).
- What a run retires is not what it stored: rows of this run belong to units it
  is done with, or to the one it is at (`StoredOK`), and a finding whose kind a
  recipe owns is the recipe's (`OwnersResolve`).

A step is first shown to serve one request and to leave the others alone
(`Serves`, `WriterStep`, `ActiveStep`), so that each part is proved against that
effect and not against every handler. The attempt to prove `ProducedRecorded`
failed at first: with three documents, one deleted between its creation and the
statement that records it was counted as produced. That was a mistake in the
model's record of it, which no instance small enough for the run had shown, and
`Produces` now counts what is there.

**AccessProofs.** `AccessSpec => []AccessIInv`, from which `AccessInv`,
`RevokedStaysOut` and `OneWorkspaceEach` follow. That an address keeps what an
admin gave needs the converse as well, that no grant or invite has a role
nobody gave (`RightsOK`): a sign-in may replace a newer grant by the older
invite, and what is left must still be something an admin meant. That a request
between `Lookup` and its grant names an account of that very address is
`LocalsOK`. Branches are one per user because an insert refuses a name that is taken and a
user who has one in the same statement (`ClaimsOK`).

**SignInProofs.** `SignInSpec => []SignInIInv`, from which `SignInInv` follows. The row and
the token of a session are two clocks, set by different statements of a request.
One counts down and the other up, so their sum tells how far apart they were set:
at most the time-to-live once both are set, a tick more while a request is between
its slide and its read and a tick fell in between (`TokenOK`). Hence the sweep,
whose idle time is longer than that, reaps no token of a live session.
`TabsOK` says what a request still knows of the row it looked up.

**ClonesProofs.** `ClonesSpec => []ClonesIInv`, from which `ClonesInv` and
`WorkOutlivesIdleness` follow. Who holds the manager's and the clone's mutex is
determined by where requests and the janitor are (`LocksOK`); a manager trusts a clone
only where there is one, or part of one, or somebody on the way to tell it otherwise
(`TrustOK`), for which a removal that ends half-way must not be taken for one that took
everything; a removal under way relies on what it looked at until it acts, and a save in
between is on record (`LooksOK`); and the stamp of the last use is never older than the
last write by more than the hour in which it is not renewed (`StampOK`, `HourOK`).

**DeploymentProofs**, the registry. `RegistrySpec => []RegistryIInv`, from which
`RegistryInv` and `ConfigFollowsYaml` follow. A start deletes the repository rows
the YAML brought and no longer names; that no project loses its row by this
needs that such a row, where it was no source, belongs to a project of the YAML,
which the same start deletes (`RowsOK`). A request is in several steps and
answers of the store may be old when it acts: one about to store a project has
its repository's row, one about to delete it knows that it is none of the
YAML's, and both stay true whatever others do in between (`CallsOK`).

**DeploymentProofs**, the importer. `ImporterSpec => []ImporterIInv`, from which
`ImporterInv` follows. A sync reads on from a position, not from a page. While no
page is deleted, pages only move to later positions (`LaterPositions`), so that
those before the position it has reached, and there all the time, are read
(`SyncOK`); and a batch that is not full had the last of them, which is counting
(`FullBatch`). The proof uses the library's facts about cardinalities.

**EngineProofs**, the assistant. `AssistantSpec => []AssistantIInv`, from which
`AssistantInv` and `EditsKept` follow. A provider refuses a transcript in which a
call has no answer, and a conversation is sent while it is being built, suspended
and resumed. The invariant says what it looks like in between (`Unfinished`): the
replies before the last have all their answers; the last has, in order, those
to its first calls, but for the one that was put to the user, whose answer is
appended when it comes, so that a resumed batch has its answers in another order.
Such a transcript is cut when it is handed to the client, and what is cut off is
whole (`OpenSuffix`). Two facts about sequences carry it: an answer keeps the
others (`AnswerFollows`), and a batch whose answers are a permutation of its calls
is whole (`AllAnswered`). A tool's write takes nobody's edit along because what it
writes contains what it read, and what it read is compared under the branch's mutex
(`WriteOK`).

**EngineProofs**, the coverage. `PipelineSpec => []CoverageIsReal`: whatever the
replies say, what is reported went through the check against the snapshot of
the run, after the stages and not before.

`PipelineSpec => []PipelineIInv`, from which `PipelineInv` follows. What the live
stages hold is what the checkpoint in memory holds, but for what comments may
change, and both copies of the checkpoint are well-formed up to where they reach
(`CheckpointOK`), so that a unit picked up from either goes on from the stage after.
An item is made under an area that is there, and areas before the current stage
neither move nor lose their names, so a position recorded in an item finds the
area again (`ItemOK`). What was found in the source when an item was made stays on
record, and its quote with it until a comment replaces it. The lemmas say what selecting by position returns
(`PickedIs`), and that comments reach only the fields they have. The attempt to
prove it showed that `GroupsAgree` had been stated too widely: a recipe that
makes findings has no areas, and a stage of it that fans out over another is not
filed under that one's names. It now speaks of extractions, which are what
`recipeGroups` groups.

**EngineProofs**, filters. `GlobSpec => []FiltersMean`, for every pattern and name.
What a pattern means is that the text can be cut into pieces its positions take
(`Fit`); what is left of it at a place is the same with what is left of both
(`Rest`). The invariant of the walk (`WalkOK`) is that what the pattern means is a
`Rest` from where the walk stands or, after a star, from where that star has got to
or anywhere further on. That the walk may forget all stars but the last is the lemma
`StarKeeps`: the later one can take whatever the earlier would have. The recursion over
segments is `Fit` again (`MatchOnto`, by induction on what is left of the pattern),
and `MatchMeans` gives the special forms, a pattern without a slash and one that ends
in a slash.

Induction on data is done without an induction theorem, whose operator argument
the provers cannot instantiate: a nonempty set of numbers has a least element
(`LeastNat`, from the library's well-foundedness of `<`), hence a set with 0 that goes on
to `n` contains all up to `n` (`UpFrom`).

**EngineProofs**, moves. `MovesSpec => TextsSurvive`, from `[]MovesIInv`. Two files
under a folder never move to one path (`MovesApart`, by the lengths and the rests
of their paths), nothing is moved onto a file that is there, and a document is
saved with other references but its own text, if it is still what was read.

`MovesSpec => []LinksFollow`: links lead where they led, in any repository, folder
structure and spelling. Its assumptions on the paths are what `safeRel` leaves: a
path has a segment, none of them is `.` or `..`, and there are finitely many paths.
The proof has three layers.

- Paths. What `relLink` writes resolves, in the same folder, to the document it was
  written for (`ResolvedRelative`): the steps up end in the part both paths share
  (`Shared`), the steps down append the rest one by one. The resolution is a
  recursive function, and the proof exhibits its values and goes up the segments
  with `UpFrom`.
- References. The pairs of a folder are applied in turn to what the earlier ones
  made. A reference that names none of them is left alone by all (`UnnamedStays`);
  one that names one and, once redirected, none of the others, ends as that one
  (`NamedFollows`). Whether it names one only, before and after, is what `Ambiguous`
  is about (`NamesOne`, `RestMoves`, `MovedFollows`).
- The handler. `LinksIInv` (`LinksInvariance`) says of each document where it is on its way (`Progress`):
  as it was when the move began, because it is still listed or because it names
  nothing that moved, or rewritten completely. It has one lemma per action, and an
  edit ends it, as it ends the promise. `DoneLinks` is what it says when the list
  is empty.

**EngineProofs**, the source cache. `SourceSpec => []SourceIsFresh`. What an entry holds
is from no earlier than the head it is filed under was first there (`KeptOK`): the head
is read first, and each object at that head or at one that followed. A request looks for
a head the source has had since it came, and what it reads itself is of that time too
(`ReaderOK`). When it finds an entry, either the source was at that head only once, and
then all that followed it is of that time, or the branch came back (`SinceOrBack`). Both
say something about a history of heads, and stay true when it grows (`HeadsGrow`).

**EngineProofs**, drafts. `DraftInv` and `NothingClobbered` are false of a tab that
navigates (section 5), and the proof says exactly how far they hold: as long as the
tab stays with its document (`Stays`), in a branch of any documents, and hence
always in a branch of one, which is what `engine` checks. Each request that is on its
way was made from the text it is to replace, or was put over it on purpose, and the
one that is waited for has the text of the save in flight (`WireOK`); a save in flight
was only typed into since (`SaveOK`), and once answered it is on the server, but for
what was put over it (`LandedOK`); the recovery copy is of the draft, and a draft
that a fetch may replace equals it (`CopyOK`).

**Only model-checked**: liveness (`RequestsFinish`, `RunsEnd`, `VaultDrains`,
`MirrorCatchesUp`, `DraftSettles`), which is out of the prover's reach. Every
invariant and every action property of a passing run is the statement of a theorem,
the two of the drafts for a tab that stays with its document.

## 5. Where the code and its comments part

With a run that shows it (`PROJECT.json`, "findings"):

- `gitx_workspace_loss`: opening the workspace discards a commit or a save that
  the same user's other tab made after the clean check.
- `pipeline_resume`: a run picked up after its annotate stage reports the
  requirements without the documents they were matched to.
- `moves_links`: in a folder moved to another depth, a reference written through
  the folder's own name is not rewritten.
- `draft_recovery`: the recovery copy's timer outlives a save and a navigation
  and stores the next document's text under the first one's key; opened again,
  the first document is overwritten with it.

Seen while modelling, in the models, without a run of their own:

- A finished run can be resumed twice: the check that it was not picked up yet
  precedes the claim. A resumed run takes the recipe as it is now and inherits
  the old one's checkpoint, where the comment promises the frozen one. A stage
  that tolerates errors tolerates the ceiling too, and its unit counts as done.
- `FFBranches` and `Pull` can move a branch away from a commit made between their
  ancestry check and the lock; a merge can overwrite a save made between its
  dirty check and the reset.
- The error of the `git reset --hard` after a branch moved is discarded
  (`gitx/merge.go:145`). It fails, for one, while another git process
  holds the index's lock, and the janitor's `git status` takes no branch mutex. The
  request reports success, the worktree and its index stay at the old commit, and the
  next commit of that branch reverts what the move brought, as after a crash at that
  point.
- A claim is stored before the branch it names is refused as protected
  (`api/workspace.go:46`, `gitx/workspace.go:25`), and after a merge a claimed source is
  fast-forwarded to the target without another check (`api/merge.go:160`). A protected
  branch that carries a claim thus moves when it was merged; `ProtectedMovesBySwap` says
  so, and that it moves to the merge's commit, by a swap, and by nothing else.
- A forge is searched for the marker on one page, a hundred, of the issues with the drift
  label (`forge/issues.go:73,91`), and Jira by its text search (`tracker/jira.go:131`),
  which shows an item once it is indexed. A retry after a lost answer that does not see
  the item creates a second one.
- `RemoveAll` of a clone can fail half-way. Both callers then return before they tell the
  manager, and a retry that finds nothing left to remove does not tell it either: the
  manager trusts what is left, or a clone that is gone, until a restart. A clone that was
  cut short with `git/HEAD` written is taken for a whole one, and where it is
  missing git has to clone into what is left.
- An annotation may write any field of an item but its index, its checked quote and its
  evidence included, and nothing is looked up again (`pipeline.go:375-378`), where
  `recipe.go:181-184` promises that what is kept was verified. `AskedIsChecked` says that
  the item came with evidence that was found, and quotes it unless it was annotated so.
- Read-only sources are fetched with a forced refspec (`gitx/repo.go:277`). A request that
  read the head and then the content, while the branch moved in between, files the
  later content under the earlier head; when the branch is forced back to it, requests
  are answered with the other head's content until the entry goes, where `speccy.go:440`
  promises a miss. And a snapshot asks for its listing and for each file by the branch's
  name, so that it may be a mixture of heads, with a file that was renamed under neither
  name. `SourceIsFresh` allows the first for branches that came back only, and the second
  among heads the source has had since the request came.
- `POST documents` overwrites the list of produced documents with one read
  minutes earlier; two overlapping requests to file one finding both create an
  item.
- A save into a clone between the reclaimer's check and the removal is lost
  although the removal was not forced (`lost = "race"` in `Clones`).
- A recovered draft keeps no sha. It is taken as made from the document as it is
  now and put over what others wrote since; `NothingClobbered` excepts it.
- `GroupsAgree` needs that a comment does not rename an area. The code writes every
  field of a comment but its index into the item; the model's comments have a quote,
  a document and a coverage, which is what the recipes ask for.
- The walk of a filter compares characters before it looks at `*`, so that a pattern
  `*.kt` does not match a file whose name begins with a star, although the comment
  says that `*` is any run; and `?` takes a byte where the comment says a character.
- `fmSpellings` says that a bare file name "cannot hit unrelated files". From `e/y`
  the name `x` is read as the document `x` at the root when there is one; moving
  `e/x` rewrites that reference all the same. Conversely a document moved to `x`
  takes over the references that meant `e/x`. A frontmatter reference spelled with
  a dot, `./x`, is read but never rewritten. And the editor takes `/x` as a path
  from the document's folder when the root has none, which the server does not
  (`Reads` is the server's). `LinksFollow` excepts the first three
  (`Ambiguous`, `Names`).
- In a folder's move each pair of paths is applied to what the earlier ones wrote, so
  that a reference in a frontmatter can be rewritten twice. With `e/a/c` and `e/a/d/c`,
  let `e/y` refer to `e/a/c` and move `e/a` to `a/d`: the reference becomes `a/d/c`, which
  in `e` is also a spelling of `e/a/d/c`, and the next pair makes it `a/d/d/c`, another
  document. The proof of `LinksFollow` failed here; `Ambiguous` excepts it.
- In the editor's navigation: a flush that finds a save in flight returns at once
  and the navigation proceeds; the late answer then gives the next document
  the first one's sha, so that its save meets a spurious conflict, or a keepalive
  sent on the way back is accepted with the wrong text; the keepalive of the old
  document goes to the new one's address, where the sha refuses it; a conflict is
  not reset, so that its banner and "keep mine" apply to the next document; and a
  "keep mine" that meets another conflict leaves the autosave stopped without a
  banner.

## 6. What is not modelled

- *Git layer*: read-only repositories, the generated OKF index files, two
  branches whose names map to one worktree directory, a worktree seen half
  checked out, the files a `git worktree remove` deletes one by one. Role
  checks precede the handlers and are taken as passed.
- *Alignment*: prompts and replies beyond the fields the engine reads, the
  grounding of a quote in a text, the activity log, statements of the store that
  fail other than the insert the handler checks, the YAML of a plan.
- *Draft*: carrying a draft to another branch, leaving the editor for another
  view, the rich-text editor's own debounce, a protected branch's 403, the
  pruning of week-old copies, two tabs of one user (to one tab another is
  somebody else who writes).
- *Access*: an account's address and name stay what they were, where each sign-in
  overwrites them (`store/store.go:136`), and roles in repositories added on demand
  (`api/roles.go:41`).
- *Registry, Clones*: the resolution of a repository that has a row and no project;
  renaming, the demo project, disk budgets and limits.
- *Importer*: the conversion of pages; importers that read each page once.
- *Moves*: finding references in Markdown and YAML; files that are no documents.
- *Assistant*: prompts, streaming, attachments. That a reply has calls only when tools
  were offered is taken from the provider, and with it the bound on rounds: the code runs
  whatever calls a reply has (`ai/tools.go:124-141`).
- *SourceCache*: sources that may be written, which are read in a worktree under the
  branch's mutex; a branch that a pruning fetch deletes, but for the failure to read it.
- Wizard, linker and link checks keep nothing between requests. Document formats
  (`mdfm`, `docmodel`, `okf`, `delta`, `timed`, `sketch`, `scaffold`) are functions
  from text to text whose errors are in the characters. Forges and trackers are
  remote; their answers are inputs. Events may be lost, and every reader refetches.
  Configuration is read once. Web views render.

## 7. What is left

Done: the git layer, runs, stages, findings, drafts, access, sessions, projects,
clones, importers, moves, filters, assistant; proofs of `Gitx` (both `Undisturbed...`
properties included), `DriftRun`, `Finding`, `Access`, `SignIn`, `Clones`, `Registry`,
`Importer`, `Assistant`, `Moves`, `SourceCache`, `Pipeline`, `Glob`, and of `Draft` for a
tab that stays with its document.

Left, in this order: a module of operators for validity intervals (`timed`); the
draft's branch carry; two registrations of one repository at once; a save beside
the janitor's removal of a worktree.
