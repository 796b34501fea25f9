-------------------------------- MODULE Gitx --------------------------------
(***************************************************************************)
(* One writable repository of the git layer (server/internal/gitx): a bare *)
(* clone, a lazily created worktree per branch, the mirror of origin's     *)
(* branches, and the requests and background jobs that move them.          *)
(*                                                                         *)
(* Granularity.  A handler holds r.mu (mu below) and the per-branch mutex  *)
(* for parts of its run only.  Every critical section of the per-branch    *)
(* mutex touches nothing but that branch's worktree and runs one git       *)
(* command or one file write that others can see, so it is one action;     *)
(* a section of r.mu that reads a ref and writes it later is split, since  *)
(* Commit moves refs without taking r.mu.  What an Actor remembers between *)
(* two of its steps (a Go local) is in job.                                *)
(*                                                                         *)
(* Commits are numbered in creation order; 0 is "no commit".  A tree maps  *)
(* each path to its content, None where there is no file.                  *)
(***************************************************************************)
EXTENDS Integers, FiniteSets

CONSTANTS
    Branch,      \* branch names in play
    Default,     \* the configured default branch
    Protected,   \* branches IsProtected refuses direct writes to
    Claimed,     \* branches with a row in workspace_branches (WorkspaceOwner)
    Path,        \* file paths
    Content,     \* file contents
    None,        \* no file at a path
    Actor,       \* concurrent requests and background jobs
    Serves,      \* the kinds of request each actor handles in this instance
    Faults,      \* what may go wrong in this instance
    MaxCommits   \* bound on commit objects

Free   == "free"     \* r.mu is not held
Nobody == "nobody"   \* a request that is a single action
Kinds  == {"workspace", "merge", "squash", "pull", "sync"}

ASSUME ConstantsAssumption ==
    /\ Default \in Branch
    /\ Protected \subseteq Branch
    /\ Claimed \subseteq Branch
    /\ None \notin Content
    /\ Free \notin Actor /\ Nobody \notin Actor
    /\ Serves \in [Actor -> SUBSET Kinds]
    /\ Faults \subseteq {"crash", "reset"}
    /\ MaxCommits \in Nat \ {0}

VARIABLES
    made,      \* number of commit objects in the object store
    tree,      \* [commit -> tree]
    anc,       \* [commit -> its ancestors by parent links, itself included]
    carries,   \* [commit -> commits whose changes it contains] (a squash
               \* merge contains its source without being its descendant)
    head,      \* refs/heads/<b>, 0 when the branch does not exist
    origin,    \* refs/remotes/origin/<b>
    upstream,  \* the branches of the remote repository itself
    wt,        \* is there a worktree for the branch
    work,      \* files in the worktree
    index,     \* the worktree's index
    base,      \* commit the index was last checked out, reset or committed at,
               \* or was found unchanged at when a ref moved away from it
    mu,        \* holder of r.mu
    pc, job,   \* where each actor is, and its locals
    raced,     \* another writer touched a branch this actor's job depends on
    left       \* branches whose worktree a crash or a failed reset left behind
               \* the ref (bookkeeping, like raced: nothing in the code reads it)

repoVars == <<made, tree, anc, carries>>
refVars  == <<head, origin, upstream>>
wtVars   == <<wt, work, index, base>>
jobVars  == <<mu, pc, job, raced>>
vars     == <<made, tree, anc, carries, head, origin, upstream,
              wt, work, index, base, mu, pc, job, raced, left>>

Commits == 1..MaxCommits
Ref     == 0..MaxCommits
Tree    == [Path -> Content \cup {None}]
NoFiles == [p \in Path |-> None]
NoTodo  == [b \in Branch |-> 0]

Steps == {"idle", "ws_base", "ws_create", "ws_count", "ws_dirty",
          "mg_status", "mg_check", "mg_lock", "mg_tree", "mg_swap",
          "ff_next", "ff_check", "ff_lock", "ff_swap", "sync"}
\* The steps at which an actor is inside a critical section of r.mu.
Locked == {"mg_tree", "mg_swap", "ff_swap", "sync"}

\* b: the branch a ResetBranchFF or Merge moves; src, squash: the merge's
\* source and strategy; old: the head read under r.mu; from: sourceSha;
\* to: the sha to move to; todo: the branches FFBranches still has to visit,
\* each with the head it listed; then: postMerge still has to reset src.
Job == [op : {"none", "workspace", "merge", "pull"}, b : Branch, src : Branch,
        squash : BOOLEAN, old : Ref, from : Ref, to : Ref,
        todo : [Branch -> Ref], then : BOOLEAN, uses : SUBSET Branch]

NoJob == [op |-> "none", b |-> Default, src |-> Default, squash |-> FALSE,
          old |-> 0, from |-> 0, to |-> 0, todo |-> NoTodo, then |-> FALSE,
          uses |-> {}]

TypeOK ==
    /\ made \in Commits
    /\ tree \in [Commits -> Tree]
    /\ anc \in [Commits -> SUBSET Commits]
    /\ carries \in [Commits -> SUBSET Commits]
    /\ head \in [Branch -> Ref]
    /\ origin \in [Branch -> Ref]
    /\ upstream \in [Branch -> Ref]
    /\ wt \in [Branch -> BOOLEAN]
    /\ work \in [Branch -> Tree]
    /\ index \in [Branch -> Tree]
    /\ base \in [Branch -> Ref]
    /\ mu \in Actor \cup {Free}
    /\ pc \in [Actor -> Steps]
    /\ job \in [Actor -> Job]
    /\ raced \in [Actor -> BOOLEAN]
    /\ left \subseteq Branch

\* A fresh clone: the default branch, at origin's head, and no worktree yet.
Init ==
    /\ made = 1
    /\ tree \in {[c \in Commits |-> IF c = 1 THEN t ELSE NoFiles] : t \in Tree}
    /\ anc = [c \in Commits |-> IF c = 1 THEN {1} ELSE {}]
    /\ carries = anc
    /\ head = [b \in Branch |-> IF b = Default THEN 1 ELSE 0]
    /\ origin = head
    /\ upstream = head
    /\ wt = [b \in Branch |-> FALSE]
    /\ work = [b \in Branch |-> NoFiles]
    /\ index = work
    /\ base = [b \in Branch |-> 0]
    /\ mu = Free
    /\ pc = [a \in Actor |-> "idle"]
    /\ job = [a \in Actor |-> NoJob]
    /\ raced = [a \in Actor |-> FALSE]
    /\ left = {}

-----------------------------------------------------------------------------
(* Helpers                                                                 *)

Exists(b) == head[b] # 0
Files(c) == IF c = 0 THEN NoFiles ELSE tree[c]

\* protectedErr: direct writes are refused on protected branches.
AnyWritable(b) == Exists(b)                                   \* mutant
Writable(b) == b \notin Protected

\* Status: the index against HEAD, the files against the index.
StagedOnly(b) == index[b] # tree[head[b]]                     \* mutant
Changed(b) == index[b] # tree[head[b]] \/ work[b] # index[b]

\* worktreeDirty: a branch without a worktree has nothing to lose.
Dirty(b) == wt[b] /\ Changed(b)

\* Worktree(b): the existing checkout, or one added at HEAD under r.mu.
Openable(b) == Exists(b) /\ (wt[b] \/ mu = Free)
WorkOf(b)   == IF wt[b] THEN work[b]  ELSE Files(head[b])
IndexOf(b)  == IF wt[b] THEN index[b] ELSE Files(head[b])
BaseOf(b)   == IF wt[b] THEN base[b]  ELSE head[b]

SetWorktree(b, files, idx, at) ==
    /\ wt' = [wt EXCEPT ![b] = TRUE]
    /\ work' = [work EXCEPT ![b] = files]
    /\ index' = [index EXCEPT ![b] = idx]
    /\ base' = [base EXCEPT ![b] = at]

\* git reset --hard: tracked files become those of c; an untracked file stays
\* unless c has a file at its path.
ResetFiles(b, c) ==
    [p \in Path |-> IF index[b][p] = None /\ tree[c][p] = None
                    THEN work[b][p] ELSE tree[c][p]]

\* Bookkeeping of every step: actor self (or Nobody) wrote the branches bs, so
\* a running job of somebody else that depends on one of them is overtaken.
Track(self, bs) ==
    raced' = [x \in Actor |->
                /\ pc'[x] # "idle"
                /\ raced[x] \/ (x # self /\ job[x].uses \cap bs # {})]

\* A new commit object with the given tree, ancestors and carried changes.
AddCommit(t, ancestors, carried) ==
    /\ made < MaxCommits
    /\ made' = made + 1
    /\ tree' = [tree EXCEPT ![made + 1] = t]
    /\ anc' = [anc EXCEPT ![made + 1] = ancestors \cup {made + 1}]
    /\ carries' = [carries EXCEPT ![made + 1] = carried \cup {made + 1}]

\* git merge-tree: the three-way merge of two commits, path by path.
MergeBase(x, y) ==
    CHOOSE c \in anc[x] \cap anc[y] : \A d \in anc[x] \cap anc[y] : d <= c
Conflicting(x, y) ==
    LET o == tree[MergeBase(x, y)] IN
    {p \in Path : /\ tree[x][p] # tree[y][p]
                  /\ tree[x][p] # o[p]
                  /\ tree[y][p] # o[p]}
MergedTree(x, y) ==
    LET o == tree[MergeBase(x, y)] IN
    [p \in Path |-> IF tree[x][p] = o[p] THEN tree[y][p] ELSE tree[x][p]]

-----------------------------------------------------------------------------
(* Requests that are one step: the file writes, Commit and the remote.     *)

\* The postlude of every single-step write to branch b's worktree.
FileWrite(b, files, idx) ==
    /\ Writable(b)
    /\ Openable(b)
    /\ SetWorktree(b, files, idx, BaseOf(b))
    /\ UNCHANGED <<repoVars, refVars, mu, pc, job, left>>
    /\ Track(Nobody, {b})

\* baseSha is the content the client loaded, None for a create; a stale one
\* is refused.
SaveFile(b, p, baseSha, v) ==
    /\ WorkOf(b)[p] = baseSha
    /\ v # baseSha
    /\ FileWrite(b, [WorkOf(b) EXCEPT ![p] = v], IndexOf(b))

DeleteFile(b, p) ==
    /\ WorkOf(b)[p] # None
    /\ FileWrite(b, [WorkOf(b) EXCEPT ![p] = None], IndexOf(b))

\* git mv carries the index entry along; an untracked file is just renamed.
MoveFile(b, p, q) ==
    /\ WorkOf(b)[p] # None
    /\ WorkOf(b)[q] = None
    /\ LET tracked == IndexOf(b)[p] # None IN
       FileWrite(b, [WorkOf(b) EXCEPT ![q] = WorkOf(b)[p], ![p] = None],
                 IF tracked
                 THEN [IndexOf(b) EXCEPT ![q] = IndexOf(b)[p], ![p] = None]
                 ELSE IndexOf(b))

\* Tracked paths are restored to HEAD, untracked drafts removed.
Discard(b, paths) ==
    LET restored(t) ==
          [p \in Path |-> IF p \in paths THEN tree[head[b]][p] ELSE t[p]]
    IN  FileWrite(b, restored(WorkOf(b)), restored(IndexOf(b)))

\* add -A <paths>, then commit the whole index on top of HEAD.  With nothing
\* staged git refuses and the request fails.
Commit(b, paths) ==
    LET staged == [p \in Path |->
                     IF p \in paths THEN WorkOf(b)[p] ELSE IndexOf(b)[p]]
    IN  /\ Writable(b)
        /\ Openable(b)
        /\ staged # tree[head[b]]
        /\ AddCommit(staged, anc[head[b]], carries[head[b]])
        /\ head' = [head EXCEPT ![b] = made + 1]
        /\ SetWorktree(b, WorkOf(b), staged, made + 1)
        /\ left' = left \ {b}
        /\ UNCHANGED <<origin, upstream, mu, pc, job>>
        /\ Track(Nobody, {b})

CreateBranch(b, from) ==
    /\ ~Exists(b) /\ Exists(from)
    /\ mu = Free
    /\ head' = [head EXCEPT ![b] = head[from]]
    /\ UNCHANGED <<repoVars, origin, upstream, wtVars, mu, pc, job, left>>
    /\ Track(Nobody, {b})

\* A push that is not a fast-forward is rejected by the remote.
Push(b) ==
    /\ Exists(b)
    /\ mu = Free
    /\ upstream[b] = 0 \/ upstream[b] \in anc[head[b]]
    /\ upstream' = [upstream EXCEPT ![b] = head[b]]
    /\ origin' = [origin EXCEPT ![b] = head[b]]
    /\ UNCHANGED <<repoVars, head, wtVars, jobVars, left>>

\* External: somebody lands a commit on a branch of the remote.
UpstreamCommit(b, p, v) ==
    /\ upstream[b] # 0
    /\ tree[upstream[b]][p] # v
    /\ AddCommit([tree[upstream[b]] EXCEPT ![p] = v],
                 anc[upstream[b]], carries[upstream[b]])
    /\ upstream' = [upstream EXCEPT ![b] = made + 1]
    /\ UNCHANGED <<head, origin, wtVars, jobVars, left>>

\* The hourly janitor evicts a clean idle worktree; git worktree remove
\* re-checks for changes itself.
EvictWorktree(b) ==
    /\ b # Default
    /\ wt[b] /\ ~Dirty(b)
    /\ mu = Free
    /\ wt' = [wt EXCEPT ![b] = FALSE]
    /\ work' = [work EXCEPT ![b] = NoFiles]
    /\ index' = [index EXCEPT ![b] = NoFiles]
    /\ base' = [base EXCEPT ![b] = 0]
    /\ left' = left \ {b}
    /\ UNCHANGED <<repoVars, refVars, jobVars>>

-----------------------------------------------------------------------------
(* Requests that take several steps.                                       *)

Start(a, step, j) ==
    /\ pc[a] = "idle"
    /\ pc' = [pc EXCEPT ![a] = step]
    /\ job' = [job EXCEPT ![a] = j]

\* Walk on to the next step, end the request, or end it with an error on a
\* path where the deferred unlock of r.mu runs.
Goto(a, step) == pc' = [pc EXCEPT ![a] = step]

Finish(a) ==
    /\ pc' = [pc EXCEPT ![a] = "idle"]
    /\ job' = [job EXCEPT ![a] = NoJob]

AbortHoldingLock(a) == UNCHANGED mu /\ Finish(a)              \* mutant
Abort(a) == mu' = Free /\ Finish(a)

\* Back to ResetBranchFF's caller: FFBranches goes on with its loop, the
\* other callers are done.
Return(a) ==
    IF job[a].op = "pull" /\ job[a].todo # NoTodo
    THEN Goto(a, "ff_next") /\ UNCHANGED job
    ELSE Finish(a)

\* A step that changes neither the object store, nor a ref, nor a worktree.
NoWrite(a) == UNCHANGED <<repoVars, refVars, wtVars, left>> /\ Track(a, {})

\* postWorkspace -> EnsureWorkspace(b): a protected branch is refused, but only
\* after the claim was stored; the base is read first of all.
StartWorkspace(a, b) ==
    /\ b \in Claimed
    /\ Writable(b)
    /\ Start(a, "ws_base",
             [NoJob EXCEPT !.op = "workspace", !.b = b, !.uses = {b, Default}])
    /\ UNCHANGED mu /\ NoWrite(a)

WsBase(a) ==
    /\ pc[a] = "ws_base"
    /\ job' = [job EXCEPT ![a].to = head[Default]]
    /\ Goto(a, IF Exists(job[a].b) THEN "ws_count" ELSE "ws_create")
    /\ UNCHANGED mu /\ NoWrite(a)

\* CreateBranch from the default branch; it fails when the branch appeared
\* meanwhile.
WsCreate(a) ==
    LET b == job[a].b IN
    /\ pc[a] = "ws_create"
    /\ mu = Free \/ Exists(b)
    /\ head' = IF Exists(b) THEN head ELSE [head EXCEPT ![b] = head[Default]]
    /\ Finish(a)
    /\ UNCHANGED <<mu, repoVars, origin, upstream, wtVars, left>>
    /\ Track(a, {b})

\* aheadBehindRefs: h lacks commits of d and has none of its own.
MerelyBehind(h, d) == ~(anc[d] \subseteq anc[h])               \* mutant
StrictlyBehind(h, d) == ~(anc[d] \subseteq anc[h]) /\ anc[h] \subseteq anc[d]

\* Only a branch strictly behind the default branch goes on; both refs are
\* read by one rev-list.
WsCount(a) ==
    /\ pc[a] = "ws_count"
    /\ IF StrictlyBehind(head[job[a].b], head[Default])
       THEN Goto(a, "ws_dirty") /\ UNCHANGED job
       ELSE Finish(a)
    /\ UNCHANGED mu /\ NoWrite(a)

WsDirty(a) ==
    /\ pc[a] = "ws_dirty"
    /\ IF Dirty(job[a].b) THEN Finish(a)
                          ELSE Goto(a, "ff_check") /\ UNCHANGED job
    /\ UNCHANGED mu /\ NoWrite(a)

\* ResetBranchFF(b, to): the dirty check comes before r.mu is taken ...
FfCheck(a) ==
    /\ pc[a] = "ff_check"
    /\ IF Dirty(job[a].b) THEN Return(a)
                          ELSE Goto(a, "ff_lock") /\ UNCHANGED job
    /\ UNCHANGED mu /\ NoWrite(a)

\* ... the current head is read under it ...
FfLock(a) ==
    LET b == job[a].b IN
    /\ pc[a] = "ff_lock"
    /\ mu = Free
    /\ IF head[b] = job[a].to
       THEN Return(a) /\ UNCHANGED mu
       ELSE /\ mu' = a
            /\ job' = [job EXCEPT ![a].old = head[b]]
            /\ Goto(a, "ff_swap")
    /\ NoWrite(a)

\* ... and update-ref compares against that head.
AlwaysCurrent(a) == Exists(job[a].b)                          \* mutant
StillCurrent(a) == head[job[a].b] = job[a].old

Swap(a) ==
    LET b == job[a].b IN
    /\ StillCurrent(a)
    /\ head' = [head EXCEPT ![b] = job[a].to]
    /\ pc' = [pc EXCEPT ![a] = "sync"]
    /\ job' = [job EXCEPT ![a].old = 0]
    /\ base' = IF wt[b] /\ ~Changed(b) THEN [base EXCEPT ![b] = head[b]] ELSE base
    /\ UNCHANGED <<mu, repoVars, origin, upstream, wt, work, index, left>>
    /\ Track(a, {b})

FfSwap(a) ==
    /\ pc[a] = "ff_swap"
    /\ \/ Swap(a)
       \/ /\ ~StillCurrent(a)
          /\ mu' = Free
          /\ Return(a)
          /\ NoWrite(a)

\* syncWorktree: reset --hard, which moves the branch as well.  Its error is
\* discarded: a reset that finds the index locked (by the janitor's git status,
\* which holds neither mutex) changes nothing, and the handler goes on.
LeaveWorktree(b, c) == UNCHANGED <<head, wtVars, left>>       \* mutant
SyncWorktree(b, c) ==
    \/ /\ wt[b]
       /\ head' = [head EXCEPT ![b] = c]
       /\ SetWorktree(b, ResetFiles(b, c), tree[c], c)
       /\ left' = left \ {b}
    \/ /\ wt[b] /\ "reset" \in Faults
       /\ left' = left \cup {b}
       /\ UNCHANGED <<head, wtVars>>
    \/ ~wt[b] /\ UNCHANGED <<head, wtVars, left>>

\* A merge then returns to postMerge, which resets a claimed source onto the
\* merge commit.
Sync(a) ==
    LET b == job[a].b  c == job[a].to IN
    /\ pc[a] = "sync"
    /\ mu' = Free
    /\ SyncWorktree(b, c)
    /\ IF job[a].then
       THEN /\ job' = [job EXCEPT ![a] =
                         [NoJob EXCEPT !.op = "merge", !.b = job[a].src,
                                       !.to = c, !.uses = job[a].uses]]
            /\ Goto(a, "ff_check")
       ELSE Return(a)
    /\ UNCHANGED <<repoVars, origin, upstream>>
    /\ Track(a, {b})

-----------------------------------------------------------------------------
(* postMerge -> Merge                                                      *)

StartMerge(a, target, source, squash) ==
    /\ source # target
    /\ Exists(source) /\ Exists(target)
    /\ Start(a, "mg_status",
             [NoJob EXCEPT !.op = "merge", !.b = target, !.src = source,
                           !.squash = squash, !.then = source \in Claimed,
                           !.uses = {target, source}])
    /\ UNCHANGED mu /\ NoWrite(a)

\* Status(source), which opens the source's worktree, must be clean.
MgStatus(a) ==
    LET s == job[a].src IN
    /\ pc[a] = "mg_status"
    /\ Openable(s)
    /\ SetWorktree(s, WorkOf(s), IndexOf(s), BaseOf(s))
    /\ IF Dirty(s) THEN Finish(a) ELSE Goto(a, "mg_check") /\ UNCHANGED job
    /\ UNCHANGED <<mu, repoVars, refVars, left>>
    /\ Track(a, {})

MgCheck(a) ==
    /\ pc[a] = "mg_check"
    /\ IF Dirty(job[a].b) THEN Finish(a)
                          ELSE Goto(a, "mg_lock") /\ UNCHANGED job
    /\ UNCHANGED mu /\ NoWrite(a)

MgLock(a) ==
    /\ pc[a] = "mg_lock"
    /\ mu = Free
    /\ mu' = a
    /\ job' = [job EXCEPT ![a].old = head[job[a].b],
                          ![a].from = head[job[a].src]]
    /\ Goto(a, "mg_tree")
    /\ NoWrite(a)

\* merge-tree reads both branches by name, the parents are the shas read
\* before it.
MgTree(a) ==
    LET t == head[job[a].b]  s == head[job[a].src]
        old == job[a].old    from == job[a].from
    IN  /\ pc[a] = "mg_tree"
        /\ \/ /\ Conflicting(t, s) # {}
              /\ Abort(a)
              /\ UNCHANGED repoVars
           \/ /\ made = MaxCommits   \* commit-tree fails: the store is full
              /\ Abort(a)
              /\ UNCHANGED repoVars
           \/ /\ Conflicting(t, s) = {}
              /\ AddCommit(MergedTree(t, s),
                           IF job[a].squash THEN anc[old]
                                            ELSE anc[old] \cup anc[from],
                           carries[t] \cup carries[s])
              /\ job' = [job EXCEPT ![a].to = made + 1,
                                    ![a].from = 0, ![a].squash = FALSE]
              /\ Goto(a, "mg_swap")
              /\ UNCHANGED mu
        /\ UNCHANGED <<refVars, wtVars, left>>
        /\ Track(a, {})

MgSwap(a) ==
    /\ pc[a] = "mg_swap"
    /\ \/ Swap(a)
       \/ /\ ~StillCurrent(a)
          /\ Abort(a)
          /\ NoWrite(a)

-----------------------------------------------------------------------------
(* Fetch, then follow the remote: Pull for one branch, FFBranches for all. *)

\* Fetch runs wholly under r.mu; the heads are listed right after it.
StartPull(a, bs) ==
    /\ mu = Free
    /\ origin' = upstream
    /\ Start(a, "ff_next",
             [NoJob EXCEPT !.op = "pull", !.uses = bs,
                !.todo = [b \in Branch |-> IF b \in bs THEN head[b] ELSE 0]])
    /\ UNCHANGED <<mu, repoVars, head, upstream, wtVars, left>>
    /\ Track(a, {})

\* merge-base --is-ancestor: cur is a proper ancestor of the remote head.
Differs(cur, remote) == remote \notin {0, cur}                 \* mutant
FastForwards(cur, remote) == remote \notin {0, cur} /\ cur \in anc[remote]

FfNext(a, b) ==
    LET cur == job[a].todo[b]
        rest == [job[a].todo EXCEPT ![b] = 0]
        follow == FastForwards(cur, origin[b])
    IN  /\ pc[a] = "ff_next"
        /\ cur # 0
        /\ \/ /\ follow
              /\ job' = [job EXCEPT ![a].todo = rest, ![a].b = b,
                                    ![a].to = origin[b]]
              /\ Goto(a, "ff_check")
           \/ /\ ~follow /\ rest # NoTodo
              /\ job' = [job EXCEPT ![a].todo = rest]
              /\ UNCHANGED pc
           \/ /\ ~follow /\ rest = NoTodo
              /\ Finish(a)
        /\ UNCHANGED mu /\ NoWrite(a)

\* The process dies: every request is gone, the locks with it; the disk stays.
Crash ==
    /\ "crash" \in Faults
    /\ left' = left \cup {job[a].b : a \in {x \in Actor : pc[x] = "sync"}}
    /\ mu' = Free
    /\ pc' = [a \in Actor |-> "idle"]
    /\ job' = [a \in Actor |-> NoJob]
    /\ UNCHANGED <<repoVars, refVars, wtVars>>
    /\ Track(Nobody, {})

-----------------------------------------------------------------------------
\* A step of the server on behalf of actor a's request or job.
Step(a) ==
    \/ WsBase(a) \/ WsCreate(a) \/ WsCount(a) \/ WsDirty(a)
    \/ FfCheck(a) \/ FfLock(a) \/ FfSwap(a) \/ Sync(a)
    \/ MgStatus(a) \/ MgCheck(a) \/ MgLock(a) \/ MgTree(a) \/ MgSwap(a)
    \/ \E b \in Branch : FfNext(a, b)

\* A request or a tick of the sync loop arrives.
Begin(a) ==
    \/ /\ "workspace" \in Serves[a]
       /\ \E b \in Branch : StartWorkspace(a, b)
    \/ \E strategy \in {"merge", "squash"} \cap Serves[a], t, s \in Branch :
          StartMerge(a, t, s, strategy = "squash")
    \/ /\ "pull" \in Serves[a]
       /\ \E b \in Branch : Exists(b) /\ StartPull(a, {b})
    \/ /\ "sync" \in Serves[a]
       /\ StartPull(a, Branch)

\* What users do to their drafts.
UserWrite(b) ==
    \/ \E p \in Path, s \in Content \cup {None}, v \in Content :
          SaveFile(b, p, s, v)
    \/ \E p \in Path : DeleteFile(b, p)
    \/ \E p, q \in Path : MoveFile(b, p, q)
    \/ \E paths \in (SUBSET Path) \ {{}} : Discard(b, paths) \/ Commit(b, paths)
    \/ \E from \in Branch : CreateBranch(b, from)

Outside(b) ==
    \/ \E p \in Path, v \in Content : UpstreamCommit(b, p, v)
    \/ Push(b)
    \/ EvictWorktree(b)

Next ==
    \/ \E a \in Actor : Begin(a) \/ Step(a)
    \/ \E b \in Branch : UserWrite(b) \/ Outside(b)
    \/ Crash

Spec == Init /\ [][Next]_vars

\* Go's mutexes are fair (a waiter starves for at most a millisecond before
\* it is handed the lock), so a step that waits for r.mu again and again is
\* eventually taken; the other steps wait for nothing.  Users and the remote
\* need never act.
FairSpec == Spec /\ \A a \in Actor : SF_vars(Step(a))

-----------------------------------------------------------------------------
(* Properties                                                              *)

\* Actor a takes a step of its job (nobody else writes pc[a] or job[a]).
Moved(a) == pc[a] # "idle" /\ (pc'[a] # pc[a] \/ job'[a] # job[a])

\* What users can still get at: the commits whose changes are in a branch.
Reachable == (UNION {carries[head[b]] : b \in {x \in Branch : Exists(x)}})
             \cup (UNION {carries[origin[b]] : b \in {x \in Branch : origin[x] # 0}})

\* Uncommitted work: the file is not what the worktree was checked out at.
Draft(b, p) == wt[b] /\ work[b][p] # tree[base[b]][p]
KeepsDrafts == \A b \in Branch, p \in Path :
                  Draft(b, p) => work'[b][p] = work[b][p]
KeepsCommits == Reachable \subseteq Reachable'

\* A worktree's index is built on the branch's head except between a move of
\* the ref and the reset that follows it, so a commit does not silently revert
\* what a merge or a fast-forward brought in.  The exceptions are exactly the
\* branches a crash at that point or a failed reset left behind, until their
\* worktree is reset, committed or removed.
WorktreeFollowsHead ==
    \A b \in Branch :
        wt[b] /\ base[b] # head[b] =>
            \/ b \in left
            \/ \E a \in Actor : pc[a] = "sync" /\ job[a].b = b

\* An EnsureWorkspace, merge, pull or background fast-forward whose branches
\* nobody else wrote while it ran discards no commit: every commit that some
\* branch contained is still contained in one.
UndisturbedKeepsCommits ==
    [][\A a \in Actor : Moved(a) /\ ~raced[a] => KeepsCommits]_vars

\* ... and overwrites no uncommitted file.
UndisturbedKeepsDrafts ==
    [][\A a \in Actor : Moved(a) /\ ~raced[a] => KeepsDrafts]_vars

\* Landing a merge never drops a commit of the target, whoever commits to it
\* meanwhile: the compare-and-swap covers the whole time since the target was
\* read.
MergeKeepsTarget ==
    [][\A a \in Actor :
         pc[a] = "mg_swap" /\ pc'[a] = "sync" =>
            LET b == job[a].b IN anc[head[b]] \subseteq anc'[head'[b]]]_vars

\* A protected branch moves by landing a merge or by following origin, never
\* by a direct commit, by opening a workspace or by the reset that syncs its
\* worktree.  One that carries a workspace claim also moves onto the merge
\* commit when it was the source of a merge: postMerge asks for the claim, not
\* for protection.
ProtectedMovesBySwap ==
    [][\A b \in Protected :
         Exists(b) /\ head'[b] # head[b] =>
            \E a \in Actor :
                /\ job[a].b = b /\ mu = a
                /\ \/ pc[a] = "mg_swap"
                   \/ pc[a] = "ff_swap" /\ job[a].op = "pull"
                   \/ pc[a] = "ff_swap" /\ job[a].op = "merge" /\ b \in Claimed
                /\ head'[b] = job[a].to]_vars

\* Every request and every pass of the sync loop ends, r.mu released.
RequestsFinish ==
    \A a \in Actor : pc[a] # "idle" ~> pc[a] = "idle"

-----------------------------------------------------------------------------
(* The inductive invariant behind the theorems of GitxProofs.              *)

\* Refs name existing commits, the default branch exists, and only an
\* existing branch has a worktree.
RefsOK ==
    /\ Exists(Default)
    /\ \A b \in Branch :
         /\ head[b] <= made /\ origin[b] <= made /\ upstream[b] <= made
         /\ wt[b] => Exists(b)

\* r.mu is held exactly by the actor inside a critical section.
LockOK == \A a \in Actor : pc[a] \in Locked <=> mu = a

\* What a job's locals say at each step.
JobOK(a) ==
    LET j == job[a]  at == pc[a] IN
    /\ at = "idle" <=> j.op = "none"
    /\ at \in {"mg_status", "mg_check", "mg_lock", "mg_tree", "mg_swap"} =>
         /\ j.op = "merge" /\ Exists(j.b) /\ Exists(j.src)
         /\ j.then => j.src \in Claimed
    /\ at \in {"mg_tree", "mg_swap"} =>
         /\ j.old \in 1..made
         /\ at = "mg_tree" => j.from \in 1..made
    /\ at \in {"ws_count", "ws_dirty", "ff_check", "ff_lock", "ff_swap",
               "mg_swap", "sync"} => j.to \in 1..made /\ Exists(j.b)
    /\ at \in {"ws_base", "ws_create", "ws_count", "ws_dirty"} =>
         j.op = "workspace"
    /\ at = "ff_next" => j.op = "pull"
    /\ j.then => /\ j.op = "merge" /\ j.src \in Claimed /\ Exists(j.src)
    /\ j.op = "workspace" => j.b \in Claimed \ Protected
    /\ at \in {"ff_check", "ff_lock", "ff_swap"} /\ j.op # "pull" =>
         j.b \in Claimed /\ ~j.then
    /\ \A b \in Branch : j.todo[b] # 0 => Exists(b)

\* The commit a merge is about to land descends from the target it read.
MergeOnTop ==
    \A a \in Actor : pc[a] = "mg_swap" =>
        anc[job[a].old] \subseteq anc[job[a].to]

\* Nothing moves a protected branch between a swap and its reset.
SyncInPlace ==
    \A a \in Actor : pc[a] = "sync" /\ job[a].b \in Protected =>
        head[job[a].b] = job[a].to

\* The inductive invariant: types, refs, locks, what the handlers' locals name,
\* and that what is about to land is built on what it replaces.
IInv ==
    /\ TypeOK
    /\ RefsOK
    /\ LockOK
    /\ \A a \in Actor : JobOK(a)
    /\ MergeOnTop
    /\ SyncInPlace
    /\ WorktreeFollowsHead

\* A commit carries what each of its ancestors carries.
HistoryOK ==
    \A d \in 1..made :
        /\ d \in anc[d] /\ anc[d] \subseteq 1..made
        /\ \A c \in anc[d] : carries[c] \subseteq carries[d]

BasesOK == \A b \in Branch : wt[b] => base[b] \in 1..made

\* Nothing uncommitted in b's worktree, which is at commit c.
CleanAt(b, c) == wt[b] => work[b] = index[b] /\ index[b] = tree[c]

\* A job depends on the branch it moves, on those it still has to, and on the
\* branch it takes the commits from; it does not come back to one it has moved.
UsesOK(a) ==
    LET j == job[a]  at == pc[a] IN
    /\ at # "ff_next" => j.b \in j.uses /\ j.todo[j.b] = 0
    /\ j.op = "workspace" => Default \in j.uses
    /\ j.then \/ at \in {"mg_status", "mg_check", "mg_lock", "mg_tree"} =>
         j.src \in j.uses
    /\ \A b \in Branch : j.todo[b] # 0 => b \in j.uses

\* What an undisturbed job learnt on its way still holds.
Current(a) ==
    LET j == job[a]  at == pc[a] IN
    /\ at = "ws_count" => j.to = head[Default]
    /\ at \in {"ws_dirty", "ff_check", "ff_lock", "ff_swap", "mg_swap", "sync"} =>
         carries[head[j.b]] \subseteq carries[j.to]
    /\ at \in {"mg_swap", "sync"} /\ j.then =>
         carries[head[j.src]] \subseteq carries[j.to]
    /\ \A b \in Branch : j.todo[b] # 0 => j.todo[b] = head[b]
    /\ at \in {"ff_lock", "ff_swap", "mg_lock", "mg_tree", "mg_swap"} =>
         CleanAt(j.b, head[j.b])
    /\ at = "sync" => CleanAt(j.b, base[j.b])

\* While a merge holds r.mu its branches only gain commits.
GrownSince(a) ==
    LET j == job[a] IN
    pc[a] = "mg_tree" =>
        /\ carries[j.old] \subseteq carries[head[j.b]]
        /\ carries[j.from] \subseteq carries[head[j.src]]

KeepsOK(a) ==
    /\ pc[a] # "idle" => UsesOK(a) /\ (raced[a] \/ Current(a))
    /\ GrownSince(a)

\* The inductive invariant of the two Undisturbed... properties.
KeepIInv ==
    /\ IInv
    /\ HistoryOK
    /\ BasesOK
    /\ \A a \in Actor : KeepsOK(a)

-----------------------------------------------------------------------------
(* What the comments of the code say of it, and the code does not do.      *)

\* EnsureWorkspace "never discards commits or dirty work".
EnsureWorkspaceKeepsWork ==
    [][\A a \in Actor : Moved(a) /\ job[a].op = "workspace"
                         => KeepsCommits /\ KeepsDrafts]_vars
=============================================================================
