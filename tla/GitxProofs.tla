----------------------------- MODULE GitxProofs -----------------------------
(***************************************************************************)
(* Safety of the git layer (Gitx), for every set of branches, paths,       *)
(* contents and actors and every bound: IInv is inductive, and the type    *)
(* invariant, WorktreeFollowsHead, MergeKeepsTarget and                    *)
(* ProtectedMovesBySwap follow from it.  KeepIInv is inductive too, and    *)
(* the two Undisturbed... properties follow from that.                     *)
(*                                                                         *)
(* There is one lemma per action and invariant, with one step per conjunct *)
(* of IInv.  The first section has what most of them share, and so has the *)
(* section that begins the second half.                                    *)
(***************************************************************************)
EXTENDS Gitx, TLAPS

USE ConstantsAssumption

-----------------------------------------------------------------------------
(* Shared lemmas                                                           *)

\* Track writes Booleans into raced and nothing else.
LEMMA TrackType ==
    ASSUME TypeOK, NEW self, NEW bs, Track(self, bs)
    PROVE  raced' \in [Actor -> BOOLEAN]
  BY DEF Track

\* The locals of an idle actor have their type.
LEMMA NoJobType == NoJob \in Job /\ NoTodo \in [Branch -> Ref]
  <1>1. 0 \in Ref
    BY DEF Ref
  <1>2. NoTodo \in [Branch -> Ref]
    BY <1>1 DEF NoTodo
  <1> QED
    BY <1>1, <1>2 DEF NoJob, Job

LEMMA SetTo ==
    ASSUME NEW j \in Job, NEW r \in Ref
    PROVE  [j EXCEPT !.to = r] \in Job
  BY DEF Job

LEMMA SetOld ==
    ASSUME NEW j \in Job, NEW r \in Ref
    PROVE  [j EXCEPT !.old = r] \in Job
  BY DEF Job

LEMMA NoFilesType == NoFiles \in Tree
  BY DEF NoFiles, Tree

\* What JobOK says of an actor that does not move stays true.
LEMMA OthersJobOK ==
    ASSUME TypeOK, TypeOK', NEW c \in Actor, JobOK(c),
           pc'[c] = pc[c], job'[c] = job[c], made <= made',
           \A b \in Branch : Exists(b) => Exists(b)'
    PROVE  JobOK(c)'
  <1>1. job[c].b \in Branch /\ job[c].src \in Branch
    BY DEF TypeOK, Job
  <1>2. made \in Nat /\ made' \in Nat
    BY DEF TypeOK, Commits
  <1>3. job[c].old \in 1..made => job'[c].old \in 1..made'
    BY <1>2
  <1>4. job[c].from \in 1..made => job'[c].from \in 1..made'
    BY <1>2
  <1>5. job[c].to \in 1..made => job'[c].to \in 1..made'
    BY <1>2
  <1> QED
    BY <1>1, <1>3, <1>4, <1>5 DEF JobOK

\* A request that ends leaves its actor idle, its locals forgotten.
LEMMA FinishOK ==
    ASSUME TypeOK, NEW a \in Actor, Finish(a)
    PROVE  /\ pc' \in [Actor -> Steps] /\ pc'[a] = "idle"
           /\ job' \in [Actor -> Job]
           /\ JobOK(a)'
           /\ \A c \in Actor \ {a} : pc'[c] = pc[c] /\ job'[c] = job[c]
  <1>1. pc' \in [Actor -> Steps] /\ job' \in [Actor -> Job]
    BY NoJobType DEF Finish, TypeOK, Steps
  <1>2. pc'[a] = "idle" /\ job'[a] = NoJob
    BY DEF Finish, TypeOK
  <1>3. JobOK(a)'
    BY <1>2 DEF JobOK, NoJob, NoTodo
  <1> QED
    BY <1>1, <1>2, <1>3 DEF Finish, TypeOK

\* Back from a fast-forward the actor is idle, or FFBranches at its loop.
LEMMA ReturnOK ==
    ASSUME TypeOK, NEW a \in Actor, JobOK(a), Return(a), pc[a] # "idle",
           ~job[a].then,
           \A b \in Branch : Exists(b) => Exists(b)'
    PROVE  /\ pc' \in [Actor -> Steps] /\ pc'[a] \in {"idle", "ff_next"}
           /\ job' \in [Actor -> Job]
           /\ JobOK(a)'
           /\ \A c \in Actor \ {a} : pc'[c] = pc[c] /\ job'[c] = job[c]
  <1>1. CASE job[a].op = "pull" /\ job[a].todo # NoTodo
    <2>1. pc' = [pc EXCEPT ![a] = "ff_next"] /\ job' = job
      BY <1>1 DEF Return, Goto
    <2>2. pc' \in [Actor -> Steps] /\ pc'[a] = "ff_next"
      BY <2>1 DEF TypeOK, Steps
    <2>3. JobOK(a)'
      BY <1>1, <2>1, <2>2 DEF JobOK
    <2> QED
      BY <2>1, <2>2, <2>3 DEF TypeOK
  <1>2. CASE ~(job[a].op = "pull" /\ job[a].todo # NoTodo)
    BY <1>2, FinishOK DEF Return
  <1> QED
    BY <1>1, <1>2

-----------------------------------------------------------------------------
(* The initial states                                                      *)

LEMMA InitIInv == Init => IInv
  <1> SUFFICES ASSUME Init PROVE IInv
    OBVIOUS
  <1>1. TypeOK
    <2>1. 1 \in Commits /\ 1 \in Ref /\ 0 \in Ref
      BY DEF Commits, Ref
    <2>2. made \in Commits /\ anc \in [Commits -> SUBSET Commits]
                           /\ carries \in [Commits -> SUBSET Commits]
      BY <2>1 DEF Init
    <2>3. tree \in [Commits -> Tree]
      BY NoFilesType DEF Init
    <2>4. /\ head \in [Branch -> Ref] /\ origin \in [Branch -> Ref]
          /\ upstream \in [Branch -> Ref] /\ base \in [Branch -> Ref]
      BY <2>1 DEF Init
    <2>5. /\ wt \in [Branch -> BOOLEAN] /\ work \in [Branch -> Tree]
          /\ index \in [Branch -> Tree]
      BY NoFilesType DEF Init
    <2>6. /\ mu \in Actor \cup {Free} /\ pc \in [Actor -> Steps]
          /\ job \in [Actor -> Job] /\ raced \in [Actor -> BOOLEAN]
          /\ left \in SUBSET Branch
      BY NoJobType DEF Init, Steps
    <2> QED
      BY <2>2, <2>3, <2>4, <2>5, <2>6 DEF TypeOK
  <1>2. RefsOK
    BY DEF Init, RefsOK, Exists
  <1>3. LockOK
    BY DEF Init, LockOK, Locked
  <1>4. \A a \in Actor : JobOK(a)
    BY DEF Init, JobOK, NoJob, NoTodo
  <1>5. MergeOnTop /\ SyncInPlace /\ WorktreeFollowsHead
    BY DEF Init, MergeOnTop, SyncInPlace, WorktreeFollowsHead
  <1> QED
    BY <1>1, <1>2, <1>3, <1>4, <1>5 DEF IInv

-----------------------------------------------------------------------------
(* Requests that are one step                                              *)

\* A write to the files of a worktree moves no ref and no request.
LEMMA FileWriteStep ==
    ASSUME IInv, NEW b \in Branch, NEW files \in Tree, NEW idx \in Tree,
           FileWrite(b, files, idx)
    PROVE  IInv'
  <1> USE DEF IInv, FileWrite, SetWorktree, repoVars, refVars
  <1>1. TypeOK'
    <2>1. raced' \in [Actor -> BOOLEAN]
      BY TrackType
    <2>2. BaseOf(b) \in Ref
      BY DEF BaseOf, TypeOK
    <2> QED
      BY <2>1, <2>2 DEF TypeOK
  <1>2. RefsOK'
    BY DEF RefsOK, Exists, Openable, TypeOK
  <1>3. LockOK'
    BY DEF LockOK
  <1>4. \A a \in Actor : JobOK(a)'
    BY DEF JobOK, Exists
  <1>5. MergeOnTop' /\ SyncInPlace'
    BY DEF MergeOnTop, SyncInPlace
  <1>6. WorktreeFollowsHead'
    BY DEF WorktreeFollowsHead, BaseOf, TypeOK
  <1> QED
    BY <1>1, <1>2, <1>3, <1>4, <1>5, <1>6

\* What a write is given as the new files and index are trees.
LEMMA TreesOf ==
    ASSUME IInv, NEW b \in Branch, Exists(b)
    PROVE  /\ WorkOf(b) \in Tree /\ IndexOf(b) \in Tree
           /\ head[b] \in Commits /\ tree[head[b]] \in Tree
           /\ BaseOf(b) \in Ref
  <1>1. head[b] \in Commits
    BY DEF IInv, TypeOK, Exists, Ref, Commits
  <1>2. tree[head[b]] \in Tree
    BY <1>1 DEF IInv, TypeOK
  <1> QED
    BY <1>1, <1>2 DEF IInv, TypeOK, WorkOf, IndexOf, BaseOf, Files, Exists

LEMMA UserFileStep ==
    ASSUME IInv, NEW b \in Branch,
           \/ \E p \in Path, s \in Content \cup {None}, v \in Content :
                 SaveFile(b, p, s, v)
           \/ \E p \in Path : DeleteFile(b, p)
           \/ \E p, q \in Path : MoveFile(b, p, q)
           \/ \E paths \in (SUBSET Path) \ {{}} : Discard(b, paths)
    PROVE  IInv'
  <1>1. CASE \E p \in Path, s \in Content \cup {None}, v \in Content :
                SaveFile(b, p, s, v)
    <2> PICK p \in Path, s \in Content \cup {None}, v \in Content :
               SaveFile(b, p, s, v)
      BY <1>1
    <2>1. Exists(b)
      BY DEF SaveFile, FileWrite, Openable
    <2>2. [WorkOf(b) EXCEPT ![p] = v] \in Tree
      BY <2>1, TreesOf DEF Tree
    <2> QED
      BY <2>1, <2>2, TreesOf, FileWriteStep DEF SaveFile
  <1>2. CASE \E p \in Path : DeleteFile(b, p)
    <2> PICK p \in Path : DeleteFile(b, p)
      BY <1>2
    <2>1. Exists(b)
      BY DEF DeleteFile, FileWrite, Openable
    <2>2. [WorkOf(b) EXCEPT ![p] = None] \in Tree
      BY <2>1, TreesOf DEF Tree
    <2> QED
      BY <2>1, <2>2, TreesOf, FileWriteStep DEF DeleteFile
  <1>3. CASE \E p, q \in Path : MoveFile(b, p, q)
    <2> PICK p \in Path, q \in Path : MoveFile(b, p, q)
      BY <1>3
    <2>1. Exists(b)
      BY DEF MoveFile, FileWrite, Openable
    <2>2. WorkOf(b)[p] \in Content \cup {None} /\ IndexOf(b)[p] \in Content \cup {None}
      BY <2>1, TreesOf DEF Tree
    <2>3. [WorkOf(b) EXCEPT ![q] = WorkOf(b)[p], ![p] = None] \in Tree
      BY <2>1, <2>2, TreesOf DEF Tree
    <2>4. [IndexOf(b) EXCEPT ![q] = IndexOf(b)[p], ![p] = None] \in Tree
      BY <2>1, <2>2, TreesOf DEF Tree
    <2> QED
      BY <2>1, <2>3, <2>4, TreesOf, FileWriteStep DEF MoveFile
  <1>4. CASE \E paths \in (SUBSET Path) \ {{}} : Discard(b, paths)
    <2> PICK paths \in (SUBSET Path) \ {{}} : Discard(b, paths)
      BY <1>4
    <2> DEFINE restored(t) == [p \in Path |-> IF p \in paths
                                              THEN tree[head[b]][p] ELSE t[p]]
    <2>1. Exists(b)
      BY DEF Discard, FileWrite, Openable
    <2>2. \A t \in Tree : restored(t) \in Tree
      BY <2>1, TreesOf DEF Tree
    <2>3. restored(WorkOf(b)) \in Tree /\ restored(IndexOf(b)) \in Tree
      BY <2>1, <2>2, TreesOf
    <2>4. FileWrite(b, restored(WorkOf(b)), restored(IndexOf(b)))
      BY DEF Discard
    <2> HIDE DEF restored
    <2> QED
      BY <2>3, <2>4, FileWriteStep
  <1> QED
    BY <1>1, <1>2, <1>3, <1>4

\* A new commit object leaves the older ones as they are.
LEMMA AddCommitOK ==
    ASSUME TypeOK, NEW t \in Tree, NEW ancestors \in SUBSET Commits,
           NEW carried \in SUBSET Commits, AddCommit(t, ancestors, carried)
    PROVE  /\ made' \in Commits /\ made' = made + 1 /\ made + 1 \in Ref
           /\ tree' \in [Commits -> Tree]
           /\ anc' \in [Commits -> SUBSET Commits]
           /\ carries' \in [Commits -> SUBSET Commits]
           /\ \A c \in 1..made : anc'[c] = anc[c]
           /\ anc'[made + 1] = ancestors \cup {made + 1}
  <1>1. made + 1 \in Commits /\ made + 1 \in Ref
    BY DEF AddCommit, TypeOK, Commits, Ref
  <1>2. ancestors \cup {made + 1} \in SUBSET Commits
        /\ carried \cup {made + 1} \in SUBSET Commits
    BY <1>1
  <1>3. /\ tree' \in [Commits -> Tree]
        /\ anc' \in [Commits -> SUBSET Commits]
        /\ carries' \in [Commits -> SUBSET Commits]
    BY <1>1, <1>2 DEF AddCommit, TypeOK
  <1>4. \A c \in 1..made : anc'[c] = anc[c]
    BY <1>1 DEF AddCommit, TypeOK, Commits
  <1>5. anc'[made + 1] = ancestors \cup {made + 1}
    BY <1>1 DEF AddCommit, TypeOK
  <1> QED
    BY <1>1, <1>3, <1>4, <1>5 DEF AddCommit

\* A commit about to land still descends from the target it read, when the
\* object store only grew.
LEMMA MergeOnTopKept ==
    ASSUME IInv, made \in Nat, \A c \in 1..made : anc'[c] = anc[c],
           pc' = pc, job' = job
    PROVE  MergeOnTop'
  <1> SUFFICES ASSUME NEW a \in Actor, pc[a] = "mg_swap"
               PROVE  anc'[job[a].old] \subseteq anc'[job[a].to]
    BY DEF MergeOnTop
  <1>1. job[a].old \in 1..made /\ job[a].to \in 1..made
    BY DEF IInv, JobOK
  <1> QED
    BY <1>1 DEF IInv, MergeOnTop

LEMMA CommitStep ==
    ASSUME IInv, NEW b \in Branch, NEW paths \in SUBSET Path, Commit(b, paths)
    PROVE  IInv'
  <1> DEFINE staged == [p \in Path |-> IF p \in paths THEN WorkOf(b)[p]
                                                       ELSE IndexOf(b)[p]]
  <1>1. Exists(b)
    BY DEF Commit, Openable
  <1>2. staged \in Tree
    BY <1>1, TreesOf DEF Tree
  <1>3. /\ anc[head[b]] \in SUBSET Commits /\ carries[head[b]] \in SUBSET Commits
    BY <1>1, TreesOf DEF IInv, TypeOK
  <1>4. AddCommit(staged, anc[head[b]], carries[head[b]])
    BY DEF Commit
  <1>5. head' = [head EXCEPT ![b] = made + 1]
        /\ SetWorktree(b, WorkOf(b), staged, made + 1)
        /\ UNCHANGED <<origin, upstream, mu, pc, job>> /\ left' = left \ {b}
        /\ Track(Nobody, {b}) /\ b \notin Protected
    BY DEF Commit, Writable
  <1> HIDE DEF staged
  <1>6. /\ made' \in Commits /\ made' = made + 1 /\ made + 1 \in Ref
        /\ tree' \in [Commits -> Tree]
        /\ anc' \in [Commits -> SUBSET Commits]
        /\ carries' \in [Commits -> SUBSET Commits]
        /\ \A c \in 1..made : anc'[c] = anc[c]
    BY <1>2, <1>3, <1>4, AddCommitOK DEF IInv
  <1>7. made \in Nat
    BY DEF IInv, TypeOK, Commits
  <1>8. TypeOK'
    <2>1. raced' \in [Actor -> BOOLEAN]
      BY <1>5, TrackType DEF IInv
    <2>2. WorkOf(b) \in Tree
      BY <1>1, TreesOf
    <2> QED
      BY <1>2, <1>5, <1>6, <2>1, <2>2 DEF IInv, TypeOK, SetWorktree
  <1>9. \A c \in Branch : Exists(c) => Exists(c)'
    BY <1>5, <1>7 DEF IInv, TypeOK, Exists
  <1>10. RefsOK'
    <2>1. \A c \in Branch : /\ head[c] \in Int /\ origin[c] \in Int /\ upstream[c] \in Int
                            /\ head[c] <= made /\ origin[c] <= made
                            /\ upstream[c] <= made
      BY DEF IInv, TypeOK, RefsOK, Ref
    <2>2. \A c \in Branch : head'[c] <= made' /\ origin'[c] <= made'
                                              /\ upstream'[c] <= made'
      BY <1>5, <1>6, <1>7, <2>1 DEF IInv, TypeOK
    <2>3. \A c \in Branch : wt'[c] => Exists(c)'
      BY <1>1, <1>5, <1>9 DEF IInv, TypeOK, RefsOK, SetWorktree
    <2>4. Exists(Default)'
      BY <1>9 DEF IInv, RefsOK
    <2> QED
      BY <2>2, <2>3, <2>4 DEF RefsOK
  <1>11. LockOK'
    BY <1>5 DEF IInv, LockOK
  <1>12. \A a \in Actor : JobOK(a)'
    BY <1>5, <1>6, <1>7, <1>8, <1>9, OthersJobOK DEF IInv
  <1>13. MergeOnTop'
    BY <1>5, <1>6, <1>7, MergeOnTopKept
  <1>14. SyncInPlace'
    BY <1>5 DEF IInv, TypeOK, SyncInPlace
  <1>15. WorktreeFollowsHead'
    BY <1>5 DEF IInv, TypeOK, WorktreeFollowsHead, SetWorktree
  <1> QED
    BY <1>8, <1>10, <1>11, <1>12, <1>13, <1>14, <1>15 DEF IInv

LEMMA CreateBranchStep ==
    ASSUME IInv, NEW b \in Branch, NEW from \in Branch, CreateBranch(b, from)
    PROVE  IInv'
  <1> USE DEF CreateBranch, repoVars, wtVars
  <1>1. TypeOK'
    BY TrackType DEF IInv, TypeOK
  <1>2. \A c \in Branch : Exists(c) => Exists(c)'
    BY DEF IInv, TypeOK, Exists
  <1>3. RefsOK'
    BY <1>2 DEF IInv, TypeOK, RefsOK, Exists
  <1>4. LockOK'
    BY DEF IInv, LockOK
  <1>5. \A a \in Actor : JobOK(a)'
    BY <1>1, <1>2, OthersJobOK DEF IInv, TypeOK, Commits
  <1>6. MergeOnTop'
    BY DEF IInv, MergeOnTop
  <1>7. SyncInPlace'
    \* nobody is inside a critical section
    BY DEF IInv, LockOK, Locked, SyncInPlace
  <1>8. WorktreeFollowsHead'
    \* a branch that did not exist has no worktree
    BY DEF IInv, TypeOK, RefsOK, Exists, WorktreeFollowsHead
  <1> QED
    BY <1>1, <1>3, <1>4, <1>5, <1>6, <1>7, <1>8 DEF IInv

LEMMA PushStep ==
    ASSUME IInv, NEW b \in Branch, Push(b)
    PROVE  IInv'
  <1> USE DEF Push, repoVars, wtVars, jobVars
  <1>1. TypeOK'
    BY DEF IInv, TypeOK
  <1>2. RefsOK'
    BY DEF IInv, TypeOK, RefsOK, Exists
  <1>3. LockOK' /\ MergeOnTop' /\ SyncInPlace' /\ WorktreeFollowsHead'
    BY DEF IInv, LockOK, MergeOnTop, SyncInPlace, WorktreeFollowsHead
  <1>4. \A a \in Actor : JobOK(a)'
    BY <1>1, OthersJobOK DEF IInv, TypeOK, Commits, Exists
  <1> QED
    BY <1>1, <1>2, <1>3, <1>4 DEF IInv

LEMMA UpstreamCommitStep ==
    ASSUME IInv, NEW b \in Branch, NEW p \in Path, NEW v \in Content,
           UpstreamCommit(b, p, v)
    PROVE  IInv'
  <1> DEFINE u == upstream[b]
  <1>1. u \in Commits
    BY DEF UpstreamCommit, IInv, TypeOK, Ref, Commits
  <1>2. tree[u] \in Tree /\ anc[u] \in SUBSET Commits /\ carries[u] \in SUBSET Commits
    BY <1>1 DEF IInv, TypeOK
  <1>3. [tree[u] EXCEPT ![p] = v] \in Tree
    BY <1>2 DEF Tree
  <1>4. AddCommit([tree[u] EXCEPT ![p] = v], anc[u], carries[u])
    BY DEF UpstreamCommit
  <1>5. upstream' = [upstream EXCEPT ![b] = made + 1]
        /\ UNCHANGED <<head, origin, wtVars, jobVars, left>>
    BY DEF UpstreamCommit
  <1> HIDE DEF u
  <1>6. /\ made' \in Commits /\ made' = made + 1 /\ made + 1 \in Ref
        /\ tree' \in [Commits -> Tree]
        /\ anc' \in [Commits -> SUBSET Commits]
        /\ carries' \in [Commits -> SUBSET Commits]
        /\ \A c \in 1..made : anc'[c] = anc[c]
    BY <1>2, <1>3, <1>4, AddCommitOK DEF IInv
  <1>7. made \in Nat
    BY DEF IInv, TypeOK, Commits
  <1> USE DEF wtVars, jobVars
  <1>8. TypeOK'
    BY <1>5, <1>6 DEF IInv, TypeOK
  <1>9. RefsOK'
    <2>1. \A c \in Branch : /\ head[c] \in Int /\ origin[c] \in Int /\ upstream[c] \in Int
                            /\ head[c] <= made /\ origin[c] <= made
                            /\ upstream[c] <= made
      BY DEF IInv, TypeOK, RefsOK, Ref
    <2>2. \A c \in Branch : head'[c] <= made' /\ origin'[c] <= made'
                                              /\ upstream'[c] <= made'
      BY <1>5, <1>6, <1>7, <2>1 DEF IInv, TypeOK
    <2> QED
      BY <1>5, <2>2 DEF IInv, RefsOK, Exists
  <1>10. \A a \in Actor : JobOK(a)'
    BY <1>5, <1>6, <1>7, <1>8, OthersJobOK DEF IInv, Exists
  <1>11. MergeOnTop'
    BY <1>5, <1>6, <1>7, MergeOnTopKept
  <1>12. LockOK' /\ SyncInPlace' /\ WorktreeFollowsHead'
    BY <1>5 DEF IInv, LockOK, SyncInPlace, WorktreeFollowsHead
  <1> QED
    BY <1>8, <1>9, <1>10, <1>11, <1>12 DEF IInv

LEMMA EvictWorktreeStep ==
    ASSUME IInv, NEW b \in Branch, EvictWorktree(b)
    PROVE  IInv'
  <1> USE DEF EvictWorktree, repoVars, refVars, jobVars
  <1>1. TypeOK'
    BY NoFilesType DEF IInv, TypeOK, Ref
  <1>2. RefsOK'
    BY DEF IInv, TypeOK, RefsOK, Exists
  <1>3. LockOK' /\ MergeOnTop' /\ SyncInPlace'
    BY DEF IInv, LockOK, MergeOnTop, SyncInPlace
  <1>4. WorktreeFollowsHead'
    BY DEF IInv, TypeOK, WorktreeFollowsHead
  <1>5. \A a \in Actor : JobOK(a)'
    BY <1>1, OthersJobOK DEF IInv, TypeOK, Commits, Exists
  <1> QED
    BY <1>1, <1>2, <1>3, <1>4, <1>5 DEF IInv

LEMMA CrashStep ==
    ASSUME IInv, Crash
    PROVE  IInv'
  <1> USE DEF Crash, repoVars, refVars, wtVars
  <1>1. TypeOK'
    <2>1. left' \in SUBSET Branch
      <3>1. ASSUME NEW a \in Actor PROVE job[a].b \in Branch
        BY DEF IInv, TypeOK, Job
      <3> QED
        BY <3>1 DEF IInv, TypeOK
    <2>2. raced' \in [Actor -> BOOLEAN]
      BY TrackType DEF IInv, TypeOK
    <2>3. pc' \in [Actor -> Steps] /\ job' \in [Actor -> Job] /\ mu' \in Actor \cup {Free}
      BY NoJobType DEF Steps
    <2> QED
      BY <2>1, <2>2, <2>3 DEF IInv, TypeOK
  <1>2. RefsOK'
    BY DEF IInv, RefsOK, Exists
  <1>3. LockOK' /\ MergeOnTop' /\ SyncInPlace'
    BY DEF LockOK, Locked, MergeOnTop, SyncInPlace
  <1>4. \A a \in Actor : JobOK(a)'
    BY DEF JobOK, NoJob, NoTodo
  <1>5. WorktreeFollowsHead'
    BY DEF IInv, TypeOK, WorktreeFollowsHead
  <1> QED
    BY <1>1, <1>2, <1>3, <1>4, <1>5 DEF IInv

-----------------------------------------------------------------------------
(* Steps of a request that write nothing and stay outside r.mu             *)

LEMMA QuietStep ==
    ASSUME IInv, NEW a \in Actor, UNCHANGED mu, NoWrite(a),
           pc[a] \notin Locked, pc'[a] \notin Locked,
           pc' \in [Actor -> Steps], job' \in [Actor -> Job], JobOK(a)',
           \A c \in Actor \ {a} : pc'[c] = pc[c] /\ job'[c] = job[c]
    PROVE  IInv'
  <1> USE DEF NoWrite, repoVars, refVars, wtVars
  <1>1. TypeOK'
    BY TrackType DEF IInv, TypeOK
  <1>2. RefsOK'
    BY DEF IInv, RefsOK, Exists
  <1>3. LockOK'
    BY DEF IInv, LockOK
  <1>4. \A c \in Actor : JobOK(c)'
    <2>1. made <= made' /\ \A b \in Branch : Exists(b) => Exists(b)'
      BY DEF IInv, TypeOK, Commits, Exists
    <2> QED
      BY <1>1, <2>1, OthersJobOK DEF IInv
  <1>5. MergeOnTop' /\ SyncInPlace'
    BY DEF IInv, Locked, MergeOnTop, SyncInPlace
  <1>6. WorktreeFollowsHead'
    BY DEF IInv, Locked, WorktreeFollowsHead
  <1> QED
    BY <1>1, <1>2, <1>3, <1>4, <1>5, <1>6 DEF IInv

\* What a branch's head is worth as the sha to move to.
LEMMA HeadIsCommit ==
    ASSUME IInv, NEW b \in Branch, Exists(b)
    PROVE  head[b] \in 1..made /\ head[b] \in Ref
  BY DEF IInv, TypeOK, RefsOK, Exists, Ref, Commits

LEMMA StartWorkspaceStep ==
    ASSUME IInv, NEW a \in Actor, NEW b \in Branch, StartWorkspace(a, b)
    PROVE  IInv'
  <1> DEFINE j == [NoJob EXCEPT !.op = "workspace", !.b = b, !.uses = {b, Default}]
  <1>1. j \in Job /\ j.op = "workspace" /\ j.b = b /\ ~j.then /\ j.todo = NoTodo
    BY NoJobType DEF Job, NoJob
  <1> HIDE DEF j
  <1>2. pc[a] = "idle" /\ pc' = [pc EXCEPT ![a] = "ws_base"]
        /\ job' = [job EXCEPT ![a] = j] /\ b \in Claimed \ Protected
        /\ UNCHANGED mu /\ NoWrite(a)
    BY DEF StartWorkspace, Start, Writable, j
  <1>3. pc' \in [Actor -> Steps] /\ job' \in [Actor -> Job]
        /\ pc'[a] = "ws_base" /\ job'[a] = j
    BY <1>1, <1>2 DEF IInv, TypeOK, Steps
  <1>4. JobOK(a)'
    BY <1>1, <1>2, <1>3 DEF JobOK, NoTodo
  <1> QED
    BY <1>2, <1>3, <1>4, QuietStep DEF Locked, IInv, TypeOK

LEMMA StartMergeStep ==
    ASSUME IInv, NEW a \in Actor, NEW t \in Branch, NEW s \in Branch,
           NEW squash \in BOOLEAN, StartMerge(a, t, s, squash)
    PROVE  IInv'
  <1> DEFINE j == [NoJob EXCEPT !.op = "merge", !.b = t, !.src = s,
                                !.squash = squash, !.then = s \in Claimed,
                                !.uses = {t, s}]
  <1>1. j \in Job /\ j.op = "merge" /\ j.b = t /\ j.src = s
        /\ (j.then => s \in Claimed) /\ j.todo = NoTodo
    <2>1. (s \in Claimed) \in BOOLEAN /\ {t, s} \in SUBSET Branch
      OBVIOUS
    <2> QED
      BY <2>1, NoJobType DEF Job, NoJob
  <1> HIDE DEF j
  <1>2. pc[a] = "idle" /\ pc' = [pc EXCEPT ![a] = "mg_status"]
        /\ job' = [job EXCEPT ![a] = j] /\ Exists(s) /\ Exists(t)
        /\ UNCHANGED mu /\ NoWrite(a)
    BY DEF StartMerge, Start, j
  <1>3. pc' \in [Actor -> Steps] /\ job' \in [Actor -> Job]
        /\ pc'[a] = "mg_status" /\ job'[a] = j
    BY <1>1, <1>2 DEF IInv, TypeOK, Steps
  <1>4. Exists(s)' /\ Exists(t)'
    BY <1>2 DEF Exists, NoWrite, refVars
  <1>5. JobOK(a)'
    BY <1>1, <1>3, <1>4 DEF JobOK, NoTodo
  <1> QED
    BY <1>2, <1>3, <1>5, QuietStep DEF Locked, IInv, TypeOK

LEMMA WsBaseStep ==
    ASSUME IInv, NEW a \in Actor, WsBase(a)
    PROVE  IInv'
  <1>1. head[Default] \in 1..made /\ head[Default] \in Ref
    BY HeadIsCommit DEF IInv, RefsOK
  <1>2. pc[a] = "ws_base" /\ pc' \in [Actor -> Steps]
        /\ pc'[a] = (IF Exists(job[a].b) THEN "ws_count" ELSE "ws_create")
    BY DEF WsBase, Goto, IInv, TypeOK, Steps
  <1>3. job' \in [Actor -> Job] /\ job'[a] = [job[a] EXCEPT !.to = head[Default]]
    <2>1. [job[a] EXCEPT !.to = head[Default]] \in Job
      BY <1>1, SetTo DEF IInv, TypeOK
    <2>2. job' = [job EXCEPT ![a] = [job[a] EXCEPT !.to = head[Default]]]
      BY DEF WsBase, IInv, TypeOK
    <2> QED
      BY <2>1, <2>2 DEF IInv, TypeOK
  <1>4. UNCHANGED <<made, head>>
    BY DEF WsBase, NoWrite, repoVars, refVars
  <1>5. job[a] \in Job /\ JobOK(a)
    BY DEF IInv, TypeOK
  <1>6. JobOK(a)'
    BY <1>1, <1>2, <1>3, <1>4, <1>5 DEF JobOK, Exists, Job
  <1> QED
    BY <1>2, <1>3, <1>6, QuietStep DEF WsBase, Goto, Locked, IInv, TypeOK

\* A step that ends the request or walks on, its locals as they were.
LEMMA WalkOn ==
    ASSUME IInv, NEW a \in Actor, NEW step \in Steps \ {"idle"},
           pc[a] \notin Locked, step \notin Locked, pc[a] # "idle",
           UNCHANGED mu, NoWrite(a),
           \/ Finish(a)
           \/ Goto(a, step) /\ UNCHANGED job,
           pc'[a] = step /\ pc' \in [Actor -> Steps] /\ job' = job
              => JobOK(a)'
    PROVE  IInv'
  <1>1. CASE Finish(a)
    BY <1>1, FinishOK, QuietStep DEF Locked, IInv
  <1>2. CASE Goto(a, step) /\ UNCHANGED job
    <2>1. pc' \in [Actor -> Steps] /\ pc'[a] = step
          /\ \A c \in Actor \ {a} : pc'[c] = pc[c]
      BY <1>2 DEF Goto, IInv, TypeOK
    <2> QED
      BY <1>2, <2>1, QuietStep DEF IInv, TypeOK
  <1> QED
    BY <1>1, <1>2

LEMMA WsCountStep ==
    ASSUME IInv, NEW a \in Actor, WsCount(a)
    PROVE  IInv'
  <1>1. pc[a] = "ws_count" /\ UNCHANGED mu /\ NoWrite(a) /\ JobOK(a)
    BY DEF WsCount, IInv
  <1>2. pc'[a] = "ws_dirty" /\ job' = job => JobOK(a)'
    BY <1>1 DEF JobOK, NoWrite, repoVars, refVars, Exists
  <1>3. Finish(a) \/ (Goto(a, "ws_dirty") /\ UNCHANGED job)
    BY DEF WsCount
  <1> QED
    BY <1>1, <1>2, <1>3, WalkOn DEF Locked, Steps

LEMMA WsDirtyStep ==
    ASSUME IInv, NEW a \in Actor, WsDirty(a)
    PROVE  IInv'
  <1>1. pc[a] = "ws_dirty" /\ UNCHANGED mu /\ NoWrite(a) /\ JobOK(a)
    BY DEF WsDirty, IInv
  <1>2. pc'[a] = "ff_check" /\ job' = job => JobOK(a)'
    BY <1>1 DEF JobOK, NoWrite, repoVars, refVars, Exists
  <1>3. Finish(a) \/ (Goto(a, "ff_check") /\ UNCHANGED job)
    BY DEF WsDirty
  <1> QED
    BY <1>1, <1>2, <1>3, WalkOn DEF Locked, Steps

LEMMA MgCheckStep ==
    ASSUME IInv, NEW a \in Actor, MgCheck(a)
    PROVE  IInv'
  <1>1. pc[a] = "mg_check" /\ UNCHANGED mu /\ NoWrite(a) /\ JobOK(a)
    BY DEF MgCheck, IInv
  <1>2. pc'[a] = "mg_lock" /\ job' = job => JobOK(a)'
    BY <1>1 DEF JobOK, NoWrite, repoVars, refVars, Exists
  <1>3. Finish(a) \/ (Goto(a, "mg_lock") /\ UNCHANGED job)
    BY DEF MgCheck
  <1> QED
    BY <1>1, <1>2, <1>3, WalkOn DEF Locked, Steps

\* No fast-forward still has to reset a merge's source.
LEMMA NothingAfter ==
    ASSUME NEW a \in Actor, JobOK(a), pc[a] \in {"ff_check", "ff_lock", "ff_swap"},
           TypeOK
    PROVE  ~job[a].then
  BY DEF JobOK

LEMMA FfCheckStep ==
    ASSUME IInv, NEW a \in Actor, FfCheck(a)
    PROVE  IInv'
  <1>1. pc[a] = "ff_check" /\ UNCHANGED mu /\ NoWrite(a) /\ JobOK(a) /\ TypeOK
    BY DEF FfCheck, IInv
  <1>2. \A b \in Branch : Exists(b) => Exists(b)'
    BY <1>1 DEF NoWrite, refVars, Exists
  <1>3. CASE Return(a)
    BY <1>1, <1>2, <1>3, NothingAfter, ReturnOK, QuietStep DEF Locked
  <1>4. CASE Goto(a, "ff_lock") /\ UNCHANGED job
    <2>1. pc'[a] = "ff_lock" /\ job' = job => JobOK(a)'
      BY <1>1 DEF JobOK, NoWrite, repoVars, refVars, Exists
    <2> QED
      BY <1>1, <1>4, <2>1, WalkOn DEF Locked, Steps
  <1> QED
    BY <1>3, <1>4 DEF FfCheck

LEMMA FfNextStep ==
    ASSUME IInv, NEW a \in Actor, NEW b \in Branch, FfNext(a, b)
    PROVE  IInv'
  <1> DEFINE rest == [job[a].todo EXCEPT ![b] = 0]
             follow == FastForwards(job[a].todo[b], origin[b])
             j1 == [job[a] EXCEPT !.todo = rest]
             j2 == [job[a] EXCEPT !.todo = rest, !.b = b, !.to = origin[b]]
  <1>1. pc[a] = "ff_next" /\ job[a].todo[b] # 0 /\ UNCHANGED mu /\ NoWrite(a)
        /\ JobOK(a) /\ TypeOK /\ job[a] \in Job
    BY DEF FfNext, IInv, TypeOK
  <1>2. rest \in [Branch -> Ref] /\ \A x \in Branch : rest[x] # 0 => Exists(x)
    BY <1>1 DEF Job, JobOK, Ref
  <1>3. job[a].op = "pull" /\ ~job[a].then /\ Exists(b)
    BY <1>1 DEF JobOK
  <1>4. UNCHANGED <<made, head>>
    BY <1>1 DEF NoWrite, repoVars, refVars
  <1>5. CASE follow /\ job' = [job EXCEPT ![a].todo = rest, ![a].b = b,
                                          ![a].to = origin[b]]
                    /\ Goto(a, "ff_check")
    <2>1. origin[b] \in 1..made /\ origin[b] \in Ref
      BY <1>5 DEF FastForwards, IInv, RefsOK, TypeOK, Ref, Commits
    <2> HIDE DEF rest
    <2>2. j2 \in Job /\ j2.op = "pull" /\ ~j2.then /\ j2.b = b
          /\ j2.to = origin[b] /\ j2.todo = rest
      BY <1>1, <1>2, <1>3, <2>1 DEF Job
    <2>3. job' = [job EXCEPT ![a] = j2]
      BY <1>1, <1>5 DEF TypeOK
    <2> HIDE DEF j2
    <2>4. /\ job' \in [Actor -> Job] /\ job'[a] = j2
          /\ pc' \in [Actor -> Steps] /\ pc'[a] = "ff_check"
      <3>1. job' \in [Actor -> Job] /\ job'[a] = j2
        BY <1>1, <2>2, <2>3 DEF TypeOK
      <3>2. pc' = [pc EXCEPT ![a] = "ff_check"]
        BY <1>5 DEF Goto
      <3> QED
        BY <1>1, <3>1, <3>2 DEF TypeOK, Steps
    <2>5. JobOK(a)'
      BY <1>2, <1>3, <1>4, <2>1, <2>2, <2>4 DEF JobOK, Exists
    <2> QED
      BY <1>1, <1>5, <2>3, <2>4, <2>5, QuietStep DEF Goto, Locked, TypeOK
  <1>6. CASE job' = [job EXCEPT ![a].todo = rest] /\ UNCHANGED pc
    <2> HIDE DEF rest
    <2>1. j1 \in Job /\ j1.op = "pull" /\ ~j1.then /\ j1.todo = rest
      BY <1>1, <1>2, <1>3 DEF Job
    <2>2. job' = [job EXCEPT ![a] = j1]
      BY <1>1, <1>6 DEF TypeOK
    <2> HIDE DEF j1
    <2>3. job' \in [Actor -> Job] /\ job'[a] = j1
      BY <1>1, <2>1, <2>2 DEF TypeOK
    <2>4. JobOK(a)'
      BY <1>1, <1>2, <1>4, <1>6, <2>1, <2>3 DEF JobOK, Exists
    <2> QED
      BY <1>1, <1>6, <2>2, <2>3, <2>4, QuietStep DEF Locked, TypeOK
  <1>7. CASE Finish(a)
    BY <1>1, <1>7, FinishOK, QuietStep DEF Locked
  <1> QED
    BY <1>5, <1>6, <1>7 DEF FfNext

LEMMA StartPullStep ==
    ASSUME IInv, NEW a \in Actor, NEW bs \in SUBSET Branch, StartPull(a, bs)
    PROVE  IInv'
  <1> DEFINE todo == [b \in Branch |-> IF b \in bs THEN head[b] ELSE 0]
             j == [NoJob EXCEPT !.op = "pull", !.uses = bs, !.todo = todo]
  <1>1. todo \in [Branch -> Ref] /\ \A b \in Branch : todo[b] # 0 => Exists(b)
    BY DEF IInv, TypeOK, Ref, Exists
  <1> HIDE DEF todo
  <1>2. j \in Job /\ j.op = "pull" /\ ~j.then /\ j.todo = todo
    BY <1>1, NoJobType DEF Job, NoJob
  <1>3. pc[a] = "idle" /\ pc' = [pc EXCEPT ![a] = "ff_next"]
        /\ job' = [job EXCEPT ![a] = j] /\ origin' = upstream
        /\ UNCHANGED <<mu, made, tree, anc, carries, head, upstream,
                       wt, work, index, base, left>>
        /\ Track(a, {}) /\ mu = Free
    BY DEF StartPull, Start, repoVars, wtVars, todo
  <1> HIDE DEF j
  <1>4. pc' \in [Actor -> Steps] /\ job' \in [Actor -> Job]
        /\ pc'[a] = "ff_next" /\ job'[a] = j
    BY <1>2, <1>3 DEF IInv, TypeOK, Steps
  <1>5. TypeOK'
    BY <1>3, <1>4, TrackType DEF IInv, TypeOK
  <1>6. RefsOK'
    BY <1>3 DEF IInv, RefsOK, Exists
  <1>7. LockOK'
    BY <1>3, <1>4 DEF IInv, LockOK, Locked, TypeOK
  <1>8. \A c \in Actor : JobOK(c)'
    <2>1. JobOK(a)'
      BY <1>1, <1>2, <1>3, <1>4 DEF JobOK, Exists
    <2>2. made <= made' /\ \A b \in Branch : Exists(b) => Exists(b)'
      BY <1>3 DEF IInv, TypeOK, Commits, Exists
    <2> QED
      BY <1>3, <1>5, <2>1, <2>2, OthersJobOK DEF IInv, TypeOK
  <1>9. MergeOnTop' /\ SyncInPlace' /\ WorktreeFollowsHead'
    BY <1>3, <1>4 DEF IInv, TypeOK, MergeOnTop, SyncInPlace, WorktreeFollowsHead
  <1> QED
    BY <1>5, <1>6, <1>7, <1>8, <1>9 DEF IInv

\* EnsureWorkspace creates the branch, which had no worktree.
LEMMA WsCreateStep ==
    ASSUME IInv, NEW a \in Actor, WsCreate(a)
    PROVE  IInv'
  <1> DEFINE b == job[a].b
  <1>1. pc[a] = "ws_create" /\ JobOK(a) /\ b \in Branch /\ b \in Claimed
    BY DEF WsCreate, IInv, TypeOK, Job, JobOK
  <1>2. /\ head' = IF Exists(b) THEN head ELSE [head EXCEPT ![b] = head[Default]]
        /\ Finish(a)
        /\ UNCHANGED <<mu, made, tree, anc, carries, origin, upstream,
                       wt, work, index, base, left>>
        /\ Track(a, {b})
    BY DEF WsCreate, repoVars, wtVars
  <1> HIDE DEF b
  <1>3. /\ pc' \in [Actor -> Steps] /\ pc'[a] = "idle"
        /\ job' \in [Actor -> Job] /\ JobOK(a)'
        /\ \A c \in Actor \ {a} : pc'[c] = pc[c] /\ job'[c] = job[c]
    BY <1>2, FinishOK DEF IInv
  <1>4. TypeOK'
    BY <1>1, <1>2, <1>3, TrackType DEF IInv, TypeOK
  <1>5. \A c \in Branch : Exists(c) => Exists(c)'
    BY <1>2 DEF IInv, TypeOK, Exists
  <1>6. RefsOK'
    BY <1>1, <1>2, <1>5 DEF IInv, TypeOK, RefsOK, Exists
  <1>7. LockOK'
    BY <1>1, <1>2, <1>3 DEF IInv, LockOK, Locked
  <1>8. \A c \in Actor : JobOK(c)'
    <2>1. made <= made'
      BY <1>2 DEF IInv, TypeOK, Commits
    <2> QED
      BY <1>3, <1>4, <1>5, <2>1, OthersJobOK DEF IInv
  <1>9. MergeOnTop'
    BY <1>2, <1>3 DEF IInv, MergeOnTop
  <1>10. SyncInPlace'
    <2>1. ASSUME NEW c \in Actor, pc'[c] = "sync", job'[c].b \in Protected
          PROVE  head'[job'[c].b] = job'[c].to
      <3>1. c # a /\ pc[c] = "sync" /\ job'[c] = job[c] /\ job[c].b \in Branch
        BY <1>3, <2>1 DEF IInv, TypeOK, Job
      <3>2. JobOK(c) /\ head[job[c].b] = job[c].to /\ Exists(job[c].b)
        BY <2>1, <3>1 DEF IInv, SyncInPlace, JobOK
      <3>3. head'[job[c].b] = head[job[c].b]
        BY <1>1, <1>2, <3>1, <3>2 DEF IInv, TypeOK, Exists
      <3> QED
        BY <3>1, <3>2, <3>3
    <2> QED
      BY <2>1 DEF SyncInPlace
  <1>11. WorktreeFollowsHead'
    BY <1>1, <1>2, <1>3 DEF IInv, TypeOK, RefsOK, Exists, WorktreeFollowsHead
  <1> QED
    BY <1>4, <1>6, <1>7, <1>8, <1>9, <1>10, <1>11 DEF IInv

\* Status(source) may add the source's worktree, at its head.
LEMMA MgStatusStep ==
    ASSUME IInv, NEW a \in Actor, MgStatus(a)
    PROVE  IInv'
  <1> DEFINE s == job[a].src
  <1>1. pc[a] = "mg_status" /\ JobOK(a) /\ s \in Branch /\ Exists(s)
    BY DEF MgStatus, IInv, TypeOK, Job, JobOK
  <1>2. /\ SetWorktree(s, WorkOf(s), IndexOf(s), BaseOf(s))
        /\ Finish(a) \/ (Goto(a, "mg_check") /\ UNCHANGED job)
        /\ UNCHANGED <<mu, made, tree, anc, carries, head, origin, upstream, left>>
        /\ Track(a, {})
    BY DEF MgStatus, repoVars, refVars
  <1> HIDE DEF s
  <1>3. /\ pc' \in [Actor -> Steps] /\ pc'[a] \in {"idle", "mg_check"}
        /\ job' \in [Actor -> Job] /\ JobOK(a)'
        /\ \A c \in Actor \ {a} : pc'[c] = pc[c] /\ job'[c] = job[c]
    <2>1. CASE Finish(a)
      BY <2>1, FinishOK DEF IInv
    <2>2. CASE Goto(a, "mg_check") /\ UNCHANGED job
      <3>1. pc' \in [Actor -> Steps] /\ pc'[a] = "mg_check"
        BY <2>2 DEF Goto, IInv, TypeOK, Steps
      <3>2. JobOK(a)'
        BY <1>1, <1>2, <2>2, <3>1 DEF JobOK, Exists
      <3> QED
        BY <2>2, <3>1, <3>2 DEF Goto, IInv, TypeOK
    <2> QED
      BY <1>2, <2>1, <2>2
  <1>4. TypeOK'
    BY <1>1, <1>2, <1>3, TrackType, TreesOf DEF IInv, TypeOK, SetWorktree
  <1>5. RefsOK'
    BY <1>1, <1>2 DEF IInv, TypeOK, RefsOK, Exists, SetWorktree
  <1>6. LockOK'
    BY <1>1, <1>2, <1>3 DEF IInv, LockOK, Locked
  <1>7. \A c \in Actor : JobOK(c)'
    <2>1. made <= made' /\ \A b \in Branch : Exists(b) => Exists(b)'
      BY <1>2 DEF IInv, TypeOK, Commits, Exists
    <2> QED
      BY <1>3, <1>4, <2>1, OthersJobOK DEF IInv
  <1>8. MergeOnTop' /\ SyncInPlace'
    BY <1>2, <1>3 DEF IInv, MergeOnTop, SyncInPlace
  <1>9. WorktreeFollowsHead'
    BY <1>1, <1>2, <1>3 DEF IInv, TypeOK, WorktreeFollowsHead, SetWorktree, BaseOf
  <1> QED
    BY <1>4, <1>5, <1>6, <1>7, <1>8, <1>9 DEF IInv

-----------------------------------------------------------------------------
(* Critical sections of r.mu                                               *)

\* Taking the lock, before anything is written.
LEMMA AcquireStep ==
    ASSUME IInv, NEW a \in Actor, mu = Free, mu' = a, NoWrite(a),
           pc'[a] \in {"ff_swap", "mg_tree"},
           pc' \in [Actor -> Steps], job' \in [Actor -> Job], JobOK(a)',
           \A c \in Actor \ {a} : pc'[c] = pc[c] /\ job'[c] = job[c]
    PROVE  IInv'
  <1> USE DEF NoWrite, repoVars, refVars, wtVars
  <1>1. TypeOK'
    BY TrackType DEF IInv, TypeOK
  <1>2. RefsOK'
    BY DEF IInv, RefsOK, Exists
  <1>3. \A c \in Actor : pc[c] \notin Locked
    BY DEF IInv, LockOK
  <1>4. LockOK'
    BY <1>3 DEF LockOK, Locked
  <1>5. \A c \in Actor : JobOK(c)'
    <2>1. made <= made' /\ \A b \in Branch : Exists(b) => Exists(b)'
      BY DEF IInv, TypeOK, Commits, Exists
    <2> QED
      BY <1>1, <2>1, OthersJobOK DEF IInv
  <1>6. MergeOnTop' /\ SyncInPlace'
    BY <1>3 DEF Locked, MergeOnTop, SyncInPlace
  <1>7. WorktreeFollowsHead'
    BY <1>3 DEF IInv, Locked, WorktreeFollowsHead
  <1> QED
    BY <1>1, <1>2, <1>4, <1>5, <1>6, <1>7 DEF IInv

\* Giving up inside the critical section: the lock is free again.
LEMMA ReleaseStep ==
    ASSUME IInv, NEW a \in Actor, mu' = Free, NoWrite(a),
           pc[a] \in Locked \ {"sync"}, pc'[a] \notin Locked,
           pc' \in [Actor -> Steps], job' \in [Actor -> Job], JobOK(a)',
           \A c \in Actor \ {a} : pc'[c] = pc[c] /\ job'[c] = job[c]
    PROVE  IInv'
  <1> USE DEF NoWrite, repoVars, refVars, wtVars
  <1>1. TypeOK'
    BY TrackType DEF IInv, TypeOK
  <1>2. RefsOK'
    BY DEF IInv, RefsOK, Exists
  <1>3. \A c \in Actor \ {a} : pc[c] \notin Locked
    BY DEF IInv, LockOK
  <1>4. LockOK'
    BY <1>3 DEF LockOK
  <1>5. \A c \in Actor : JobOK(c)'
    <2>1. made <= made' /\ \A b \in Branch : Exists(b) => Exists(b)'
      BY DEF IInv, TypeOK, Commits, Exists
    <2> QED
      BY <1>1, <2>1, OthersJobOK DEF IInv
  <1>6. MergeOnTop' /\ SyncInPlace'
    BY <1>3 DEF Locked, MergeOnTop, SyncInPlace
  <1>7. WorktreeFollowsHead'
    BY <1>3 DEF IInv, Locked, WorktreeFollowsHead
  <1> QED
    BY <1>1, <1>2, <1>4, <1>5, <1>6, <1>7 DEF IInv

LEMMA AbortStep ==
    ASSUME IInv, NEW a \in Actor, Abort(a), NoWrite(a),
           pc[a] \in {"mg_tree", "mg_swap"}
    PROVE  IInv'
  BY FinishOK, ReleaseStep DEF Abort, Locked, IInv

LEMMA FfLockStep ==
    ASSUME IInv, NEW a \in Actor, FfLock(a)
    PROVE  IInv'
  <1> DEFINE b == job[a].b
             j == [job[a] EXCEPT !.old = head[b]]
  <1>1. pc[a] = "ff_lock" /\ mu = Free /\ NoWrite(a) /\ JobOK(a) /\ TypeOK
        /\ job[a] \in Job /\ b \in Branch
    BY DEF FfLock, IInv, TypeOK, Job
  <1>2. UNCHANGED <<made, head>>
    BY <1>1 DEF NoWrite, repoVars, refVars
  <1>3. CASE Return(a) /\ UNCHANGED mu
    <2>1. \A x \in Branch : Exists(x) => Exists(x)'
      BY <1>2 DEF Exists
    <2> QED
      BY <1>1, <1>3, <2>1, NothingAfter, ReturnOK, QuietStep DEF Locked
  <1>4. CASE mu' = a /\ job' = [job EXCEPT ![a].old = head[b]] /\ Goto(a, "ff_swap")
    <2>1. head[b] \in Ref
      BY <1>1 DEF TypeOK
    <2>2. j \in Job /\ j.b = b /\ j.to = job[a].to /\ j.op = job[a].op
          /\ j.then = job[a].then /\ j.todo = job[a].todo /\ j.src = job[a].src
      BY <1>1, <2>1, SetOld DEF Job
    <2>3. job' = [job EXCEPT ![a] = j]
      BY <1>1, <1>4 DEF TypeOK
    <2> HIDE DEF j
    <2>4. job' \in [Actor -> Job] /\ job'[a] = j
      BY <1>1, <2>2, <2>3 DEF TypeOK
    <2>5. pc' \in [Actor -> Steps] /\ pc'[a] = "ff_swap"
      BY <1>1, <1>4 DEF Goto, TypeOK, Steps
    <2>6. JobOK(a)'
      BY <1>1, <1>2, <2>2, <2>4, <2>5 DEF JobOK, Exists
    <2>7. \A c \in Actor \ {a} : pc'[c] = pc[c] /\ job'[c] = job[c]
      BY <1>1, <1>4, <2>3 DEF Goto, TypeOK
    <2> QED
      BY <1>1, <1>4, <2>4, <2>5, <2>6, <2>7, AcquireStep
  <1> QED
    BY <1>3, <1>4 DEF FfLock

LEMMA MgLockStep ==
    ASSUME IInv, NEW a \in Actor, MgLock(a)
    PROVE  IInv'
  <1> DEFINE t == job[a].b  s == job[a].src
             j == [job[a] EXCEPT !.old = head[t], !.from = head[s]]
  <1>1. pc[a] = "mg_lock" /\ mu = Free /\ mu' = a /\ NoWrite(a) /\ JobOK(a) /\ TypeOK
        /\ job[a] \in Job /\ t \in Branch /\ s \in Branch /\ Exists(t) /\ Exists(s)
    BY DEF MgLock, IInv, TypeOK, Job, JobOK
  <1>2. UNCHANGED <<made, head>>
    BY <1>1 DEF NoWrite, repoVars, refVars
  <1>3. /\ head[t] \in Ref /\ head[t] \in 1..made
        /\ head[s] \in Ref /\ head[s] \in 1..made
    BY <1>1, HeadIsCommit
  <1>4. job' = [job EXCEPT ![a] = j]
    BY <1>1 DEF MgLock, TypeOK
  <1>5. j \in Job /\ j.b = t /\ j.src = s /\ j.op = job[a].op
        /\ j.then = job[a].then /\ j.todo = job[a].todo
        /\ j.old = head[t] /\ j.from = head[s]
    BY <1>1, <1>3 DEF Job
  <1> HIDE DEF j
  <1>6. job' \in [Actor -> Job] /\ job'[a] = j
    BY <1>1, <1>4, <1>5 DEF TypeOK
  <1>7. pc' \in [Actor -> Steps] /\ pc'[a] = "mg_tree"
    BY <1>1 DEF MgLock, Goto, TypeOK, Steps
  <1>8. JobOK(a)'
    BY <1>1, <1>2, <1>3, <1>5, <1>6, <1>7 DEF JobOK, Exists
  <1>9. \A c \in Actor \ {a} : pc'[c] = pc[c] /\ job'[c] = job[c]
    BY <1>1, <1>4 DEF MgLock, Goto, TypeOK
  <1> QED
    BY <1>1, <1>6, <1>7, <1>8, <1>9, AcquireStep

\* update-ref under r.mu: the branch is where its worktree is not, and the
\* actor that moved it is at its reset.
LEMMA SwapStep ==
    ASSUME IInv, NEW a \in Actor, pc[a] \in {"ff_swap", "mg_swap"}, Swap(a)
    PROVE  IInv'
  <1> DEFINE b == job[a].b  to == job[a].to
             j == [job[a] EXCEPT !.old = 0]
  <1>1. JobOK(a) /\ TypeOK /\ job[a] \in Job /\ b \in Branch /\ mu = a
        /\ to \in 1..made /\ to \in Ref /\ Exists(b)
    BY DEF IInv, TypeOK, Job, JobOK, LockOK, Locked
  <1>2. /\ head' = [head EXCEPT ![b] = to]
        /\ pc' = [pc EXCEPT ![a] = "sync"]
        /\ base' = IF wt[b] /\ ~Changed(b) THEN [base EXCEPT ![b] = head[b]] ELSE base
        /\ UNCHANGED <<mu, made, tree, anc, carries, origin, upstream,
                       wt, work, index, left>>
        /\ Track(a, {b})
    BY DEF Swap, repoVars
  <1>3. job' = [job EXCEPT ![a] = j]
    BY <1>1 DEF Swap, TypeOK
  <1>4. j \in Job /\ j.b = b /\ j.to = to /\ j.op = job[a].op /\ j.src = job[a].src
        /\ j.then = job[a].then /\ j.todo = job[a].todo
    BY <1>1, SetOld DEF Job, Ref
  <1> HIDE DEF j
  <1>5. /\ job' \in [Actor -> Job] /\ job'[a] = j
        /\ pc' \in [Actor -> Steps] /\ pc'[a] = "sync"
        /\ \A c \in Actor \ {a} : pc'[c] = pc[c] /\ job'[c] = job[c]
    BY <1>1, <1>2, <1>3, <1>4 DEF TypeOK, Steps
  <1>6. TypeOK'
    <2>1. base' \in [Branch -> Ref]
      BY <1>1, <1>2 DEF TypeOK
    <2> QED
      BY <1>1, <1>2, <1>5, <2>1, TrackType DEF TypeOK
  <1>7. made \in Nat /\ made' = made
    BY <1>1, <1>2 DEF TypeOK, Commits
  <1>8. head'[b] = to /\ \A c \in Branch \ {b} : head'[c] = head[c] /\ base'[c] = base[c]
    BY <1>1, <1>2 DEF TypeOK
  <1>9. \A c \in Branch : Exists(c) => Exists(c)'
    BY <1>1, <1>7, <1>8 DEF Exists
  <1>10. RefsOK'
    BY <1>1, <1>2, <1>7, <1>8, <1>9 DEF IInv, RefsOK
  <1>11. \A c \in Actor \ {a} : pc[c] \notin Locked
    BY <1>1 DEF IInv, LockOK
  <1>12. LockOK'
    BY <1>1, <1>2, <1>5, <1>11 DEF IInv, LockOK, Locked
  <1>13. \A c \in Actor : JobOK(c)'
    <2>1. JobOK(a)'
      <3>1. job[a].then => job[a].op = "merge" /\ job[a].src \in Claimed
                           /\ Exists(job[a].src)
        BY <1>1 DEF JobOK
      <3>2. job[a].op # "none" /\ (job[a].op = "workspace" => b \in Claimed)
        BY <1>1 DEF JobOK
      <3>3. \A x \in Branch : job[a].todo[x] # 0 => Exists(x)
        BY <1>1 DEF JobOK
      <3> QED
        BY <1>1, <1>4, <1>5, <1>7, <1>9, <3>1, <3>2, <3>3 DEF JobOK
    <2> QED
      BY <1>1, <1>5, <1>6, <1>7, <1>9, <2>1, OthersJobOK DEF IInv
  <1>14. MergeOnTop'
    BY <1>5, <1>11 DEF Locked, MergeOnTop
  <1>15. SyncInPlace'
    BY <1>4, <1>5, <1>8, <1>11 DEF Locked, SyncInPlace
  <1>16. WorktreeFollowsHead'
    BY <1>1, <1>2, <1>4, <1>5, <1>8, <1>11 DEF IInv, Locked, WorktreeFollowsHead
  <1> QED
    BY <1>6, <1>10, <1>12, <1>13, <1>14, <1>15, <1>16 DEF IInv

LEMMA FfSwapStep ==
    ASSUME IInv, NEW a \in Actor, FfSwap(a)
    PROVE  IInv'
  <1>1. CASE Swap(a)
    BY <1>1, SwapStep DEF FfSwap
  <1>2. CASE mu' = Free /\ Return(a) /\ NoWrite(a)
    <2>1. pc[a] = "ff_swap" /\ JobOK(a) /\ TypeOK
      BY DEF FfSwap, IInv
    <2>2. \A b \in Branch : Exists(b) => Exists(b)'
      BY <1>2 DEF NoWrite, refVars, Exists
    <2> QED
      BY <1>2, <2>1, <2>2, NothingAfter, ReturnOK, ReleaseStep DEF Locked
  <1> QED
    BY <1>1, <1>2 DEF FfSwap

LEMMA MgSwapStep ==
    ASSUME IInv, NEW a \in Actor, MgSwap(a)
    PROVE  IInv'
  BY SwapStep, AbortStep DEF MgSwap

\* The reset brings worktree and index to where the branch was moved.
LEMMA SyncStep ==
    ASSUME IInv, NEW a \in Actor, Sync(a)
    PROVE  IInv'
  <1> DEFINE b == job[a].b  to == job[a].to
             j == [NoJob EXCEPT !.op = "merge", !.b = job[a].src,
                                !.to = to, !.uses = job[a].uses]
  <1>1. pc[a] = "sync" /\ JobOK(a) /\ TypeOK /\ job[a] \in Job /\ b \in Branch
        /\ mu = a /\ to \in 1..made /\ to \in Ref /\ to \in Commits /\ Exists(b)
    <2>1. pc[a] = "sync" /\ JobOK(a) /\ TypeOK /\ job[a] \in Job /\ mu = a
      BY DEF Sync, IInv, TypeOK, LockOK, Locked
    <2>2. to \in 1..made /\ Exists(b) /\ b \in Branch /\ to \in Ref
      BY <2>1 DEF JobOK, Job
    <2>3. to \in Commits
      BY <2>1, <2>2 DEF TypeOK, Commits
    <2> QED
      BY <2>1, <2>2, <2>3
  <1>2. /\ mu' = Free /\ SyncWorktree(b, to)
        /\ UNCHANGED <<made, tree, anc, carries, origin, upstream>>
        /\ Track(a, {b})
    BY DEF Sync, repoVars
  <1>3. \/ job[a].then /\ job' = [job EXCEPT ![a] = j] /\ Goto(a, "ff_check")
        \/ ~job[a].then /\ Return(a)
    BY DEF Sync
  <1> HIDE DEF b, to, j
  <1>4. made \in Nat /\ made' = made
    BY <1>1, <1>2 DEF TypeOK, Commits
  <1>5. /\ head' \in [Branch -> Ref] /\ head'[b] \in {head[b], to}
        /\ \A c \in Branch \ {b} : head'[c] = head[c] /\ wt'[c] = wt[c]
                                   /\ base'[c] = base[c]
        /\ wt' = wt
        /\ wt'[b] => base'[b] = head'[b] \/ b \in left'
        /\ left' \in SUBSET Branch /\ left \ {b} \subseteq left'
    <2>1. CASE wt[b] /\ SetWorktree(b, ResetFiles(b, to), tree[to], to)
                    /\ head' = [head EXCEPT ![b] = to] /\ left' = left \ {b}
      <3>1. base' = [base EXCEPT ![b] = to] /\ wt' = [wt EXCEPT ![b] = TRUE]
        BY <2>1 DEF SetWorktree
      <3>2. wt' = wt
        BY <1>1, <2>1, <3>1 DEF TypeOK
      <3> QED
        BY <1>1, <2>1, <3>1, <3>2 DEF TypeOK
    <2>2. CASE /\ UNCHANGED <<head, wtVars>>
               /\ left' = left \cup {b} \/ (~wt[b] /\ left' = left)
      <3>1. head' = head /\ base' = base /\ wt' = wt
        BY <2>2 DEF wtVars
      <3> QED
        BY <1>1, <2>2, <3>1 DEF TypeOK
    <2> QED
      BY <1>2, <2>1, <2>2 DEF SyncWorktree
  <1>6. \A c \in Branch : Exists(c) => Exists(c)'
    BY <1>1, <1>4, <1>5 DEF Exists
  <1>7. /\ pc' \in [Actor -> Steps] /\ pc'[a] \in {"idle", "ff_next", "ff_check"}
        /\ job' \in [Actor -> Job] /\ JobOK(a)'
        /\ \A c \in Actor \ {a} : pc'[c] = pc[c] /\ job'[c] = job[c]
    <2>1. CASE ~job[a].then /\ Return(a)
      BY <1>1, <1>6, <2>1, ReturnOK
    <2>2. CASE job[a].then /\ job' = [job EXCEPT ![a] = j] /\ Goto(a, "ff_check")
      <3>1. job[a].src \in Claimed /\ Exists(job[a].src) /\ job[a].src \in Branch
            /\ job[a].uses \in SUBSET Branch
        BY <1>1, <2>2 DEF JobOK, Job
      <3>2. j \in Job /\ j.op = "merge" /\ j.b = job[a].src /\ j.to = to
            /\ ~j.then /\ j.todo = NoTodo
        BY <1>1, <3>1, NoJobType DEF j, Job, NoJob
      <3>3. /\ pc' \in [Actor -> Steps] /\ pc'[a] = "ff_check"
            /\ job' \in [Actor -> Job] /\ job'[a] = j
            /\ \A c \in Actor \ {a} : pc'[c] = pc[c] /\ job'[c] = job[c]
        BY <1>1, <2>2, <3>2 DEF Goto, TypeOK, Steps
      <3>4. JobOK(a)'
        BY <1>1, <1>4, <1>6, <3>1, <3>2, <3>3 DEF JobOK, NoTodo
      <3> QED
        BY <3>3, <3>4
    <2> QED
      BY <1>3, <2>1, <2>2
  <1>8. TypeOK'
    <2>1. tree[to] \in Tree /\ ResetFiles(b, to) \in Tree
      BY <1>1 DEF TypeOK, ResetFiles, Tree
    <2>2. /\ work' \in [Branch -> Tree] /\ index' \in [Branch -> Tree]
          /\ base' \in [Branch -> Ref] /\ wt' \in [Branch -> BOOLEAN]
      <3>1. CASE SetWorktree(b, ResetFiles(b, to), tree[to], to)
        <4>1. /\ wt' = [wt EXCEPT ![b] = TRUE]
              /\ work' = [work EXCEPT ![b] = ResetFiles(b, to)]
              /\ index' = [index EXCEPT ![b] = tree[to]]
              /\ base' = [base EXCEPT ![b] = to]
          BY <3>1 DEF SetWorktree
        <4> QED
          BY <1>1, <2>1, <4>1 DEF TypeOK
      <3>2. CASE UNCHANGED wtVars
        BY <1>1, <3>2 DEF wtVars, TypeOK
      <3> QED
        BY <1>2, <3>1, <3>2 DEF SyncWorktree
    <2>3. raced' \in [Actor -> BOOLEAN]
      BY <1>1, <1>2, TrackType
    <2> QED
      BY <1>1, <1>2, <1>5, <1>7, <2>2, <2>3 DEF TypeOK
  <1>9. RefsOK'
    <2>1. \A c \in Branch : head'[c] <= made'
      BY <1>1, <1>4, <1>5 DEF IInv, RefsOK
    <2> QED
      BY <1>2, <1>4, <1>5, <1>6, <2>1 DEF IInv, RefsOK
  <1>10. \A c \in Actor \ {a} : pc[c] \notin Locked
    BY <1>1 DEF IInv, LockOK
  <1>11. LockOK'
    BY <1>2, <1>7, <1>10 DEF LockOK, Locked
  <1>12. \A c \in Actor : JobOK(c)'
    BY <1>1, <1>4, <1>6, <1>7, <1>8, OthersJobOK DEF IInv
  <1>13. MergeOnTop' /\ SyncInPlace'
    BY <1>7, <1>10 DEF Locked, MergeOnTop, SyncInPlace
  <1>14. WorktreeFollowsHead'
    <2>1. \A c \in Actor : pc[c] = "sync" => c = a
      BY <1>10 DEF Locked
    <2> QED
      BY <1>2, <1>5, <2>1 DEF IInv, WorktreeFollowsHead, b
  <1> QED
    BY <1>8, <1>9, <1>11, <1>12, <1>13, <1>14 DEF IInv

\* The merge commit has the target that was read among its ancestors.
LEMMA MgTreeStep ==
    ASSUME IInv, NEW a \in Actor, MgTree(a)
    PROVE  IInv'
  <1> DEFINE t == head[job[a].b]  s == head[job[a].src]
             old == job[a].old    from == job[a].from
             ancestors == IF job[a].squash THEN anc[old] ELSE anc[old] \cup anc[from]
             j == [job[a] EXCEPT !.to = made + 1, !.from = 0, !.squash = FALSE]
  <1>1. pc[a] = "mg_tree" /\ JobOK(a) /\ TypeOK /\ job[a] \in Job /\ mu = a
        /\ job[a].b \in Branch /\ job[a].src \in Branch
        /\ Exists(job[a].b) /\ Exists(job[a].src)
        /\ UNCHANGED <<head, origin, upstream, wt, work, index, base, left>>
        /\ Track(a, {})
    BY DEF MgTree, IInv, TypeOK, Job, JobOK, LockOK, Locked, refVars, wtVars
  <1>2. CASE Abort(a) /\ UNCHANGED repoVars
    <2>1. NoWrite(a)
      BY <1>1, <1>2 DEF NoWrite, refVars, wtVars
    <2> QED
      BY <1>1, <1>2, <2>1, AbortStep
  <1>3. CASE /\ AddCommit(MergedTree(t, s), ancestors, carries[t] \cup carries[s])
             /\ job' = [job EXCEPT ![a].to = made + 1, ![a].from = 0,
                                   ![a].squash = FALSE]
             /\ Goto(a, "mg_swap") /\ UNCHANGED mu
    <2>1. t \in Commits /\ s \in Commits /\ old \in 1..made /\ from \in 1..made
          /\ old \in Commits /\ from \in Commits
      <3>1. t \in Commits /\ s \in Commits
        BY <1>1, TreesOf
      <3>2. old \in 1..made /\ from \in 1..made /\ made \in Commits
        BY <1>1 DEF JobOK, TypeOK
      <3> QED
        BY <3>1, <3>2 DEF Commits
    <2>2. MergedTree(t, s) \in Tree
      BY <1>1, <2>1 DEF MergedTree, TypeOK, Tree
    <2>3. ancestors \in SUBSET Commits /\ carries[t] \cup carries[s] \in SUBSET Commits
          /\ anc[old] \subseteq ancestors
      BY <1>1, <2>1 DEF TypeOK
    <2> HIDE DEF ancestors
    <2>4. /\ made' \in Commits /\ made' = made + 1 /\ made + 1 \in Ref
          /\ tree' \in [Commits -> Tree]
          /\ anc' \in [Commits -> SUBSET Commits]
          /\ carries' \in [Commits -> SUBSET Commits]
          /\ \A c \in 1..made : anc'[c] = anc[c]
          /\ anc'[made + 1] = ancestors \cup {made + 1}
      BY <1>1, <1>3, <2>2, <2>3, AddCommitOK
    <2>5. made \in Nat
      BY <1>1 DEF TypeOK, Commits
    <2>6. j \in Job /\ j.b = job[a].b /\ j.src = job[a].src /\ j.op = job[a].op
          /\ j.then = job[a].then /\ j.todo = job[a].todo
          /\ j.old = old /\ j.to = made + 1
      <3>1. made + 1 \in Ref /\ 0 \in Ref
        BY <2>4 DEF Ref
      <3> QED
        BY <1>1, <3>1 DEF Job
    <2>7. job' = [job EXCEPT ![a] = j]
      BY <1>1, <1>3 DEF TypeOK
    <2> HIDE DEF j
    <2>8. /\ job' \in [Actor -> Job] /\ job'[a] = j
          /\ pc' \in [Actor -> Steps] /\ pc'[a] = "mg_swap"
          /\ \A c \in Actor \ {a} : pc'[c] = pc[c] /\ job'[c] = job[c]
      <3>1. pc' = [pc EXCEPT ![a] = "mg_swap"]
        BY <1>3 DEF Goto
      <3> QED
        BY <1>1, <2>6, <2>7, <3>1 DEF TypeOK, Steps
    <2>9. TypeOK'
      BY <1>1, <1>3, <2>4, <2>8, TrackType DEF TypeOK
    <2>10. \A c \in Branch : Exists(c) => Exists(c)'
      BY <1>1 DEF Exists
    <2>11. RefsOK'
      <3>1. \A c \in Branch : head[c] <= made' /\ origin[c] <= made'
                                               /\ upstream[c] <= made'
        <4>1. \A c \in Branch : /\ head[c] \in Int /\ origin[c] \in Int
                                /\ upstream[c] \in Int
          BY <1>1 DEF TypeOK, Ref
        <4> QED
          BY <2>4, <2>5, <4>1 DEF IInv, RefsOK
      <3> QED
        BY <1>1, <2>10, <3>1 DEF IInv, RefsOK
    <2>12. \A c \in Actor \ {a} : pc[c] \notin Locked
      BY <1>1 DEF IInv, LockOK
    <2>13. LockOK'
      BY <1>1, <1>3, <2>8, <2>12 DEF LockOK, Locked
    <2>14. \A c \in Actor : JobOK(c)'
      <3>1. JobOK(a)'
        <4>1. old \in 1..made' /\ made + 1 \in 1..made'
          BY <2>1, <2>4, <2>5
        <4>2. job[a].op = "merge" /\ (job[a].then => job[a].src \in Claimed)
              /\ \A x \in Branch : job[a].todo[x] # 0 => Exists(x)
          BY <1>1 DEF JobOK
        <4> QED
          BY <1>1, <2>6, <2>8, <2>10, <4>1, <4>2 DEF JobOK
      <3> QED
        BY <1>1, <2>4, <2>5, <2>8, <2>9, <2>10, <3>1, OthersJobOK DEF IInv
    <2>15. MergeOnTop'
      BY <2>1, <2>3, <2>4, <2>6, <2>8, <2>12 DEF Locked, MergeOnTop
    <2>16. SyncInPlace' /\ WorktreeFollowsHead'
      BY <1>1, <2>8, <2>12 DEF IInv, Locked, SyncInPlace, WorktreeFollowsHead
    <2> QED
      BY <2>9, <2>11, <2>13, <2>14, <2>15, <2>16 DEF IInv
  <1> QED
    BY <1>2, <1>3 DEF MgTree

-----------------------------------------------------------------------------
(* The theorems                                                            *)

\* Every action of the git layer preserves the inductive invariant.
LEMMA NextIInv == IInv /\ [Next]_vars => IInv'
  <1> SUFFICES ASSUME IInv, [Next]_vars PROVE IInv'
    OBVIOUS
  <1>1. ASSUME NEW a \in Actor, Begin(a) PROVE IInv'
    <2>1. CASE \E b \in Branch : StartWorkspace(a, b)
      BY <2>1, StartWorkspaceStep
    <2>2. CASE \E strategy \in {"merge", "squash"} \cap Serves[a], t, s \in Branch :
                  StartMerge(a, t, s, strategy = "squash")
      <3> PICK strategy \in {"merge", "squash"} \cap Serves[a], t, s \in Branch :
                 StartMerge(a, t, s, strategy = "squash")
        BY <2>2
      <3>1. (strategy = "squash") \in BOOLEAN
        OBVIOUS
      <3> QED
        BY <3>1, StartMergeStep
    <2>3. CASE \E b \in Branch : Exists(b) /\ StartPull(a, {b})
      BY <2>3, StartPullStep
    <2>4. CASE StartPull(a, Branch)
      BY <2>4, StartPullStep
    <2> QED
      BY <1>1, <2>1, <2>2, <2>3, <2>4 DEF Begin
  <1>2. ASSUME NEW a \in Actor, Step(a) PROVE IInv'
    BY <1>2, WsBaseStep, WsCreateStep, WsCountStep, WsDirtyStep, FfCheckStep,
       FfLockStep, FfSwapStep, SyncStep, MgStatusStep, MgCheckStep, MgLockStep,
       MgTreeStep, MgSwapStep, FfNextStep DEF Step
  <1>3. ASSUME NEW b \in Branch, UserWrite(b) PROVE IInv'
    <2>1. CASE \E paths \in (SUBSET Path) \ {{}} : Commit(b, paths)
      BY <2>1, CommitStep
    <2>2. CASE \E from \in Branch : CreateBranch(b, from)
      BY <2>2, CreateBranchStep
    <2> QED
      BY <1>3, <2>1, <2>2, UserFileStep DEF UserWrite
  <1>4. ASSUME NEW b \in Branch, Outside(b) PROVE IInv'
    BY <1>4, UpstreamCommitStep, PushStep, EvictWorktreeStep DEF Outside
  <1>5. CASE UNCHANGED vars
    <2> USE <1>5 DEF vars
    <2>1. TypeOK' /\ RefsOK' /\ LockOK' /\ MergeOnTop' /\ SyncInPlace'
          /\ WorktreeFollowsHead'
      BY DEF IInv, TypeOK, RefsOK, Exists, LockOK, MergeOnTop, SyncInPlace,
             WorktreeFollowsHead
    <2>2. made <= made' /\ \A b \in Branch : Exists(b) => Exists(b)'
      BY DEF IInv, TypeOK, Commits, Exists
    <2>3. \A a \in Actor : JobOK(a)'
      BY <2>1, <2>2, OthersJobOK DEF IInv
    <2> QED
      BY <2>1, <2>3 DEF IInv
  <1> QED
    BY <1>1, <1>2, <1>3, <1>4, <1>5, CrashStep DEF Next

\* In every reachable state of the git layer the inductive invariant holds:
\* r.mu is held by exactly the actor in a critical section, the locals of
\* every handler name commits and branches that exist, and a commit about to
\* land descends from the target it was computed on.
THEOREM Invariance == Spec => []IInv
  <1>1. Init => IInv
    BY InitIInv
  <1>2. IInv /\ [Next]_vars => IInv'
    BY NextIInv
  <1> QED
    BY <1>1, <1>2, PTL DEF Spec

\* Every variable of the git layer keeps its type: no handler writes a ref or
\* an index that names no commit object.
THEOREM TypeCorrect == Spec => []TypeOK
  <1>1. IInv => TypeOK
    BY DEF IInv
  <1> QED
    BY <1>1, Invariance, PTL

\* However requests, pulls and the sync loop interleave, a worktree's index is
\* built on its branch's head except between update-ref and reset --hard, or
\* after a crash.
THEOREM WorktreeFollows == Spec => []WorktreeFollowsHead
  <1>1. IInv => WorktreeFollowsHead
    BY DEF IInv
  <1> QED
    BY <1>1, Invariance, PTL

\* A step on behalf of one actor moves no other.
LEMMA OwnStep ==
    ASSUME TypeOK, NEW c \in Actor, NEW a \in Actor \ {c}, Begin(c) \/ Step(c)
    PROVE  pc'[a] = pc[a] /\ job'[a] = job[a]
  <1>1. CASE Begin(c)
    BY <1>1 DEF Begin, StartWorkspace, StartMerge, StartPull, Start, TypeOK
  <1>2. CASE WsBase(c) \/ WsCreate(c) \/ WsCount(c) \/ WsDirty(c)
    BY <1>2 DEF WsBase, WsCreate, WsCount, WsDirty, Goto, Finish, TypeOK
  <1>3. CASE FfCheck(c) \/ FfLock(c) \/ FfSwap(c)
    BY <1>3 DEF FfCheck, FfLock, FfSwap, Swap, Return, Goto, Finish, TypeOK
  <1>4. CASE Sync(c)
    BY <1>4 DEF Sync, Return, Goto, Finish, TypeOK
  <1>5. CASE MgStatus(c) \/ MgCheck(c) \/ MgLock(c)
    BY <1>5 DEF MgStatus, MgCheck, MgLock, Goto, Finish, TypeOK
  <1>6. CASE MgTree(c) \/ MgSwap(c)
    BY <1>6 DEF MgTree, MgSwap, Swap, Abort, Goto, Finish, TypeOK
  <1>7. CASE \E b \in Branch : FfNext(c, b)
    BY <1>7 DEF FfNext, Goto, Finish, TypeOK
  <1> QED
    BY <1>1, <1>2, <1>3, <1>4, <1>5, <1>6, <1>7 DEF Step

\* Users, the remote and the janitor move no request.
LEMMA OthersMoveNoRequest ==
    ASSUME NEW b \in Branch, UserWrite(b) \/ Outside(b)
    PROVE  pc' = pc /\ job' = job
  BY DEF UserWrite, Outside, SaveFile, DeleteFile, MoveFile, Discard, FileWrite,
         Commit, CreateBranch, UpstreamCommit, Push, EvictWorktree, jobVars

\* From its swap to its reset an actor gets by Swap alone.
LEMMA MergeLandsBySwap ==
    ASSUME TypeOK, NEW a \in Actor, [Next]_vars,
           pc[a] = "mg_swap", pc'[a] = "sync"
    PROVE  Swap(a)
  <1>1. ASSUME NEW c \in Actor, Begin(c) \/ Step(c) PROVE Swap(a)
    <2>1. c = a
      BY <1>1, OwnStep
    <2>2. ~Begin(a)
      BY DEF Begin, StartWorkspace, StartMerge, StartPull, Start
    <2>3. MgSwap(a)
      BY <1>1, <2>1, <2>2 DEF Step, WsBase, WsCreate, WsCount, WsDirty, FfCheck,
         FfLock, FfSwap, Sync, MgStatus, MgCheck, MgLock, MgTree, FfNext
    <2> QED
      BY <2>3 DEF MgSwap, Abort, Finish, TypeOK
  <1>2. ~Crash
    BY DEF Crash
  <1>3. ~UNCHANGED vars
    BY DEF vars
  <1> QED
    BY <1>1, <1>2, <1>3, OthersMoveNoRequest DEF Next

\* Merge's compare-and-swap never drops a commit of the target, whoever
\* commits to it between the merge's read of its head and its update-ref.
THEOREM MergeLands == Spec => MergeKeepsTarget
  <1> DEFINE Keeps ==
        \A a \in Actor :
          pc[a] = "mg_swap" /\ pc'[a] = "sync" =>
             LET b == job[a].b IN anc[head[b]] \subseteq anc'[head'[b]]
  <1>1. IInv /\ [Next]_vars => [Keeps]_vars
    <2> SUFFICES ASSUME IInv, [Next]_vars, NEW a \in Actor,
                        pc[a] = "mg_swap", pc'[a] = "sync"
                 PROVE  anc[head[job[a].b]] \subseteq anc'[head'[job[a].b]]
      OBVIOUS
    <2>1. Swap(a) /\ TypeOK /\ JobOK(a)
      BY MergeLandsBySwap DEF IInv
    <2>2. job[a].b \in Branch /\ job[a].to = job'[a].to
          /\ head[job[a].b] = job[a].old /\ anc' = anc
          /\ head'[job[a].b] = job[a].to
      BY <2>1 DEF Swap, StillCurrent, TypeOK, Job, repoVars
    <2> QED
      BY <2>2 DEF IInv, MergeOnTop
  <1> QED
    BY <1>1, Invariance, PTL DEF Spec, MergeKeepsTarget

\* A protected branch that exists is moved only by landing a merge, by
\* following origin or, when it carries a claim, by the reset after a merge it
\* was the source of, all by compare-and-swap under r.mu: Commit and opening a
\* workspace refuse it, and reset --hard finds it where the swap left it.
THEOREM ProtectedMoves == Spec => ProtectedMovesBySwap
  <1> DEFINE BySwap(b) ==
        \E a \in Actor :
           /\ job[a].b = b /\ mu = a
           /\ \/ pc[a] = "mg_swap"
              \/ pc[a] = "ff_swap" /\ job[a].op = "pull"
              \/ pc[a] = "ff_swap" /\ job[a].op = "merge" /\ b \in Claimed
           /\ head'[b] = job[a].to
  <1>1. ASSUME IInv, [Next]_vars, NEW b \in Protected, Exists(b), head'[b] # head[b]
        PROVE  BySwap(b)
    <2>1. b \in Branch /\ TypeOK
      BY <1>1 DEF IInv
    <2>2. ASSUME NEW a \in Actor, Step(a) PROVE BySwap(b)
      <3>1. CASE Swap(a) /\ pc[a] \in {"mg_swap", "ff_swap"}
        <4>1. head' = [head EXCEPT ![job[a].b] = job[a].to] /\ job[a].b \in Branch
          BY <2>1, <3>1 DEF Swap, TypeOK, Job
        <4>2. job[a].b = b /\ head'[b] = job[a].to
          BY <1>1, <2>1, <4>1 DEF TypeOK
        <4>3. mu = a
          BY <1>1, <3>1 DEF IInv, LockOK, Locked
        <4>4. pc[a] = "ff_swap" =>
                job[a].op = "pull" \/ (job[a].op = "merge" /\ b \in Claimed)
          <5>1. JobOK(a) /\ job[a] \in Job
            BY <1>1 DEF IInv, TypeOK
          <5>2. job[a].op \in {"none", "workspace", "merge", "pull"}
            BY <5>1 DEF Job
          <5> QED
            BY <1>1, <4>2, <5>1, <5>2 DEF JobOK
        <4> QED
          BY <3>1, <4>2, <4>3, <4>4
      <3>2. CASE Sync(a)
        <4>1. pc[a] = "sync" /\ SyncWorktree(job[a].b, job[a].to)
          BY <3>2 DEF Sync
        <4>2. job[a].b = b => head[b] = job[a].to
          BY <1>1, <4>1 DEF IInv, SyncInPlace
        <4>3. head'[b] = head[b]
          BY <2>1, <4>1, <4>2 DEF SyncWorktree, TypeOK
        <4> QED
          BY <1>1, <4>3
      <3>3. CASE WsCreate(a)
        BY <1>1, <2>1, <3>3 DEF WsCreate, Exists, TypeOK
      <3>4. CASE WsBase(a) \/ WsCount(a) \/ WsDirty(a) \/ FfCheck(a) \/ FfLock(a)
                 \/ MgCheck(a) \/ MgLock(a) \/ \E x \in Branch : FfNext(a, x)
        BY <1>1, <3>4 DEF WsBase, WsCount, WsDirty, FfCheck, FfLock, MgCheck,
           MgLock, FfNext, NoWrite, refVars
      <3>5. CASE MgStatus(a) \/ MgTree(a)
        BY <1>1, <3>5 DEF MgStatus, MgTree, refVars
      <3>6. CASE FfSwap(a) \/ MgSwap(a)
        BY <1>1, <3>1, <3>6 DEF FfSwap, MgSwap, NoWrite, refVars
      <3> QED
        BY <2>2, <3>2, <3>3, <3>4, <3>5, <3>6 DEF Step
    <2>3. ASSUME NEW a \in Actor, Begin(a) PROVE FALSE
      BY <1>1, <2>3 DEF Begin, StartWorkspace, StartMerge, StartPull, NoWrite, refVars
    <2>4. ASSUME NEW x \in Branch, UserWrite(x) PROVE FALSE
      <3>1. CASE \E paths \in (SUBSET Path) \ {{}} : Commit(x, paths)
        <4>1. x \notin Protected /\ head' = [head EXCEPT ![x] = made + 1]
          BY <3>1 DEF Commit, Writable
        <4> QED
          BY <1>1, <2>1, <4>1 DEF TypeOK
      <3>2. CASE \E from \in Branch : CreateBranch(x, from)
        BY <1>1, <2>1, <3>2 DEF CreateBranch, Exists, TypeOK
      <3>3. CASE \/ \E p \in Path, s \in Content \cup {None}, v \in Content :
                       SaveFile(x, p, s, v)
                 \/ \E p \in Path : DeleteFile(x, p)
                 \/ \E p, q \in Path : MoveFile(x, p, q)
                 \/ \E paths \in (SUBSET Path) \ {{}} : Discard(x, paths)
        BY <1>1, <3>3 DEF SaveFile, DeleteFile, MoveFile, Discard, FileWrite, refVars
      <3> QED
        BY <2>4, <3>1, <3>2, <3>3 DEF UserWrite
    <2>5. ASSUME NEW x \in Branch, Outside(x) PROVE FALSE
      BY <1>1, <2>5 DEF Outside, UpstreamCommit, Push, EvictWorktree, refVars
    <2>6. ~Crash /\ ~UNCHANGED vars
      BY <1>1 DEF Crash, vars, refVars
    <2> QED
      BY <1>1, <2>2, <2>3, <2>4, <2>5, <2>6 DEF Next
  <1>2. IInv /\ [Next]_vars =>
          [\A b \in Protected : Exists(b) /\ head'[b] # head[b] => BySwap(b)]_vars
    BY <1>1
  <1> QED
    BY <1>2, Invariance, PTL DEF Spec, ProtectedMovesBySwap

-----------------------------------------------------------------------------
(* What nobody overtook loses nothing: the inductive invariant             *)

\* The object store only grows.
Grows ==
    /\ made <= made'
    /\ \A c \in 1..made : tree'[c] = tree[c] /\ anc'[c] = anc[c]
                                             /\ carries'[c] = carries[c]

\* A step leaves branch b alone: at most a worktree without changes is taken
\* away, or one is added at the branch's head.
LeavesAlone(b) ==
    /\ head'[b] = head[b]
    /\ \/ /\ wt'[b] = wt[b] /\ base'[b] = base[b]
          /\ work'[b] = work[b] /\ index'[b] = index[b]
       \/ ~wt'[b]
       \/ /\ wt'[b] /\ base'[b] = head[b]
          /\ work'[b] = tree[head[b]] /\ index'[b] = tree[head[b]]
          /\ ~wt[b]

LEMMA KeepTypes ==
    ASSUME KeepIInv
    PROVE  /\ IInv /\ TypeOK /\ RefsOK /\ HistoryOK /\ BasesOK
           /\ made \in Nat /\ 1..made \subseteq Commits
           /\ \A a \in Actor : JobOK(a) /\ KeepsOK(a) /\ job[a] \in Job
                               /\ job[a].b \in Branch /\ job[a].src \in Branch
                               /\ job[a].todo \in [Branch -> Ref]
           /\ \A b \in Branch : Exists(b) => head[b] \in 1..made
  <1>1. IInv /\ TypeOK /\ RefsOK /\ HistoryOK /\ BasesOK
    BY DEF KeepIInv, IInv
  <1>2. made \in Nat /\ 1..made \subseteq Commits
    BY <1>1 DEF TypeOK, Commits
  <1>3. \A a \in Actor : JobOK(a) /\ KeepsOK(a) /\ job[a] \in Job
    BY <1>1 DEF KeepIInv, IInv, TypeOK
  <1>4. \A a \in Actor : job[a].b \in Branch /\ job[a].src \in Branch
                         /\ job[a].todo \in [Branch -> Ref]
    BY <1>3 DEF Job
  <1>5. \A b \in Branch : Exists(b) => head[b] \in 1..made
    BY <1>1, HeadIsCommit
  <1> QED
    BY <1>1, <1>2, <1>3, <1>4, <1>5

\* A new commit carries what its ancestors carry when it is made of them.
LEMMA HistoryStep ==
    ASSUME KeepIInv, NEW t \in Tree, NEW as \in SUBSET (1..made), NEW cs,
           AddCommit(t, as, cs), \A c \in as : carries[c] \subseteq cs,
           \A c \in as : anc[c] \subseteq 1..made
    PROVE  HistoryOK' /\ Grows
  <1>1. made \in Nat /\ TypeOK /\ HistoryOK
    BY KeepTypes
  <1>2. made' = made + 1 /\ made + 1 \in Commits
    BY <1>1 DEF AddCommit, TypeOK, Commits
  <1>3. /\ tree' = [tree EXCEPT ![made + 1] = t]
        /\ anc' = [anc EXCEPT ![made + 1] = as \cup {made + 1}]
        /\ carries' = [carries EXCEPT ![made + 1] = cs \cup {made + 1}]
    BY DEF AddCommit
  <1>4. \A c \in 1..made : c \in Commits /\ c # made + 1
    BY <1>1 DEF TypeOK, Commits
  <1>5. Grows
    BY <1>1, <1>2, <1>3, <1>4 DEF Grows, TypeOK
  <1>6. anc'[made + 1] = as \cup {made + 1} /\ carries'[made + 1] = cs \cup {made + 1}
    BY <1>1, <1>2, <1>3 DEF TypeOK
  <1>7. ASSUME NEW d \in 1..made'
        PROVE  /\ d \in anc'[d] /\ anc'[d] \subseteq 1..made'
               /\ \A c \in anc'[d] : carries'[c] \subseteq carries'[d]
    <2>1. CASE d \in 1..made
      <3>1. anc'[d] = anc[d] /\ carries'[d] = carries[d]
        BY <1>5, <2>1 DEF Grows
      <3>2. d \in anc[d] /\ anc[d] \subseteq 1..made
            /\ \A c \in anc[d] : carries[c] \subseteq carries[d]
        BY <1>1, <2>1 DEF HistoryOK
      <3>3. \A c \in anc[d] : carries'[c] = carries[c]
        BY <1>5, <3>2 DEF Grows
      <3>4. 1..made \subseteq 1..made'
        BY <1>1, <1>2
      <3> QED
        BY <3>1, <3>2, <3>3, <3>4
    <2>2. CASE d = made + 1
      <3>1. as \subseteq 1..made' /\ d \in 1..made'
        <4>1. 1..made \subseteq 1..made' /\ d \in 1..made'
          BY <1>1, <1>2, <2>2
        <4> QED
          BY <4>1
      <3>2. \A c \in as : carries'[c] = carries[c]
        BY <1>5 DEF Grows
      <3> QED
        BY <1>6, <2>2, <3>1, <3>2
    <2> QED
      BY <1>1, <1>2, <2>1, <2>2
  <1> QED
    BY <1>5, <1>7 DEF HistoryOK

LEMMA HistoryKept ==
    ASSUME KeepIInv, UNCHANGED repoVars
    PROVE  HistoryOK' /\ Grows
  <1>1. made \in Nat /\ HistoryOK
    BY KeepTypes
  <1> QED
    BY <1>1 DEF HistoryOK, Grows, repoVars

\* What a job that was not overtaken learnt outlives the steps of others.
LEMMA OthersKeep ==
    ASSUME KeepIInv, Grows, NEW bs \in SUBSET Branch,
           \A b \in Branch \ bs : LeavesAlone(b),
           NEW a \in Actor, pc'[a] = pc[a], job'[a] = job[a],
           pc[a] # "idle" /\ ~raced'[a] =>
              ~raced[a] /\ job[a].uses \cap bs = {},
           pc[a] = "mg_tree" =>
              \A b \in bs : Exists(b) => carries[head[b]] \subseteq carries'[head'[b]]
    PROVE  KeepsOK(a)'
  <1> DEFINE j == job[a]
  <1>1. /\ TypeOK /\ RefsOK /\ HistoryOK /\ BasesOK /\ made \in Nat
        /\ JobOK(a) /\ KeepsOK(a) /\ j \in Job /\ j.b \in Branch /\ j.src \in Branch
        /\ j.todo \in [Branch -> Ref]
        /\ \A b \in Branch : Exists(b) => head[b] \in 1..made
    BY KeepTypes
  <1>2. GrownSince(a)'
    <2> SUFFICES ASSUME pc[a] = "mg_tree"
                 PROVE  /\ carries'[j.old] \subseteq carries'[head'[j.b]]
                        /\ carries'[j.from] \subseteq carries'[head'[j.src]]
      BY DEF GrownSince
    <2>1. j.old \in 1..made /\ j.from \in 1..made /\ Exists(j.b) /\ Exists(j.src)
      BY <1>1 DEF JobOK
    <2>2. carries'[j.old] = carries[j.old] /\ carries'[j.from] = carries[j.from]
      BY <2>1 DEF Grows
    <2>3. ASSUME NEW b \in Branch, Exists(b)
          PROVE  carries[head[b]] \subseteq carries'[head'[b]]
      <3>1. CASE b \in bs
        BY <2>3, <3>1
      <3>2. CASE b \notin bs
        BY <1>1, <2>3, <3>2 DEF Grows, LeavesAlone
      <3> QED
        BY <3>1, <3>2
    <2>4. /\ carries[j.old] \subseteq carries[head[j.b]]
          /\ carries[j.from] \subseteq carries[head[j.src]]
      BY <1>1 DEF KeepsOK, GrownSince
    <2>5. /\ carries[head[j.b]] \subseteq carries'[head'[j.b]]
          /\ carries[head[j.src]] \subseteq carries'[head'[j.src]]
      BY <1>1, <2>1, <2>3
    <2> QED
      BY <2>2, <2>4, <2>5
  <1>3. ASSUME pc[a] # "idle" PROVE UsesOK(a)'
    BY <1>1, <1>3 DEF KeepsOK, UsesOK
  <1>4. ASSUME pc[a] # "idle", ~raced'[a] PROVE Current(a)'
    <2>1. Current(a) /\ UsesOK(a) /\ j.uses \cap bs = {}
      BY <1>1, <1>4 DEF KeepsOK
    <2>2. \A b \in Branch : b \in j.uses => LeavesAlone(b)
      BY <2>1
    <2>3. ASSUME NEW b \in Branch, b \in j.uses, Exists(b)
          PROVE  /\ head'[b] = head[b] /\ carries'[head'[b]] = carries[head[b]]
                 /\ CleanAt(b, head[b]) => CleanAt(b, head[b])'
                 /\ CleanAt(b, base[b]) => CleanAt(b, base[b])'
      <3>1. LeavesAlone(b) /\ head[b] \in 1..made
        BY <1>1, <2>2, <2>3
      <3>2. wt[b] => base[b] \in 1..made
        BY <1>1 DEF BasesOK
      <3>3. tree'[head[b]] = tree[head[b]] /\ carries'[head[b]] = carries[head[b]]
            /\ (wt[b] => tree'[base[b]] = tree[base[b]])
        BY <3>1, <3>2 DEF Grows
      <3> QED
        BY <3>1, <3>3 DEF LeavesAlone, CleanAt
    <2>4. pc[a] = "ws_count" => job'[a].to = head'[Default]
      <3>1. pc[a] = "ws_count" => Default \in j.uses /\ Exists(Default)
        BY <1>1, <2>1 DEF JobOK, UsesOK, RefsOK
      <3> QED
        BY <2>1, <2>3, <3>1 DEF Current
    <2>5. ASSUME pc[a] \in {"ws_dirty", "ff_check", "ff_lock", "ff_swap",
                            "mg_swap", "sync"}
          PROVE  carries'[head'[j.b]] \subseteq carries'[j.to]
      <3>1. j.to \in 1..made /\ Exists(j.b) /\ j.b \in j.uses
        BY <1>1, <2>1, <2>5 DEF JobOK, UsesOK
      <3>2. carries'[j.to] = carries[j.to]
        BY <3>1 DEF Grows
      <3> QED
        BY <1>1, <2>1, <2>3, <2>5, <3>1, <3>2 DEF Current
    <2>6. ASSUME pc[a] \in {"mg_swap", "sync"}, j.then
          PROVE  carries'[head'[j.src]] \subseteq carries'[j.to]
      <3>1. j.to \in 1..made /\ Exists(j.src) /\ j.src \in j.uses
        BY <1>1, <2>1, <2>6 DEF JobOK, UsesOK
      <3>2. carries'[j.to] = carries[j.to]
        BY <3>1 DEF Grows
      <3> QED
        BY <1>1, <2>1, <2>3, <2>6, <3>1, <3>2 DEF Current
    <2>7. ASSUME NEW b \in Branch, j.todo[b] # 0 PROVE j.todo[b] = head'[b]
      <3>1. b \in j.uses /\ Exists(b) /\ j.todo[b] = head[b]
        BY <1>1, <2>1, <2>7 DEF JobOK, UsesOK, Current
      <3> QED
        BY <2>3, <3>1
    <2>8. ASSUME pc[a] \in {"ff_lock", "ff_swap", "mg_lock", "mg_tree", "mg_swap"}
          PROVE  CleanAt(j.b, head[j.b])'
      <3>1. Exists(j.b) /\ j.b \in j.uses /\ CleanAt(j.b, head[j.b])
        BY <1>1, <2>1, <2>8 DEF JobOK, UsesOK, Current
      <3> QED
        BY <1>1, <2>3, <3>1
    <2>9. ASSUME pc[a] = "sync" PROVE CleanAt(j.b, base[j.b])'
      <3>1. Exists(j.b) /\ j.b \in j.uses /\ CleanAt(j.b, base[j.b])
        BY <1>1, <2>1, <2>9 DEF JobOK, UsesOK, Current
      <3> QED
        BY <1>1, <2>3, <3>1
    <2> QED
      BY <2>4, <2>5, <2>6, <2>7, <2>8, <2>9 DEF Current, CleanAt
  <1> QED
    BY <1>2, <1>3, <1>4 DEF KeepsOK

\* What one step has to show: its own actor's part, and what it leaves alone.
LEMMA KeepStep ==
    ASSUME KeepIInv, IInv', NEW self, NEW bs \in SUBSET Branch,
           HistoryOK', Grows, BasesOK',
           \A b \in Branch \ bs : LeavesAlone(b),
           \A a \in Actor \ {self} :
              /\ pc'[a] = pc[a] /\ job'[a] = job[a]
              /\ pc[a] # "idle" /\ ~raced'[a] =>
                    ~raced[a] /\ job[a].uses \cap bs = {}
              /\ pc[a] = "mg_tree" =>
                    \A b \in bs : Exists(b) =>
                        carries[head[b]] \subseteq carries'[head'[b]],
           self \in Actor => KeepsOK(self)'
    PROVE  KeepIInv'
  <1>1. ASSUME NEW a \in Actor \ {self} PROVE KeepsOK(a)'
    BY <1>1, OthersKeep
  <1> QED
    BY <1>1 DEF KeepIInv

\* ... when it writes no branch.
LEMMA KeepAside ==
    ASSUME KeepIInv, IInv', NEW self, HistoryOK', Grows, BasesOK',
           \A b \in Branch : LeavesAlone(b),
           \A a \in Actor \ {self} :
              /\ pc'[a] = pc[a] /\ job'[a] = job[a]
              /\ pc[a] # "idle" /\ ~raced'[a] => ~raced[a],
           self \in Actor => KeepsOK(self)'
    PROVE  KeepIInv'
  <1> DEFINE bs == {}
  <1>1. bs \in SUBSET Branch /\ \A b \in Branch \ bs : LeavesAlone(b)
    OBVIOUS
  <1>2. \A a \in Actor : /\ job[a].uses \cap bs = {}
                         /\ \A b \in bs : Exists(b) =>
                              carries[head[b]] \subseteq carries'[head'[b]]
    OBVIOUS
  <1> HIDE DEF bs
  <1> QED
    BY <1>1, <1>2, KeepStep

\* ... when it writes one.
LEMMA KeepOn ==
    ASSUME KeepIInv, IInv', NEW self, NEW b \in Branch, HistoryOK', Grows, BasesOK',
           \A c \in Branch \ {b} : LeavesAlone(c),
           \A a \in Actor \ {self} : pc'[a] = pc[a] /\ job'[a] = job[a],
           \A a \in Actor \ {self} :
              pc[a] # "idle" /\ ~raced'[a] => ~raced[a] /\ job[a].uses \cap {b} = {},
           \/ Exists(b) => carries[head[b]] \subseteq carries'[head'[b]]
           \/ \A a \in Actor \ {self} : pc[a] # "mg_tree",
           self \in Actor => KeepsOK(self)'
    PROVE  KeepIInv'
  <1> DEFINE bs == {b}
  <1>1. bs \in SUBSET Branch /\ \A c \in Branch \ bs : LeavesAlone(c)
    OBVIOUS
  <1>2. \A a \in Actor \ {self} :
          /\ pc[a] # "idle" /\ ~raced'[a] => ~raced[a] /\ job[a].uses \cap bs = {}
          /\ pc[a] = "mg_tree" =>
                \A c \in bs : Exists(c) => carries[head[c]] \subseteq carries'[head'[c]]
    OBVIOUS
  <1> HIDE DEF bs
  <1> QED
    BY <1>1, <1>2, KeepStep

LEMMA TrackKeeps ==
    ASSUME TypeOK, NEW self, NEW bs, Track(self, bs),
           \A a \in Actor \ {self} : pc'[a] = pc[a]
    PROVE  /\ \A a \in Actor \ {self} :
                pc[a] # "idle" /\ ~raced'[a] => ~raced[a] /\ job[a].uses \cap bs = {}
           /\ self \in Actor /\ pc'[self] # "idle" => raced'[self] = raced[self]
  BY DEF Track, TypeOK

-----------------------------------------------------------------------------
(* ... and the steps that keep it                                          *)

LEMMA InitKeep == Init => KeepIInv
  <1> SUFFICES ASSUME Init PROVE KeepIInv
    OBVIOUS
  <1>1. IInv
    BY InitIInv
  <1>2. HistoryOK
    <2>1. 1 \in Commits /\ made = 1
      BY DEF Init, Commits
    <2>2. anc[1] = {1} /\ carries[1] = {1}
      BY <2>1 DEF Init
    <2> QED
      BY <2>1, <2>2 DEF HistoryOK
  <1>3. BasesOK
    BY DEF Init, BasesOK
  <1>4. \A a \in Actor : KeepsOK(a)
    BY DEF Init, KeepsOK, GrownSince
  <1> QED
    BY <1>1, <1>2, <1>3, <1>4 DEF KeepIInv

\* Writes to the files of a worktree.
LEMMA KeepFileWrite ==
    ASSUME KeepIInv, IInv', NEW b \in Branch, NEW files, NEW idx,
           FileWrite(b, files, idx)
    PROVE  KeepIInv'
  <1>1. /\ TypeOK /\ BasesOK /\ made \in Nat
        /\ \A c \in Branch : Exists(c) => head[c] \in 1..made
    BY KeepTypes
  <1>2. /\ SetWorktree(b, files, idx, BaseOf(b)) /\ Exists(b)
        /\ UNCHANGED <<made, tree, anc, carries, head, pc, job>>
        /\ Track(Nobody, {b})
    BY DEF FileWrite, Openable, repoVars, refVars
  <1>3. HistoryOK' /\ Grows
    BY <1>2, HistoryKept DEF repoVars
  <1>4. BasesOK'
    BY <1>1, <1>2 DEF SetWorktree, BaseOf, BasesOK, TypeOK
  <1>5. \A c \in Branch \ {b} : LeavesAlone(c)
    BY <1>1, <1>2 DEF SetWorktree, LeavesAlone, TypeOK
  <1>6. \A a \in Actor \ {Nobody} :
           pc[a] # "idle" /\ ~raced'[a] => ~raced[a] /\ job[a].uses \cap {b} = {}
    BY <1>1, <1>2, TrackKeeps
  <1>7. carries[head[b]] \subseteq carries'[head'[b]] /\ Nobody \notin Actor
    BY <1>2
  <1> QED
    BY <1>2, <1>3, <1>4, <1>5, <1>6, <1>7, KeepOn

LEMMA KeepCommit ==
    ASSUME KeepIInv, IInv', NEW b \in Branch, NEW paths \in SUBSET Path,
           Commit(b, paths)
    PROVE  KeepIInv'
  <1> DEFINE staged == [p \in Path |-> IF p \in paths THEN WorkOf(b)[p]
                                                       ELSE IndexOf(b)[p]]
             h == head[b]
  <1>1. /\ IInv /\ TypeOK /\ BasesOK /\ HistoryOK /\ made \in Nat
        /\ Exists(b) /\ h \in 1..made
    BY KeepTypes DEF Commit, Openable
  <1>2. staged \in Tree
    BY <1>1, TreesOf DEF Tree
  <1>3. /\ AddCommit(staged, anc[h], carries[h])
        /\ head' = [head EXCEPT ![b] = made + 1]
        /\ SetWorktree(b, WorkOf(b), staged, made + 1)
        /\ UNCHANGED <<pc, job>> /\ Track(Nobody, {b})
    BY DEF Commit
  <1> HIDE DEF staged
  <1>4. /\ anc[h] \in SUBSET (1..made)
        /\ \A c \in anc[h] : carries[c] \subseteq carries[h]
        /\ \A c \in anc[h] : anc[c] \subseteq 1..made
    BY <1>1 DEF HistoryOK
  <1>5. HistoryOK' /\ Grows
    BY <1>2, <1>3, <1>4, HistoryStep
  <1>6. made' = made + 1 /\ made + 1 \in Commits
        /\ carries'[made + 1] = carries[h] \cup {made + 1}
    BY <1>1, <1>3 DEF AddCommit, TypeOK, Commits
  <1>7. head'[b] = made + 1 /\ \A c \in Branch \ {b} : head'[c] = head[c]
    BY <1>1, <1>3 DEF TypeOK
  <1>8. BasesOK'
    BY <1>1, <1>3, <1>6 DEF SetWorktree, BasesOK, TypeOK
  <1>9. \A c \in Branch \ {b} : LeavesAlone(c)
    BY <1>1, <1>3, <1>7 DEF SetWorktree, LeavesAlone, TypeOK
  <1>10. \A a \in Actor \ {Nobody} :
           pc[a] # "idle" /\ ~raced'[a] => ~raced[a] /\ job[a].uses \cap {b} = {}
    BY <1>1, <1>3, TrackKeeps
  <1>11. carries[head[b]] \subseteq carries'[head'[b]] /\ Nobody \notin Actor
    BY <1>6, <1>7
  <1> QED
    BY <1>3, <1>5, <1>8, <1>9, <1>10, <1>11, KeepOn

LEMMA KeepCreateBranch ==
    ASSUME KeepIInv, IInv', NEW b \in Branch, NEW from \in Branch,
           CreateBranch(b, from)
    PROVE  KeepIInv'
  <1>1. TypeOK /\ BasesOK /\ made \in Nat
    BY KeepTypes
  <1>2. /\ head' = [head EXCEPT ![b] = head[from]] /\ mu = Free
        /\ UNCHANGED <<made, tree, anc, carries, wt, work, index, base, pc, job>>
        /\ Track(Nobody, {b})
    BY DEF CreateBranch, repoVars, wtVars
  <1>3. HistoryOK' /\ Grows
    BY <1>2, HistoryKept DEF repoVars
  <1>4. BasesOK'
    BY <1>1, <1>2 DEF BasesOK
  <1>5. \A c \in Branch \ {b} : LeavesAlone(c)
    BY <1>1, <1>2 DEF LeavesAlone, TypeOK
  <1>6. \A a \in Actor \ {Nobody} :
           pc[a] # "idle" /\ ~raced'[a] => ~raced[a] /\ job[a].uses \cap {b} = {}
    BY <1>1, <1>2, TrackKeeps
  <1>7. (\A a \in Actor : pc[a] # "mg_tree") /\ Nobody \notin Actor
    BY <1>2, KeepTypes DEF IInv, LockOK, Locked
  <1> QED
    BY <1>2, <1>3, <1>4, <1>5, <1>6, <1>7, KeepOn

\* The remote, its mirror and the janitor take nothing from a job.
LEMMA KeepOutside ==
    ASSUME KeepIInv, IInv', NEW b \in Branch, Outside(b)
    PROVE  KeepIInv'
  <1>1. TypeOK /\ BasesOK /\ RefsOK /\ HistoryOK /\ made \in Nat
    BY KeepTypes
  <1>5. Nobody \notin Actor
    OBVIOUS
  <1>2. CASE Push(b)
    <2>1. UNCHANGED <<made, tree, anc, carries, head, wt, work, index, base,
                      pc, job, raced>>
      BY <1>2 DEF Push, repoVars, wtVars, jobVars
    <2>2. HistoryOK' /\ Grows
      BY <2>1, HistoryKept DEF repoVars
    <2>3. BasesOK' /\ \A c \in Branch : LeavesAlone(c)
      BY <1>1, <2>1 DEF BasesOK, LeavesAlone
    <2> QED
      BY <1>5, <2>1, <2>2, <2>3, KeepAside
  <1>3. CASE EvictWorktree(b)
    <2>1. /\ UNCHANGED <<made, tree, anc, carries, head, pc, job, raced>>
          /\ wt' = [wt EXCEPT ![b] = FALSE]
          /\ work' = [work EXCEPT ![b] = NoFiles]
          /\ index' = [index EXCEPT ![b] = NoFiles]
          /\ base' = [base EXCEPT ![b] = 0]
      BY <1>3 DEF EvictWorktree, repoVars, refVars, jobVars
    <2>2. HistoryOK' /\ Grows
      BY <2>1, HistoryKept DEF repoVars
    <2>3. BasesOK' /\ \A c \in Branch : LeavesAlone(c)
      BY <1>1, <2>1 DEF BasesOK, LeavesAlone, TypeOK
    <2> QED
      BY <1>5, <2>1, <2>2, <2>3, KeepAside
  <1>4. CASE \E p \in Path, v \in Content : UpstreamCommit(b, p, v)
    <2> PICK p \in Path, v \in Content : UpstreamCommit(b, p, v)
      BY <1>4
    <2> DEFINE u == upstream[b]
    <2>1. u \in 1..made /\ u \in Commits
      BY <1>1 DEF UpstreamCommit, TypeOK, RefsOK, Ref, Commits
    <2>2. [tree[u] EXCEPT ![p] = v] \in Tree
      BY <1>1, <2>1 DEF TypeOK, Tree
    <2>3. /\ AddCommit([tree[u] EXCEPT ![p] = v], anc[u], carries[u])
          /\ UNCHANGED <<head, wt, work, index, base, pc, job, raced>>
      BY DEF UpstreamCommit, wtVars, jobVars
    <2>4. /\ anc[u] \in SUBSET (1..made)
          /\ \A c \in anc[u] : carries[c] \subseteq carries[u]
          /\ \A c \in anc[u] : anc[c] \subseteq 1..made
      BY <1>1, <2>1 DEF HistoryOK
    <2> HIDE DEF u
    <2>5. HistoryOK' /\ Grows
      BY <2>2, <2>3, <2>4, HistoryStep
    <2>6. BasesOK' /\ \A c \in Branch : LeavesAlone(c)
      BY <1>1, <2>3 DEF AddCommit, BasesOK, LeavesAlone
    <2> QED
      BY <1>5, <2>3, <2>5, <2>6, KeepAside
  <1> QED
    BY <1>2, <1>3, <1>4 DEF Outside

\* A crash leaves nobody who could rely on anything.
LEMMA KeepCrash ==
    ASSUME KeepIInv, IInv', Crash
    PROVE  KeepIInv'
  <1>1. /\ UNCHANGED <<made, tree, anc, carries, head, wt, work, index, base>>
        /\ \A a \in Actor : pc'[a] = "idle"
    BY DEF Crash, repoVars, refVars, wtVars
  <1>2. HistoryOK' /\ BasesOK'
    BY <1>1, HistoryKept DEF repoVars, KeepIInv, BasesOK
  <1>3. \A a \in Actor : KeepsOK(a)'
    BY <1>1 DEF KeepsOK, GrownSince
  <1> QED
    BY <1>2, <1>3 DEF KeepIInv

-----------------------------------------------------------------------------
\* A step of a request that writes nothing.
LEMMA KeepQuiet ==
    ASSUME KeepIInv, IInv', NEW a \in Actor, NoWrite(a),
           \A c \in Actor \ {a} : pc'[c] = pc[c] /\ job'[c] = job[c],
           pc'[a] # "idle" => UsesOK(a)' /\ (~raced[a] => Current(a)'),
           GrownSince(a)'
    PROVE  KeepIInv'
  <1>1. TypeOK /\ BasesOK
    BY KeepTypes
  <1>2. /\ UNCHANGED <<made, tree, anc, carries, head, wt, work, index, base>>
        /\ Track(a, {})
    BY DEF NoWrite, repoVars, refVars, wtVars
  <1>3. HistoryOK' /\ Grows
    BY <1>2, HistoryKept DEF repoVars
  <1>4. BasesOK' /\ \A b \in Branch : LeavesAlone(b)
    BY <1>1, <1>2 DEF BasesOK, LeavesAlone
  <1>5. /\ \A c \in Actor \ {a} : pc[c] # "idle" /\ ~raced'[c] => ~raced[c]
        /\ pc'[a] # "idle" => raced'[a] = raced[a]
    BY <1>1, <1>2, TrackKeeps
  <1>6. KeepsOK(a)'
    BY <1>5 DEF KeepsOK
  <1> QED
    BY <1>3, <1>4, <1>5, <1>6, KeepAside

\* The end of a request leaves nothing to rely on.
LEMMA FinishKeeps ==
    ASSUME TypeOK, NEW a \in Actor, Finish(a)
    PROVE  pc'[a] = "idle" /\ GrownSince(a)'
  BY FinishOK DEF GrownSince

\* Walking on, the locals as they were, keeps what concerns the branches.
LEMMA WalkKeeps ==
    ASSUME KeepIInv, NEW a \in Actor, pc[a] # "idle", NoWrite(a), job' = job,
           pc'[a] \notin {"mg_tree", "ws_count"},
           pc[a] = "ff_next" => pc'[a] = "ff_next",
           pc'[a] \in {"mg_status", "mg_check", "mg_lock"} =>
              pc[a] \in {"mg_status", "mg_check", "mg_lock"},
           ~raced[a] =>
              /\ pc'[a] \in {"ws_dirty", "ff_check", "ff_lock", "ff_swap",
                             "mg_swap", "sync"} =>
                    carries[head[job[a].b]] \subseteq carries[job[a].to]
              /\ pc'[a] \notin {"mg_swap", "sync"}
              /\ pc'[a] \in {"ff_lock", "ff_swap", "mg_lock"} =>
                    CleanAt(job[a].b, head[job[a].b])
    PROVE  /\ pc'[a] # "idle" => UsesOK(a)' /\ (~raced[a] => Current(a)')
           /\ GrownSince(a)'
  <1>1. KeepsOK(a)
    BY KeepTypes
  <1>2. UNCHANGED <<made, tree, anc, carries, head, wt, work, index, base>>
    BY DEF NoWrite, repoVars, refVars, wtVars
  <1>3. GrownSince(a)'
    BY DEF GrownSince
  <1>4. UsesOK(a)'
    BY <1>1 DEF KeepsOK, UsesOK
  <1>5. ~raced[a] => Current(a)'
    BY <1>1, <1>2 DEF KeepsOK, Current, CleanAt
  <1> QED
    BY <1>3, <1>4, <1>5

\* A fast-forward that comes back finds FFBranches at its loop, or is over.
LEMMA ReturnKeeps ==
    ASSUME KeepIInv, NEW a \in Actor, Return(a), NoWrite(a),
           pc[a] \in {"ff_check", "ff_lock", "ff_swap"}
    PROVE  /\ \A c \in Actor \ {a} : pc'[c] = pc[c] /\ job'[c] = job[c]
           /\ pc'[a] # "idle" => UsesOK(a)' /\ (~raced[a] => Current(a)')
           /\ GrownSince(a)'
  <1>1. TypeOK /\ JobOK(a) /\ KeepsOK(a)
    BY KeepTypes
  <1>2. CASE Finish(a)
    BY <1>1, <1>2, FinishKeeps, FinishOK
  <1>3. CASE job[a].op = "pull" /\ Goto(a, "ff_next") /\ UNCHANGED job
    <2>1. pc'[a] = "ff_next" /\ \A c \in Actor \ {a} : pc'[c] = pc[c]
      BY <1>1, <1>3 DEF Goto, TypeOK
    <2>2. ~job[a].then
      BY <1>1, NothingAfter
    <2>3. UNCHANGED head
      BY DEF NoWrite, refVars
    <2>4. UsesOK(a)'
      BY <1>1, <1>3, <2>1, <2>2 DEF KeepsOK, UsesOK
    <2>5. ~raced[a] => Current(a)'
      BY <1>1, <1>3, <2>1, <2>3 DEF KeepsOK, Current
    <2> QED
      BY <1>3, <2>1, <2>4, <2>5 DEF GrownSince
  <1> QED
    BY <1>2, <1>3 DEF Return

LEMMA KeepStartWorkspace ==
    ASSUME KeepIInv, IInv', NEW a \in Actor, NEW b \in Branch, StartWorkspace(a, b)
    PROVE  KeepIInv'
  <1> DEFINE j == [NoJob EXCEPT !.op = "workspace", !.b = b, !.uses = {b, Default}]
  <1>1. TypeOK
    BY KeepTypes
  <1>2. j.op = "workspace" /\ j.b = b /\ ~j.then /\ j.todo = NoTodo
        /\ j.uses = {b, Default}
    BY DEF NoJob
  <1> HIDE DEF j
  <1>3. pc' = [pc EXCEPT ![a] = "ws_base"] /\ job' = [job EXCEPT ![a] = j]
        /\ NoWrite(a)
    BY DEF StartWorkspace, Start, j
  <1>4. pc'[a] = "ws_base" /\ job'[a] = j
        /\ \A c \in Actor \ {a} : pc'[c] = pc[c] /\ job'[c] = job[c]
    BY <1>1, <1>3 DEF TypeOK
  <1>5. UsesOK(a)' /\ Current(a)' /\ GrownSince(a)'
    BY <1>2, <1>4 DEF UsesOK, Current, GrownSince, NoTodo
  <1> QED
    BY <1>3, <1>4, <1>5, KeepQuiet

LEMMA KeepStartMerge ==
    ASSUME KeepIInv, IInv', NEW a \in Actor, NEW t \in Branch, NEW s \in Branch,
           NEW squash \in BOOLEAN, StartMerge(a, t, s, squash)
    PROVE  KeepIInv'
  <1> DEFINE j == [NoJob EXCEPT !.op = "merge", !.b = t, !.src = s,
                                !.squash = squash, !.then = s \in Claimed,
                                !.uses = {t, s}]
  <1>1. TypeOK
    BY KeepTypes
  <1>2. j.op = "merge" /\ j.b = t /\ j.src = s /\ j.todo = NoTodo /\ j.uses = {t, s}
    BY DEF NoJob
  <1> HIDE DEF j
  <1>3. pc' = [pc EXCEPT ![a] = "mg_status"] /\ job' = [job EXCEPT ![a] = j]
        /\ NoWrite(a)
    BY DEF StartMerge, Start, j
  <1>4. pc'[a] = "mg_status" /\ job'[a] = j
        /\ \A c \in Actor \ {a} : pc'[c] = pc[c] /\ job'[c] = job[c]
    BY <1>1, <1>3 DEF TypeOK
  <1>5. UsesOK(a)' /\ Current(a)' /\ GrownSince(a)'
    BY <1>2, <1>4 DEF UsesOK, Current, GrownSince, NoTodo
  <1> QED
    BY <1>3, <1>4, <1>5, KeepQuiet

\* EnsureWorkspace reads the base ...
LEMMA KeepWsBase ==
    ASSUME KeepIInv, IInv', NEW a \in Actor, WsBase(a)
    PROVE  KeepIInv'
  <1> DEFINE j == [job[a] EXCEPT !.to = head[Default]]
  <1>1. TypeOK /\ JobOK(a) /\ KeepsOK(a) /\ job[a] \in Job
    BY KeepTypes
  <1>2. pc[a] = "ws_base" /\ NoWrite(a) /\ pc'[a] \in {"ws_count", "ws_create"}
        /\ job' = [job EXCEPT ![a] = j]
        /\ \A c \in Actor \ {a} : pc'[c] = pc[c]
    BY <1>1 DEF WsBase, Goto, TypeOK
  <1>3. j.op = job[a].op /\ j.b = job[a].b /\ j.src = job[a].src
        /\ j.then = job[a].then /\ j.todo = job[a].todo /\ j.uses = job[a].uses
        /\ j.to = head[Default]
    BY <1>1 DEF Job
  <1> HIDE DEF j
  <1>4. job'[a] = j /\ \A c \in Actor \ {a} : job'[c] = job[c]
    BY <1>1, <1>2 DEF TypeOK
  <1>5. UNCHANGED head
    BY <1>2 DEF NoWrite, refVars
  <1>6. UsesOK(a)'
    BY <1>1, <1>2, <1>3, <1>4 DEF KeepsOK, UsesOK
  <1>7. ~raced[a] => Current(a)'
    BY <1>1, <1>2, <1>3, <1>4, <1>5 DEF KeepsOK, Current
  <1>8. GrownSince(a)'
    BY <1>2 DEF GrownSince
  <1> QED
    BY <1>2, <1>4, <1>6, <1>7, <1>8, KeepQuiet

\* ... a branch strictly behind it has no commit of its own ...
LEMMA KeepWsCount ==
    ASSUME KeepIInv, IInv', NEW a \in Actor, WsCount(a)
    PROVE  KeepIInv'
  <1> DEFINE b == job[a].b
  <1>1. /\ TypeOK /\ JobOK(a) /\ KeepsOK(a) /\ HistoryOK /\ RefsOK /\ b \in Branch
        /\ \A c \in Branch : Exists(c) => head[c] \in 1..made
    BY KeepTypes
  <1>2. pc[a] = "ws_count" /\ NoWrite(a)
    BY DEF WsCount
  <1>3. CASE Finish(a)
    BY <1>1, <1>2, <1>3, FinishKeeps, FinishOK, KeepQuiet
  <1>4. CASE StrictlyBehind(head[b], head[Default]) /\ Goto(a, "ws_dirty") /\ UNCHANGED job
    <2>1. pc'[a] = "ws_dirty" /\ \A c \in Actor \ {a} : pc'[c] = pc[c]
      BY <1>1, <1>4 DEF Goto, TypeOK
    <2>2. head[b] \in 1..made /\ head[Default] \in 1..made
      BY <1>1, <1>2 DEF JobOK, RefsOK
    <2>3. head[b] \in anc[head[b]] /\ anc[head[b]] \subseteq anc[head[Default]]
      BY <1>1, <1>4, <2>2 DEF HistoryOK, StrictlyBehind
    <2>4. carries[head[b]] \subseteq carries[head[Default]]
      BY <1>1, <2>2, <2>3 DEF HistoryOK
    <2>5. ~raced[a] => carries[head[b]] \subseteq carries[job[a].to]
      BY <1>1, <1>2, <2>4 DEF KeepsOK, Current
    <2>6. /\ pc'[a] # "idle" => UsesOK(a)' /\ (~raced[a] => Current(a)')
          /\ GrownSince(a)'
      BY <1>2, <1>4, <2>1, <2>5, WalkKeeps
    <2> QED
      BY <1>2, <1>4, <2>1, <2>6, KeepQuiet
  <1> QED
    BY <1>3, <1>4 DEF WsCount

\* ... and its worktree no change.
LEMMA KeepWsDirty ==
    ASSUME KeepIInv, IInv', NEW a \in Actor, WsDirty(a)
    PROVE  KeepIInv'
  <1>1. TypeOK /\ KeepsOK(a)
    BY KeepTypes
  <1>2. pc[a] = "ws_dirty" /\ NoWrite(a)
    BY DEF WsDirty
  <1>3. CASE Finish(a)
    BY <1>1, <1>2, <1>3, FinishKeeps, FinishOK, KeepQuiet
  <1>4. CASE Goto(a, "ff_check") /\ UNCHANGED job
    <2>1. pc'[a] = "ff_check" /\ \A c \in Actor \ {a} : pc'[c] = pc[c]
      BY <1>1, <1>4 DEF Goto, TypeOK
    <2>2. ~raced[a] => carries[head[job[a].b]] \subseteq carries[job[a].to]
      BY <1>1, <1>2 DEF KeepsOK, Current
    <2>3. /\ pc'[a] # "idle" => UsesOK(a)' /\ (~raced[a] => Current(a)')
          /\ GrownSince(a)'
      BY <1>2, <1>4, <2>1, <2>2, WalkKeeps
    <2> QED
      BY <1>2, <1>4, <2>1, <2>3, KeepQuiet
  <1> QED
    BY <1>3, <1>4 DEF WsDirty

LEMMA NotDirty ==
    ASSUME NEW b \in Branch, ~Dirty(b)
    PROVE  CleanAt(b, head[b])
  BY DEF Dirty, Changed, CleanAt

LEMMA KeepFfCheck ==
    ASSUME KeepIInv, IInv', NEW a \in Actor, FfCheck(a)
    PROVE  KeepIInv'
  <1>1. TypeOK /\ KeepsOK(a) /\ job[a].b \in Branch
    BY KeepTypes
  <1>2. pc[a] = "ff_check" /\ NoWrite(a)
    BY DEF FfCheck
  <1>3. CASE Return(a)
    BY <1>2, <1>3, ReturnKeeps, KeepQuiet
  <1>4. CASE ~Dirty(job[a].b) /\ Goto(a, "ff_lock") /\ UNCHANGED job
    <2>1. pc'[a] = "ff_lock" /\ \A c \in Actor \ {a} : pc'[c] = pc[c]
      BY <1>1, <1>4 DEF Goto, TypeOK
    <2>2. CleanAt(job[a].b, head[job[a].b])
      BY <1>1, <1>4, NotDirty
    <2>3. ~raced[a] => carries[head[job[a].b]] \subseteq carries[job[a].to]
      BY <1>1, <1>2 DEF KeepsOK, Current
    <2>4. /\ pc'[a] # "idle" => UsesOK(a)' /\ (~raced[a] => Current(a)')
          /\ GrownSince(a)'
      BY <1>2, <1>4, <2>1, <2>2, <2>3, WalkKeeps
    <2> QED
      BY <1>2, <1>4, <2>1, <2>4, KeepQuiet
  <1> QED
    BY <1>3, <1>4 DEF FfCheck

LEMMA KeepMgCheck ==
    ASSUME KeepIInv, IInv', NEW a \in Actor, MgCheck(a)
    PROVE  KeepIInv'
  <1>1. TypeOK /\ KeepsOK(a) /\ job[a].b \in Branch
    BY KeepTypes
  <1>2. pc[a] = "mg_check" /\ NoWrite(a)
    BY DEF MgCheck
  <1>3. CASE Finish(a)
    BY <1>1, <1>2, <1>3, FinishKeeps, FinishOK, KeepQuiet
  <1>4. CASE ~Dirty(job[a].b) /\ Goto(a, "mg_lock") /\ UNCHANGED job
    <2>1. pc'[a] = "mg_lock" /\ \A c \in Actor \ {a} : pc'[c] = pc[c]
      BY <1>1, <1>4 DEF Goto, TypeOK
    <2>2. CleanAt(job[a].b, head[job[a].b])
      BY <1>1, <1>4, NotDirty
    <2>3. /\ pc'[a] # "idle" => UsesOK(a)' /\ (~raced[a] => Current(a)')
          /\ GrownSince(a)'
      BY <1>2, <1>4, <2>1, <2>2, WalkKeeps
    <2> QED
      BY <1>2, <1>4, <2>1, <2>3, KeepQuiet
  <1> QED
    BY <1>3, <1>4 DEF MgCheck

LEMMA KeepFfLock ==
    ASSUME KeepIInv, IInv', NEW a \in Actor, FfLock(a)
    PROVE  KeepIInv'
  <1> DEFINE b == job[a].b
             j == [job[a] EXCEPT !.old = head[b]]
  <1>1. TypeOK /\ KeepsOK(a) /\ job[a] \in Job
    BY KeepTypes
  <1>2. pc[a] = "ff_lock" /\ NoWrite(a)
    BY DEF FfLock
  <1>3. CASE Return(a)
    BY <1>2, <1>3, ReturnKeeps, KeepQuiet
  <1>4. CASE job' = [job EXCEPT ![a].old = head[b]] /\ Goto(a, "ff_swap")
    <2>1. pc'[a] = "ff_swap" /\ job' = [job EXCEPT ![a] = j]
          /\ \A c \in Actor \ {a} : pc'[c] = pc[c]
      BY <1>1, <1>4 DEF Goto, TypeOK
    <2>2. j.b = b /\ j.op = job[a].op /\ j.src = job[a].src /\ j.to = job[a].to
          /\ j.then = job[a].then /\ j.todo = job[a].todo /\ j.uses = job[a].uses
      BY <1>1 DEF Job
    <2> HIDE DEF j
    <2>3. job'[a] = j /\ \A c \in Actor \ {a} : job'[c] = job[c]
      BY <1>1, <2>1 DEF TypeOK
    <2>4. UNCHANGED <<made, tree, carries, head, wt, work, index, base>>
      BY <1>2 DEF NoWrite, repoVars, refVars, wtVars
    <2>5. UsesOK(a)' /\ GrownSince(a)'
      BY <1>1, <1>2, <2>1, <2>2, <2>3 DEF KeepsOK, UsesOK, GrownSince
    <2>6. ~raced[a] => Current(a)'
      BY <1>1, <1>2, <2>1, <2>2, <2>3, <2>4 DEF KeepsOK, Current, CleanAt
    <2> QED
      BY <1>2, <2>1, <2>3, <2>5, <2>6, KeepQuiet
  <1> QED
    BY <1>3, <1>4 DEF FfLock

LEMMA KeepMgLock ==
    ASSUME KeepIInv, IInv', NEW a \in Actor, MgLock(a)
    PROVE  KeepIInv'
  <1> DEFINE t == head[job[a].b]  s == head[job[a].src]
             j == [job[a] EXCEPT !.old = t, !.from = s]
  <1>1. TypeOK /\ KeepsOK(a) /\ job[a] \in Job
    BY KeepTypes
  <1>2. pc[a] = "mg_lock" /\ NoWrite(a)
        /\ pc'[a] = "mg_tree" /\ job' = [job EXCEPT ![a] = j]
        /\ \A c \in Actor \ {a} : pc'[c] = pc[c]
    BY <1>1 DEF MgLock, Goto, TypeOK
  <1>3. j.b = job[a].b /\ j.op = job[a].op /\ j.src = job[a].src /\ j.to = job[a].to
        /\ j.then = job[a].then /\ j.todo = job[a].todo /\ j.uses = job[a].uses
        /\ j.old = t /\ j.from = s
    BY <1>1 DEF Job
  <1> HIDE DEF j
  <1>4. job'[a] = j /\ \A c \in Actor \ {a} : job'[c] = job[c]
    BY <1>1, <1>2 DEF TypeOK
  <1>5. UNCHANGED <<made, tree, carries, head, wt, work, index, base>>
    BY <1>2 DEF NoWrite, repoVars, refVars, wtVars
  <1>6. UsesOK(a)'
    BY <1>1, <1>2, <1>3, <1>4 DEF KeepsOK, UsesOK
  <1>7. GrownSince(a)'
    BY <1>3, <1>4, <1>5 DEF GrownSince
  <1>8. ~raced[a] => Current(a)'
    BY <1>1, <1>2, <1>3, <1>4, <1>5 DEF KeepsOK, Current, CleanAt
  <1> QED
    BY <1>2, <1>4, <1>6, <1>7, <1>8, KeepQuiet

\* FFBranches follows origin only where the head it listed is an ancestor.
LEMMA KeepFfNext ==
    ASSUME KeepIInv, IInv', NEW a \in Actor, NEW b \in Branch, FfNext(a, b)
    PROVE  KeepIInv'
  <1> DEFINE cur == job[a].todo[b]
             rest == [job[a].todo EXCEPT ![b] = 0]
             follow == FastForwards(cur, origin[b])
             j1 == [job[a] EXCEPT !.todo = rest]
             j2 == [job[a] EXCEPT !.todo = rest, !.b = b, !.to = origin[b]]
  <1>1. /\ TypeOK /\ RefsOK /\ HistoryOK /\ JobOK(a) /\ KeepsOK(a) /\ job[a] \in Job
        /\ job[a].todo \in [Branch -> Ref]
    BY KeepTypes
  <1>2. pc[a] = "ff_next" /\ cur # 0 /\ NoWrite(a) /\ UsesOK(a)
        /\ (~raced[a] => Current(a))
    BY <1>1 DEF FfNext, KeepsOK
  <1>3. rest[b] = 0 /\ \A c \in Branch : rest[c] # 0 => rest[c] = job[a].todo[c]
    BY <1>1
  <1>4. job[a].op = "pull" /\ ~job[a].then
    BY <1>1, <1>2 DEF JobOK
  <1>5. UNCHANGED <<made, tree, carries, head, wt, work, index, base>>
    BY <1>2 DEF NoWrite, repoVars, refVars, wtVars
  <1>6. CASE follow /\ job' = [job EXCEPT ![a].todo = rest, ![a].b = b,
                                          ![a].to = origin[b]]
                    /\ Goto(a, "ff_check")
    <2>1. origin[b] \in 1..made /\ cur \in anc[origin[b]]
      BY <1>1, <1>6 DEF FastForwards, RefsOK, TypeOK, Ref, Commits
    <2>2. carries[cur] \subseteq carries[origin[b]]
      BY <1>1, <2>1 DEF HistoryOK
    <2>3. ~raced[a] => carries[head[b]] \subseteq carries[origin[b]]
      BY <1>2, <2>2 DEF Current
    <2> HIDE DEF rest
    <2>4. j2.op = "pull" /\ ~j2.then /\ j2.b = b /\ j2.to = origin[b]
          /\ j2.todo = rest /\ j2.uses = job[a].uses
      BY <1>1, <1>4 DEF Job
    <2>5. job' = [job EXCEPT ![a] = j2]
      BY <1>1, <1>6 DEF TypeOK
    <2> HIDE DEF j2
    <2>6. /\ pc'[a] = "ff_check" /\ job'[a] = j2
          /\ \A c \in Actor \ {a} : pc'[c] = pc[c] /\ job'[c] = job[c]
      BY <1>1, <1>6, <2>5 DEF Goto, TypeOK
    <2>7. UsesOK(a)' /\ GrownSince(a)'
      BY <1>2, <1>3, <2>4, <2>6 DEF UsesOK, GrownSince
    <2>8. ~raced[a] => Current(a)'
      BY <1>2, <1>3, <1>5, <2>3, <2>4, <2>6 DEF Current
    <2> QED
      BY <1>2, <2>6, <2>7, <2>8, KeepQuiet
  <1>7. CASE job' = [job EXCEPT ![a].todo = rest] /\ UNCHANGED pc
    <2> HIDE DEF rest
    <2>1. j1.op = "pull" /\ ~j1.then /\ j1.todo = rest /\ j1.uses = job[a].uses
      BY <1>1, <1>4 DEF Job
    <2>2. job' = [job EXCEPT ![a] = j1]
      BY <1>1, <1>7 DEF TypeOK
    <2> HIDE DEF j1
    <2>3. job'[a] = j1 /\ \A c \in Actor \ {a} : pc'[c] = pc[c] /\ job'[c] = job[c]
      BY <1>1, <1>7, <2>2 DEF TypeOK
    <2>4. UsesOK(a)' /\ GrownSince(a)'
      BY <1>2, <1>3, <1>7, <2>1, <2>3 DEF UsesOK, GrownSince
    <2>5. ~raced[a] => Current(a)'
      BY <1>2, <1>3, <1>5, <1>7, <2>1, <2>3 DEF Current
    <2> QED
      BY <1>2, <2>3, <2>4, <2>5, KeepQuiet
  <1>8. CASE Finish(a)
    BY <1>1, <1>2, <1>8, FinishKeeps, FinishOK, KeepQuiet
  <1> QED
    BY <1>6, <1>7, <1>8 DEF FfNext

LEMMA KeepStartPull ==
    ASSUME KeepIInv, IInv', NEW a \in Actor, NEW bs \in SUBSET Branch, StartPull(a, bs)
    PROVE  KeepIInv'
  <1> DEFINE todo == [b \in Branch |-> IF b \in bs THEN head[b] ELSE 0]
             j == [NoJob EXCEPT !.op = "pull", !.uses = bs, !.todo = todo]
  <1>1. TypeOK /\ BasesOK
    BY KeepTypes
  <1>2. \A b \in Branch : todo[b] # 0 => b \in bs /\ todo[b] = head[b]
    OBVIOUS
  <1> HIDE DEF todo
  <1>3. j.op = "pull" /\ ~j.then /\ j.todo = todo /\ j.uses = bs
    BY DEF NoJob
  <1>4. /\ pc' = [pc EXCEPT ![a] = "ff_next"] /\ job' = [job EXCEPT ![a] = j]
        /\ UNCHANGED <<made, tree, anc, carries, head, wt, work, index, base>>
        /\ Track(a, {})
    BY DEF StartPull, Start, repoVars, wtVars, todo
  <1> HIDE DEF j
  <1>5. pc'[a] = "ff_next" /\ job'[a] = j
        /\ \A c \in Actor \ {a} : pc'[c] = pc[c] /\ job'[c] = job[c]
    BY <1>1, <1>4 DEF TypeOK
  <1>6. HistoryOK' /\ Grows /\ BasesOK' /\ \A b \in Branch : LeavesAlone(b)
    BY <1>1, <1>4, HistoryKept DEF repoVars, BasesOK, LeavesAlone
  <1>7. UsesOK(a)' /\ Current(a)' /\ GrownSince(a)'
    BY <1>2, <1>3, <1>4, <1>5 DEF UsesOK, Current, GrownSince
  <1>8. \A c \in Actor \ {a} : pc[c] # "idle" /\ ~raced'[c] => ~raced[c]
    BY <1>1, <1>4, <1>5, TrackKeeps
  <1> QED
    BY <1>5, <1>6, <1>7, <1>8, KeepAside DEF KeepsOK

LEMMA KeepWsCreate ==
    ASSUME KeepIInv, IInv', NEW a \in Actor, WsCreate(a)
    PROVE  KeepIInv'
  <1> DEFINE b == job[a].b
  <1>1. TypeOK /\ BasesOK /\ IInv /\ b \in Branch /\ made \in Nat
    BY KeepTypes
  <1>2. /\ mu = Free \/ Exists(b)
        /\ head' = IF Exists(b) THEN head ELSE [head EXCEPT ![b] = head[Default]]
        /\ Finish(a)
        /\ UNCHANGED <<made, tree, anc, carries, wt, work, index, base>>
        /\ Track(a, {b})
    BY DEF WsCreate, repoVars, wtVars
  <1> HIDE DEF b
  <1>3. HistoryOK' /\ Grows /\ BasesOK'
    BY <1>1, <1>2, HistoryKept DEF repoVars, BasesOK
  <1>4. \A c \in Branch \ {b} : LeavesAlone(c)
    BY <1>1, <1>2 DEF LeavesAlone, TypeOK
  <1>5. /\ pc'[a] = "idle" /\ GrownSince(a)'
        /\ \A c \in Actor \ {a} : pc'[c] = pc[c] /\ job'[c] = job[c]
    BY <1>1, <1>2, FinishKeeps, FinishOK
  <1>6. \A c \in Actor \ {a} :
           pc[c] # "idle" /\ ~raced'[c] => ~raced[c] /\ job[c].uses \cap {b} = {}
    BY <1>1, <1>2, <1>5, TrackKeeps
  <1>7. Exists(b) => carries[head[b]] \subseteq carries'[head'[b]]
    BY <1>2
  <1>8. KeepsOK(a)'
    BY <1>5 DEF KeepsOK
  <1> QED
    BY <1>1, <1>3, <1>4, <1>5, <1>6, <1>7, <1>8, KeepOn

\* Status(source) may add a worktree, at the source's head.
LEMMA KeepMgStatus ==
    ASSUME KeepIInv, IInv', NEW a \in Actor, MgStatus(a)
    PROVE  KeepIInv'
  <1> DEFINE s == job[a].src
  <1>1. /\ TypeOK /\ BasesOK /\ JobOK(a) /\ KeepsOK(a) /\ s \in Branch
        /\ \A c \in Branch : Exists(c) => head[c] \in 1..made
    BY KeepTypes
  <1>2. /\ pc[a] = "mg_status" /\ Exists(s)
        /\ SetWorktree(s, WorkOf(s), IndexOf(s), BaseOf(s))
        /\ Finish(a) \/ (Goto(a, "mg_check") /\ UNCHANGED job)
        /\ UNCHANGED <<made, tree, anc, carries, head>>
        /\ Track(a, {})
    BY DEF MgStatus, Openable, repoVars, refVars
  <1> HIDE DEF s
  <1>3. HistoryOK' /\ Grows
    BY <1>2, HistoryKept DEF repoVars
  <1>4. BasesOK' /\ \A c \in Branch : LeavesAlone(c)
    <2>1. head[s] # 0
      BY <1>2 DEF Exists
    <2>2. LeavesAlone(s)
      BY <1>1, <1>2, <2>1 DEF SetWorktree, WorkOf, IndexOf, BaseOf, Files,
         LeavesAlone, TypeOK
    <2>3. \A c \in Branch \ {s} : LeavesAlone(c)
      BY <1>1, <1>2 DEF SetWorktree, LeavesAlone, TypeOK
    <2>4. BasesOK'
      BY <1>1, <1>2 DEF SetWorktree, BaseOf, BasesOK, TypeOK
    <2> QED
      BY <2>2, <2>3, <2>4
  <1>5. /\ pc'[a] \in {"idle", "mg_check"} /\ (pc'[a] = "mg_check" => job' = job)
        /\ \A c \in Actor \ {a} : pc'[c] = pc[c] /\ job'[c] = job[c]
    BY <1>1, <1>2, FinishOK DEF Goto, TypeOK
  <1>6. GrownSince(a)'
    BY <1>5 DEF GrownSince
  <1>7. pc'[a] # "idle" => UsesOK(a)' /\ (~raced[a] => Current(a)')
    BY <1>1, <1>2, <1>5 DEF KeepsOK, UsesOK, Current
  <1>8. /\ \A c \in Actor \ {a} : pc[c] # "idle" /\ ~raced'[c] => ~raced[c]
        /\ pc'[a] # "idle" => raced'[a] = raced[a]
    BY <1>1, <1>2, <1>5, TrackKeeps
  <1>9. KeepsOK(a)'
    BY <1>6, <1>7, <1>8 DEF KeepsOK
  <1> QED
    BY <1>3, <1>4, <1>5, <1>8, <1>9, KeepAside

\* Nobody else is inside a critical section.
LEMMA Alone ==
    ASSUME IInv, NEW a \in Actor, pc[a] \in Locked
    PROVE  \A c \in Actor \ {a} : pc[c] \notin Locked
  BY DEF IInv, LockOK

\* update-ref: what the branch carried, the new head carries; a worktree
\* without changes is still where the branch was.
LEMMA KeepSwap ==
    ASSUME KeepIInv, IInv', NEW a \in Actor, pc[a] \in {"ff_swap", "mg_swap"}, Swap(a)
    PROVE  KeepIInv'
  <1> DEFINE b == job[a].b  to == job[a].to
             j == [job[a] EXCEPT !.old = 0]
  <1>1. /\ IInv /\ TypeOK /\ BasesOK /\ JobOK(a) /\ KeepsOK(a) /\ job[a] \in Job
        /\ b \in Branch /\ Exists(b) /\ head[b] \in 1..made
        /\ job[a].src \in Branch /\ job[a].todo \in [Branch -> Ref]
    <2>1. /\ IInv /\ TypeOK /\ BasesOK /\ JobOK(a) /\ KeepsOK(a) /\ job[a] \in Job
          /\ b \in Branch /\ job[a].src \in Branch /\ job[a].todo \in [Branch -> Ref]
          /\ (Exists(b) => head[b] \in 1..made)
      BY KeepTypes
    <2>2. Exists(b)
      BY <2>1 DEF JobOK
    <2> QED
      BY <2>1, <2>2
  <1>2. /\ head' = [head EXCEPT ![b] = to]
        /\ pc' = [pc EXCEPT ![a] = "sync"] /\ job' = [job EXCEPT ![a].old = 0]
        /\ base' = IF wt[b] /\ ~Changed(b) THEN [base EXCEPT ![b] = head[b]] ELSE base
        /\ UNCHANGED <<made, tree, anc, carries, wt, work, index>>
        /\ Track(a, {b})
    BY DEF Swap, repoVars
  <1>3. UsesOK(a) /\ (~raced[a] => Current(a))
    BY <1>1 DEF KeepsOK
  <1>4. j.b = b /\ j.op = job[a].op /\ j.src = job[a].src /\ j.to = to
        /\ j.then = job[a].then /\ j.todo = job[a].todo /\ j.uses = job[a].uses
    BY <1>1 DEF Job
  <1>5. job' = [job EXCEPT ![a] = j]
    BY <1>1, <1>2 DEF TypeOK
  <1> HIDE DEF b, to, j
  <1>6. pc'[a] = "sync" /\ job'[a] = j
        /\ \A c \in Actor \ {a} : pc'[c] = pc[c] /\ job'[c] = job[c]
    BY <1>1, <1>2, <1>5 DEF TypeOK
  <1>7. head'[b] = to /\ \A c \in Branch \ {b} : head'[c] = head[c] /\ base'[c] = base[c]
    BY <1>1, <1>2 DEF TypeOK
  <1>8. HistoryOK' /\ Grows
    BY <1>2, HistoryKept DEF repoVars
  <1>9. BasesOK'
    BY <1>1, <1>2 DEF BasesOK, TypeOK
  <1>10. \A c \in Branch \ {b} : LeavesAlone(c)
    BY <1>2, <1>7 DEF LeavesAlone
  <1>11. \A c \in Actor \ {a} : pc[c] # "mg_tree"
    BY <1>1, Alone DEF Locked
  <1>12. /\ \A c \in Actor \ {a} :
              pc[c] # "idle" /\ ~raced'[c] => ~raced[c] /\ job[c].uses \cap {b} = {}
         /\ pc'[a] # "idle" => raced'[a] = raced[a]
    BY <1>1, <1>2, <1>6, TrackKeeps
  <1>13. UsesOK(a)' /\ GrownSince(a)'
    BY <1>3, <1>4, <1>6 DEF UsesOK, GrownSince, b
  <1>14. ASSUME ~raced[a] PROVE Current(a)'
    <2>1. wt'[b] => work'[b] = index'[b] /\ index'[b] = tree'[base'[b]]
      <3>1. wt[b] => work[b] = index[b] /\ index[b] = tree[head[b]]
        BY <1>3, <1>14 DEF Current, CleanAt, b
      <3>2. wt[b] => base'[b] = head[b]
        BY <1>1, <1>2, <3>1 DEF Changed, TypeOK
      <3> QED
        BY <1>2, <3>1, <3>2
    <2>2. \A c \in Branch : job[a].todo[c] # 0 => c # b /\ job[a].todo[c] = head[c]
      BY <1>3, <1>14 DEF Current, UsesOK, b
    <2>3. job[a].then /\ job[a].src # b =>
             carries[head[job[a].src]] \subseteq carries[to]
      <3>1. job[a].then => pc[a] = "mg_swap"
        BY <1>1 DEF JobOK
      <3> QED
        BY <1>3, <1>14, <3>1 DEF Current, to
    <2>4. job[a].then => carries'[head'[job[a].src]] \subseteq carries'[to]
      BY <1>1, <1>2, <1>7, <2>3
    <2>5. \A c \in Branch : job[a].todo[c] # 0 => job[a].todo[c] = head'[c]
      BY <1>7, <2>2
    <2>6. carries'[head'[b]] \subseteq carries'[to]
      BY <1>7
    <2> QED
      BY <1>4, <1>6, <2>1, <2>4, <2>5, <2>6 DEF Current, CleanAt
  <1>15. KeepsOK(a)'
    BY <1>6, <1>12, <1>13, <1>14 DEF KeepsOK
  <1>16. b \in Branch
    BY <1>1
  <1> QED
    BY <1>6, <1>8, <1>9, <1>10, <1>11, <1>12, <1>15, <1>16, KeepOn

LEMMA KeepFfSwap ==
    ASSUME KeepIInv, IInv', NEW a \in Actor, FfSwap(a)
    PROVE  KeepIInv'
  <1>1. pc[a] = "ff_swap"
    BY DEF FfSwap
  <1>2. CASE Swap(a)
    BY <1>1, <1>2, KeepSwap
  <1>3. CASE Return(a) /\ NoWrite(a)
    BY <1>1, <1>3, ReturnKeeps, KeepQuiet
  <1> QED
    BY <1>2, <1>3 DEF FfSwap

LEMMA KeepMgSwap ==
    ASSUME KeepIInv, IInv', NEW a \in Actor, MgSwap(a)
    PROVE  KeepIInv'
  <1>1. pc[a] = "mg_swap" /\ TypeOK
    BY KeepTypes DEF MgSwap
  <1>2. CASE Swap(a)
    BY <1>1, <1>2, KeepSwap
  <1>3. CASE Abort(a) /\ NoWrite(a)
    BY <1>1, <1>3, FinishKeeps, FinishOK, KeepQuiet DEF Abort
  <1> QED
    BY <1>2, <1>3 DEF MgSwap

\* reset --hard, and for a merge on to the reset of its source.
LEMMA KeepSync ==
    ASSUME KeepIInv, IInv', NEW a \in Actor, Sync(a)
    PROVE  KeepIInv'
  <1> DEFINE b == job[a].b  to == job[a].to
             j == [NoJob EXCEPT !.op = "merge", !.b = job[a].src,
                                !.to = to, !.uses = job[a].uses]
  <1>1. /\ IInv /\ TypeOK /\ BasesOK /\ JobOK(a) /\ KeepsOK(a) /\ job[a] \in Job
        /\ b \in Branch /\ job[a].src \in Branch /\ job[a].todo \in [Branch -> Ref]
    BY KeepTypes
  <1>2. pc[a] = "sync" /\ to \in 1..made
    BY <1>1 DEF Sync, JobOK
  <1>3. /\ SyncWorktree(b, to)
        /\ UNCHANGED <<made, tree, anc, carries>>
        /\ Track(a, {b})
    BY DEF Sync, repoVars
  <1>4. \/ job[a].then /\ job' = [job EXCEPT ![a] = j] /\ Goto(a, "ff_check")
        \/ ~job[a].then /\ Return(a)
    BY DEF Sync
  <1>5. UsesOK(a) /\ (~raced[a] => Current(a))
    BY <1>1, <1>2 DEF KeepsOK
  <1>6. j.op = "merge" /\ j.b = job[a].src /\ j.to = to /\ ~j.then
        /\ j.todo = NoTodo /\ j.uses = job[a].uses
    BY DEF NoJob
  <1> HIDE DEF b, to, j
  <1>7. /\ head'[b] \in {head[b], to}
        /\ \A c \in Branch \ {b} : LeavesAlone(c)
        /\ BasesOK'
    <2>1. CASE /\ head' = [head EXCEPT ![b] = to]
               /\ SetWorktree(b, ResetFiles(b, to), tree[to], to)
      BY <1>1, <1>2, <1>3, <2>1 DEF SetWorktree, LeavesAlone, BasesOK, TypeOK
    <2>2. CASE UNCHANGED <<head, wtVars>>
      BY <1>1, <1>3, <2>2 DEF wtVars, LeavesAlone, BasesOK
    <2> QED
      BY <1>3, <2>1, <2>2 DEF SyncWorktree
  <1>8. HistoryOK' /\ Grows
    BY <1>3, HistoryKept DEF repoVars
  <1>9. \A c \in Actor \ {a} : pc[c] # "mg_tree"
    BY <1>1, <1>2, Alone DEF Locked
  <1>10. ASSUME job[a].then, job' = [job EXCEPT ![a] = j], Goto(a, "ff_check")
         PROVE  /\ \A c \in Actor \ {a} : pc'[c] = pc[c] /\ job'[c] = job[c]
                /\ UsesOK(a)' /\ (~raced[a] => Current(a)') /\ GrownSince(a)'
    <2>1. pc'[a] = "ff_check" /\ job'[a] = j
          /\ \A c \in Actor \ {a} : pc'[c] = pc[c] /\ job'[c] = job[c]
      BY <1>1, <1>10 DEF Goto, TypeOK
    <2>2. UsesOK(a)' /\ GrownSince(a)'
      BY <1>1, <1>5, <1>6, <1>10, <2>1 DEF UsesOK, GrownSince, NoTodo
    <2>3. ~raced[a] => carries[head[job[a].src]] \subseteq carries[to]
      BY <1>2, <1>5, <1>10 DEF Current, to
    <2>4. ~raced[a] => carries'[head'[job[a].src]] \subseteq carries'[to]
      <3>1. CASE job[a].src = b
        BY <1>3, <1>7, <2>3, <3>1
      <3>2. CASE job[a].src # b
        BY <1>1, <1>3, <1>7, <2>3, <3>2 DEF LeavesAlone
      <3> QED
        BY <3>1, <3>2
    <2>5. ~raced[a] => Current(a)'
      BY <1>6, <2>1, <2>4 DEF Current, NoTodo
    <2> QED
      BY <2>1, <2>2, <2>5
  <1>11. ASSUME ~job[a].then, Return(a)
         PROVE  /\ \A c \in Actor \ {a} : pc'[c] = pc[c] /\ job'[c] = job[c]
                /\ pc'[a] # "idle" => UsesOK(a)' /\ (~raced[a] => Current(a)')
                /\ GrownSince(a)'
    <2>1. CASE Finish(a)
      BY <1>1, <2>1, FinishKeeps, FinishOK
    <2>2. CASE job[a].op = "pull" /\ Goto(a, "ff_next") /\ UNCHANGED job
      <3>1. pc'[a] = "ff_next" /\ \A c \in Actor \ {a} : pc'[c] = pc[c]
        BY <1>1, <2>2 DEF Goto, TypeOK
      <3>2. UsesOK(a)' /\ GrownSince(a)'
        BY <1>5, <1>11, <2>2, <3>1 DEF UsesOK, GrownSince
      <3>3. ~raced[a] => Current(a)'
        <4>1. ASSUME ~raced[a], NEW c \in Branch, job[a].todo[c] # 0
              PROVE  job[a].todo[c] = head'[c]
          <5>1. c # b /\ job[a].todo[c] = head[c]
            BY <1>2, <1>5, <4>1 DEF Current, UsesOK, b
          <5> QED
            BY <1>7, <5>1 DEF LeavesAlone
        <4> QED
          BY <2>2, <3>1, <4>1 DEF Current
      <3> QED
        BY <2>2, <3>1, <3>2, <3>3
    <2> QED
      BY <1>11, <2>1, <2>2 DEF Return
  <1>12. /\ \A c \in Actor \ {a} : pc'[c] = pc[c] /\ job'[c] = job[c]
         /\ pc'[a] # "idle" => UsesOK(a)' /\ (~raced[a] => Current(a)')
         /\ GrownSince(a)'
    BY <1>4, <1>10, <1>11
  <1>13. /\ \A c \in Actor \ {a} :
              pc[c] # "idle" /\ ~raced'[c] => ~raced[c] /\ job[c].uses \cap {b} = {}
         /\ pc'[a] # "idle" => raced'[a] = raced[a]
    BY <1>1, <1>3, <1>12, TrackKeeps
  <1>14. KeepsOK(a)'
    BY <1>12, <1>13 DEF KeepsOK
  <1>15. b \in Branch
    BY <1>1
  <1> QED
    BY <1>7, <1>8, <1>9, <1>12, <1>13, <1>14, <1>15, KeepOn

\* A merge commit carries both branches.
LEMMA KeepMgTree ==
    ASSUME KeepIInv, IInv', NEW a \in Actor, MgTree(a)
    PROVE  KeepIInv'
  <1> DEFINE t == head[job[a].b]  s == head[job[a].src]
             old == job[a].old    from == job[a].from
             as == IF job[a].squash THEN anc[old] ELSE anc[old] \cup anc[from]
             cs == carries[t] \cup carries[s]
             j == [job[a] EXCEPT !.to = made + 1, !.from = 0, !.squash = FALSE]
  <1>1. /\ TypeOK /\ BasesOK /\ HistoryOK /\ JobOK(a) /\ KeepsOK(a) /\ job[a] \in Job
        /\ job[a].b \in Branch /\ job[a].src \in Branch /\ made \in Nat
        /\ \A c \in Branch : Exists(c) => head[c] \in 1..made
    BY KeepTypes
  <1>2. /\ pc[a] = "mg_tree"
        /\ UNCHANGED <<head, origin, upstream, wt, work, index, base, left>>
        /\ Track(a, {})
    BY DEF MgTree, refVars, wtVars
  <1>3. /\ old \in 1..made /\ from \in 1..made /\ t \in 1..made /\ s \in 1..made
        /\ carries[old] \subseteq carries[t] /\ carries[from] \subseteq carries[s]
    BY <1>1, <1>2 DEF JobOK, KeepsOK, GrownSince
  <1>4. CASE Abort(a) /\ UNCHANGED repoVars
    <2>1. NoWrite(a)
      BY <1>2, <1>4 DEF NoWrite, refVars, wtVars
    <2> QED
      BY <1>1, <1>4, <2>1, FinishKeeps, FinishOK, KeepQuiet DEF Abort
  <1>5. CASE /\ AddCommit(MergedTree(t, s), as, cs)
             /\ job' = [job EXCEPT ![a].to = made + 1, ![a].from = 0,
                                   ![a].squash = FALSE]
             /\ Goto(a, "mg_swap")
    <2>1. MergedTree(t, s) \in Tree
      <3>1. t \in Commits /\ s \in Commits
        BY <1>3, KeepTypes
      <3>2. TypeOK
        BY <1>1
      <3> QED
        BY <3>1, <3>2 DEF MergedTree, TypeOK, Tree
    <2>2. /\ as \in SUBSET (1..made) /\ \A c \in as : carries[c] \subseteq cs
          /\ \A c \in as : anc[c] \subseteq 1..made
      <3>1. \A d \in {old, from} :
               /\ anc[d] \subseteq 1..made
               /\ \A c \in anc[d] : carries[c] \subseteq carries[d]
        BY <1>1, <1>3 DEF HistoryOK
      <3>2. /\ as \in SUBSET (1..made) /\ \A c \in as : carries[c] \subseteq cs
        BY <1>3, <3>1
      <3>3. \A c \in 1..made : anc[c] \subseteq 1..made
        BY <1>1 DEF HistoryOK
      <3> HIDE DEF as, cs
      <3> QED
        BY <3>2, <3>3
    <2> HIDE DEF as
    <2>3. HistoryOK' /\ Grows
      BY <1>5, <2>1, <2>2, HistoryStep
    <2>4. carries'[made + 1] = cs \cup {made + 1} /\ made' = made + 1
      BY <1>1, <1>5 DEF AddCommit, TypeOK, Commits
    <2>5. BasesOK' /\ \A c \in Branch : LeavesAlone(c)
      BY <1>1, <1>2, <2>4 DEF BasesOK, LeavesAlone
    <2>6. j.b = job[a].b /\ j.src = job[a].src /\ j.op = job[a].op
          /\ j.then = job[a].then /\ j.todo = job[a].todo /\ j.uses = job[a].uses
          /\ j.to = made + 1
      BY <1>1 DEF Job
    <2>7. job' = [job EXCEPT ![a] = j]
      BY <1>1, <1>5 DEF TypeOK
    <2> HIDE DEF j
    <2>8. pc'[a] = "mg_swap" /\ job'[a] = j
          /\ \A c \in Actor \ {a} : pc'[c] = pc[c] /\ job'[c] = job[c]
      BY <1>1, <1>5, <2>7 DEF Goto, TypeOK
    <2>9. UsesOK(a) /\ (~raced[a] => Current(a))
      BY <1>1, <1>2 DEF KeepsOK
    <2>10. UsesOK(a)' /\ GrownSince(a)'
      BY <1>2, <2>6, <2>8, <2>9 DEF UsesOK, GrownSince
    <2>11. ASSUME ~raced[a] PROVE Current(a)'
      <3>1. carries'[t] = carries[t] /\ carries'[s] = carries[s] /\ tree'[t] = tree[t]
        BY <1>3, <2>3 DEF Grows
      <3>2. carries'[t] \subseteq carries'[made + 1]
            /\ carries'[s] \subseteq carries'[made + 1]
        BY <2>4, <3>1
      <3>3. wt'[job[a].b] =>
               /\ work'[job[a].b] = index'[job[a].b]
               /\ index'[job[a].b] = tree'[head'[job[a].b]]
        BY <1>2, <2>9, <2>11, <3>1 DEF Current, CleanAt
      <3>4. \A c \in Branch : job[a].todo[c] # 0 => job[a].todo[c] = head'[c]
        BY <1>2, <2>9, <2>11 DEF Current
      <3> QED
        BY <1>2, <2>6, <2>8, <3>2, <3>3, <3>4 DEF Current, CleanAt
    <2>12. /\ \A c \in Actor \ {a} : pc[c] # "idle" /\ ~raced'[c] => ~raced[c]
           /\ pc'[a] # "idle" => raced'[a] = raced[a]
      BY <1>1, <1>2, <2>8, TrackKeeps
    <2>13. KeepsOK(a)'
      BY <2>8, <2>10, <2>11, <2>12 DEF KeepsOK
    <2> QED
      BY <2>3, <2>5, <2>8, <2>12, <2>13, KeepAside
  <1> QED
    BY <1>4, <1>5 DEF MgTree

LEMMA KeepUserWrite ==
    ASSUME KeepIInv, IInv', NEW b \in Branch, UserWrite(b)
    PROVE  KeepIInv'
  <1>1. CASE \E p \in Path, s \in Content \cup {None}, v \in Content :
                SaveFile(b, p, s, v)
    BY <1>1, KeepFileWrite DEF SaveFile
  <1>2. CASE \E p \in Path : DeleteFile(b, p)
    BY <1>2, KeepFileWrite DEF DeleteFile
  <1>3. CASE \E p, q \in Path : MoveFile(b, p, q)
    BY <1>3, KeepFileWrite DEF MoveFile
  <1>4. CASE \E paths \in (SUBSET Path) \ {{}} : Discard(b, paths)
    BY <1>4, KeepFileWrite DEF Discard
  <1>5. CASE \E paths \in (SUBSET Path) \ {{}} : Commit(b, paths)
    BY <1>5, KeepCommit
  <1>6. CASE \E from \in Branch : CreateBranch(b, from)
    BY <1>6, KeepCreateBranch
  <1> QED
    BY <1>1, <1>2, <1>3, <1>4, <1>5, <1>6 DEF UserWrite

\* Every action of the git layer preserves it.
LEMMA NextKeep == KeepIInv /\ [Next]_vars => KeepIInv'
  <1> SUFFICES ASSUME KeepIInv, [Next]_vars PROVE KeepIInv'
    OBVIOUS
  <1>1. IInv'
    BY NextIInv DEF KeepIInv
  <1>2. ASSUME NEW a \in Actor, Begin(a) PROVE KeepIInv'
    <2>1. CASE \E b \in Branch : StartWorkspace(a, b)
      BY <1>1, <2>1, KeepStartWorkspace
    <2>2. CASE \E strategy \in {"merge", "squash"} \cap Serves[a], t, s \in Branch :
                  StartMerge(a, t, s, strategy = "squash")
      <3> PICK strategy \in {"merge", "squash"} \cap Serves[a], t, s \in Branch :
                 StartMerge(a, t, s, strategy = "squash")
        BY <2>2
      <3>1. (strategy = "squash") \in BOOLEAN
        OBVIOUS
      <3> QED
        BY <1>1, <3>1, KeepStartMerge
    <2>3. CASE \E b \in Branch : Exists(b) /\ StartPull(a, {b})
      BY <1>1, <2>3, KeepStartPull
    <2>4. CASE StartPull(a, Branch)
      BY <1>1, <2>4, KeepStartPull
    <2> QED
      BY <1>2, <2>1, <2>2, <2>3, <2>4 DEF Begin
  <1>3. ASSUME NEW a \in Actor, Step(a) PROVE KeepIInv'
    BY <1>1, <1>3, KeepWsBase, KeepWsCreate, KeepWsCount, KeepWsDirty,
       KeepFfCheck, KeepFfLock, KeepFfSwap, KeepSync, KeepMgStatus, KeepMgCheck,
       KeepMgLock, KeepMgTree, KeepMgSwap, KeepFfNext DEF Step
  <1>4. CASE UNCHANGED vars
    <2>1. HistoryOK' /\ BasesOK'
      BY <1>4 DEF KeepIInv, HistoryOK, BasesOK, vars
    <2>2. ASSUME NEW a \in Actor PROVE KeepsOK(a)'
      BY <1>4, KeepTypes DEF KeepsOK, UsesOK, Current, CleanAt, GrownSince, vars
    <2> QED
      BY <1>1, <2>1, <2>2 DEF KeepIInv
  <1> QED
    BY <1>1, <1>2, <1>3, <1>4, KeepUserWrite, KeepOutside, KeepCrash DEF Next

\* In every reachable state a commit carries what its ancestors carry, and a
\* job that nobody overtook still has what it learnt: its branch is contained
\* in what it is about to be moved to, and its worktree has no change.
THEOREM KeepInvariance == Spec => []KeepIInv
  <1>1. Init => KeepIInv
    BY InitKeep
  <1>2. KeepIInv /\ [Next]_vars => KeepIInv'
    BY NextKeep
  <1> QED
    BY <1>1, <1>2, PTL DEF Spec

\* Only its own steps and a crash move a job.
LEMMA MovedBySelf ==
    ASSUME TypeOK, [Next]_vars, NEW a \in Actor, Moved(a)
    PROVE  Step(a) \/ Crash
  <1>1. ASSUME NEW c \in Actor, c # a, Begin(c) \/ Step(c) PROVE FALSE
    BY <1>1, OwnStep DEF Moved
  <1>2. ~Begin(a)
    BY DEF Moved, Begin, StartWorkspace, StartMerge, StartPull, Start
  <1>3. ASSUME NEW b \in Branch, UserWrite(b) \/ Outside(b) PROVE FALSE
    BY <1>3, OthersMoveNoRequest DEF Moved
  <1>4. ~UNCHANGED vars
    BY DEF Moved, vars
  <1> QED
    BY <1>1, <1>2, <1>3, <1>4 DEF Next

\* What stays reachable when heads only gain and the mirror stays.
LEMMA ReachableKept ==
    ASSUME KeepIInv, Grows, origin' = origin,
           \A b \in Branch : Exists(b) =>
              Exists(b)' /\ carries[head[b]] \subseteq carries'[head'[b]]
    PROVE  KeepsCommits
  <1>1. /\ RefsOK /\ made \in Nat
        /\ \A b \in Branch : origin[b] \in Ref
    BY KeepTypes DEF TypeOK
  <1>2. ASSUME NEW b \in Branch, origin[b] # 0
        PROVE  carries'[origin'[b]] = carries[origin[b]]
    BY <1>1, <1>2 DEF Grows, RefsOK, Ref
  <1>3. ASSUME NEW c \in Reachable PROVE c \in Reachable'
    <2>1. CASE \E b \in Branch : Exists(b) /\ c \in carries[head[b]]
      BY <2>1 DEF Reachable
    <2>2. CASE \E b \in Branch : origin[b] # 0 /\ c \in carries[origin[b]]
      BY <1>2, <2>2 DEF Reachable
    <2>3. \/ \E b \in Branch : Exists(b) /\ c \in carries[head[b]]
          \/ \E b \in Branch : origin[b] # 0 /\ c \in carries[origin[b]]
      <3> DEFINE H == {carries[head[b]] : b \in {x \in Branch : Exists(x)}}
                 O == {carries[origin[b]] : b \in {x \in Branch : origin[x] # 0}}
      <3>1. Reachable = (UNION H) \cup (UNION O)
        BY DEF Reachable
      <3>2. CASE c \in UNION H
        <4>1. PICK S \in H : c \in S
          BY <3>2
        <4> QED
          BY <4>1
      <3>3. CASE c \in UNION O
        <4>1. PICK S \in O : c \in S
          BY <3>3
        <4> QED
          BY <4>1
      <3> HIDE DEF H, O
      <3> QED
        BY <1>3, <3>1, <3>2, <3>3
    <2> QED
      BY <2>1, <2>2, <2>3
  <1> QED
    BY <1>3 DEF KeepsCommits

LEMMA StepKeepsCommits ==
    ASSUME KeepIInv, KeepIInv', NEW a \in Actor, Step(a), ~raced[a]
    PROVE  KeepsCommits
  <1>1. /\ TypeOK /\ made \in Nat /\ JobOK(a) /\ KeepsOK(a) /\ job[a].b \in Branch
        /\ \A b \in Branch : Exists(b) => head[b] \in 1..made
    BY KeepTypes
  <1>2. ASSUME UNCHANGED <<made, tree, anc, carries, head, origin>> PROVE KeepsCommits
    <2>1. Grows /\ \A b \in Branch : Exists(b) =>
             Exists(b)' /\ carries[head[b]] \subseteq carries'[head'[b]]
      BY <1>1, <1>2 DEF Grows, Exists
    <2> QED
      BY <1>2, <2>1, ReachableKept
  <1>3. CASE WsBase(a) \/ WsCount(a) \/ WsDirty(a) \/ FfCheck(a) \/ FfLock(a)
             \/ MgCheck(a) \/ MgLock(a) \/ (\E b \in Branch : FfNext(a, b))
    BY <1>2, <1>3 DEF WsBase, WsCount, WsDirty, FfCheck, FfLock, MgCheck, MgLock,
       FfNext, NoWrite, repoVars, refVars
  <1>4. CASE MgStatus(a)
    BY <1>2, <1>4 DEF MgStatus, repoVars, refVars
  <1>5. CASE WsCreate(a)
    <2>1. /\ head' = IF Exists(job[a].b) THEN head
                     ELSE [head EXCEPT ![job[a].b] = head[Default]]
          /\ UNCHANGED <<made, tree, anc, carries, origin>>
      BY <1>5 DEF WsCreate, repoVars
    <2>2. Grows
      BY <1>1, <2>1 DEF Grows
    <2>3. \A b \in Branch : Exists(b) => head'[b] = head[b]
      BY <1>1, <2>1 DEF TypeOK, Exists
    <2> QED
      BY <2>1, <2>2, <2>3, ReachableKept DEF Exists
  <1>6. ASSUME UNCHANGED <<made, tree, anc, carries, origin>>,
               pc[a] \in {"ff_swap", "mg_swap", "sync"},
               head'[job[a].b] \in {head[job[a].b], job[a].to},
               \A b \in Branch \ {job[a].b} : head'[b] = head[b]
        PROVE  KeepsCommits
    <2>1. carries[head[job[a].b]] \subseteq carries[job[a].to] /\ job[a].to # 0
      BY <1>1, <1>6 DEF KeepsOK, Current, JobOK
    <2>2. Grows
      BY <1>1, <1>6 DEF Grows
    <2>3. \A b \in Branch : Exists(b) =>
             Exists(b)' /\ carries[head[b]] \subseteq carries'[head'[b]]
      BY <1>6, <2>1 DEF Exists
    <2> QED
      BY <1>6, <2>2, <2>3, ReachableKept
  <1>7. CASE FfSwap(a) \/ MgSwap(a)
    <2>1. CASE Swap(a)
      <3>1. head' = [head EXCEPT ![job[a].b] = job[a].to]
            /\ UNCHANGED <<made, tree, anc, carries, origin>>
        BY <2>1 DEF Swap, repoVars
      <3>2. pc[a] \in {"ff_swap", "mg_swap", "sync"}
        BY <1>7 DEF FfSwap, MgSwap
      <3>3. head'[job[a].b] = job[a].to
            /\ \A b \in Branch \ {job[a].b} : head'[b] = head[b]
        BY <1>1, <3>1 DEF TypeOK
      <3> QED
        BY <1>6, <3>1, <3>2, <3>3
    <2>2. CASE NoWrite(a)
      BY <1>2, <2>2 DEF NoWrite, repoVars, refVars
    <2> QED
      BY <1>7, <2>1, <2>2 DEF FfSwap, MgSwap
  <1>8. CASE Sync(a)
    <2>1. pc[a] = "sync" /\ SyncWorktree(job[a].b, job[a].to)
          /\ UNCHANGED <<made, tree, anc, carries, origin>>
      BY <1>8 DEF Sync, repoVars
    <2>2. head' = head \/ head' = [head EXCEPT ![job[a].b] = job[a].to]
      BY <2>1 DEF SyncWorktree
    <2>3. head'[job[a].b] \in {head[job[a].b], job[a].to}
          /\ \A b \in Branch \ {job[a].b} : head'[b] = head[b]
      BY <1>1, <2>2 DEF TypeOK
    <2> QED
      BY <1>6, <2>1, <2>3
  <1>9. CASE MgTree(a)
    <2>1. UNCHANGED <<head, origin>>
      BY <1>9 DEF MgTree, refVars
    <2>2. CASE UNCHANGED repoVars
      BY <1>2, <2>1, <2>2 DEF repoVars
    <2>3. ASSUME NEW t, NEW as, NEW cs, AddCommit(t, as, cs) PROVE Grows
      BY <1>1, <2>3 DEF AddCommit, Grows, TypeOK, Commits
    <2>4. Grows \/ UNCHANGED repoVars
      BY <1>9, <2>3 DEF MgTree
    <2>5. CASE Grows
      BY <1>1, <2>1, <2>5, ReachableKept DEF Grows, Exists
    <2> QED
      BY <2>2, <2>4, <2>5
  <1> QED
    BY <1>3, <1>4, <1>5, <1>7, <1>8, <1>9 DEF Step

\* No EnsureWorkspace, merge, pull or fast-forward whose branches nobody else
\* wrote while it ran takes a commit away: what some branch or the mirror
\* contained, some branch or the mirror still contains.
THEOREM UndisturbedCommits == Spec => UndisturbedKeepsCommits
  <1> DEFINE Keeps == \A a \in Actor : Moved(a) /\ ~raced[a] => KeepsCommits
  <1>1. KeepIInv /\ [Next]_vars => [Keeps]_vars
    <2> SUFFICES ASSUME KeepIInv, [Next]_vars, NEW a \in Actor, Moved(a), ~raced[a]
                 PROVE  KeepsCommits
      OBVIOUS
    <2>1. TypeOK /\ KeepIInv'
      BY KeepTypes, NextKeep
    <2>2. CASE Step(a)
      BY <2>1, <2>2, StepKeepsCommits
    <2>3. CASE Crash
      BY <2>3 DEF Crash, KeepsCommits, Reachable, Exists, repoVars, refVars
    <2> QED
      BY <2>1, <2>2, <2>3, MovedBySelf
  <1> QED
    BY <1>1, KeepInvariance, PTL DEF Spec, UndisturbedKeepsCommits

LEMMA StepKeepsDrafts ==
    ASSUME KeepIInv, NEW a \in Actor, Step(a), ~raced[a]
    PROVE  KeepsDrafts
  <1>1. TypeOK /\ KeepsOK(a) /\ job[a].b \in Branch /\ job[a].src \in Branch
    BY KeepTypes
  <1>2. CASE MgStatus(a)
    <2>1. work' = [work EXCEPT ![job[a].src] = WorkOf(job[a].src)]
      BY <1>2 DEF MgStatus, SetWorktree
    <2> QED
      BY <1>1, <2>1 DEF WorkOf, KeepsDrafts, Draft, TypeOK
  <1>3. CASE Sync(a)
    <2> DEFINE b == job[a].b
    <2>1. pc[a] = "sync" /\ SyncWorktree(b, job[a].to)
      BY <1>3 DEF Sync
    <2>2. wt[b] => work[b] = tree[base[b]]
      BY <1>1, <2>1 DEF KeepsOK, Current, CleanAt
    <2>3. \A c \in Branch \ {b} : work'[c] = work[c]
      BY <1>1, <2>1 DEF SyncWorktree, SetWorktree, wtVars, TypeOK
    <2> HIDE DEF b
    <2> QED
      BY <2>2, <2>3 DEF KeepsDrafts, Draft
  <1>4. CASE WsBase(a) \/ WsCreate(a) \/ WsCount(a) \/ WsDirty(a) \/ FfCheck(a)
             \/ FfLock(a) \/ MgCheck(a) \/ MgLock(a) \/ MgTree(a) \/ FfSwap(a)
             \/ MgSwap(a) \/ \E b \in Branch : FfNext(a, b)
    <2>1. work' = work
      BY <1>4 DEF WsBase, WsCreate, WsCount, WsDirty, FfCheck, FfLock, MgCheck,
         MgLock, MgTree, FfSwap, MgSwap, Swap, FfNext, NoWrite, wtVars
    <2> QED
      BY <2>1 DEF KeepsDrafts
  <1> QED
    BY <1>2, <1>3, <1>4 DEF Step

\* ... and none overwrites a file with uncommitted work in it.
THEOREM UndisturbedDrafts == Spec => UndisturbedKeepsDrafts
  <1> DEFINE Keeps == \A a \in Actor : Moved(a) /\ ~raced[a] => KeepsDrafts
  <1>1. KeepIInv /\ [Next]_vars => [Keeps]_vars
    <2> SUFFICES ASSUME KeepIInv, [Next]_vars, NEW a \in Actor, Moved(a), ~raced[a]
                 PROVE  KeepsDrafts
      OBVIOUS
    <2>1. TypeOK
      BY KeepTypes
    <2>2. CASE Step(a)
      BY <2>2, StepKeepsDrafts
    <2>3. CASE Crash
      BY <2>3 DEF Crash, KeepsDrafts, wtVars
    <2> QED
      BY <2>1, <2>2, <2>3, MovedBySelf
  <1> QED
    BY <1>1, KeepInvariance, PTL DEF Spec, UndisturbedKeepsDrafts
=============================================================================
