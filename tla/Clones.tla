------------------------------- MODULE Clones -------------------------------
(***************************************************************************)
(* One clone in one user's scope: opened and cloned on demand with the     *)
(* user's token, written through requests, removed by its user or by the   *)
(* janitor (server/internal/api/dynamic.go, access.go; gitx/reclaim.go,    *)
(* repo.go, fleet.go; store/dynamic.go).                                   *)
(*                                                                         *)
(* Clones of other users or of other repositories share nothing with it    *)
(* but reclaimMu and the user's budget, whose exhaustion is a refusal.     *)
(* Granularity: one critical section, one git command or one statement of  *)
(* the store per step.  A removal that fails and a clone that is cut short *)
(* leave part of the directory.  Time is relative, in ticks of the hourly  *)
(* janitor.                                                                *)
(***************************************************************************)
EXTENDS Integers, FiniteSets

CONSTANTS
    IdleAfter, \* dynamic.idle_after, in ticks
    Retention, \* dynamic.unsynced_retention
    Tabs,      \* requests in flight
    Janitor,   \* the one goroutine of cloneJanitor
    NoOne,     \* no holder, no stamp
    MaxBusy    \* bound: requests and passes of the janitor under way at once

ASSUME ClonesAssumption ==
    /\ IdleAfter \in Nat /\ Retention \in Nat
    /\ 0 < IdleAfter /\ IdleAfter <= Retention
    /\ Janitor \notin Tabs /\ NoOne \notin Tabs \cup {Janitor}
    /\ NoOne \notin Int

VARIABLES
    disk,     \* the directory: "none", "mirror" (origin's state), "branch" (a
              \* branch origin never saw), "edited" (work that is nowhere else);
              \* "rest" (part of one, without git/HEAD), "half" (part, with it)
    tracked,  \* whether the fetch that fills refs/remotes/origin succeeded
    row,      \* user_projects
    known,    \* registered with the user's manager
    ensured,  \* Repo.ensured
    stamp,    \* clone_uses: ticks since the last use, or NoOne
    mtime,    \* ticks since the directory was made
    written,  \* ghost: ticks since the user last wrote into it
    ensureMu, reclaimMu, \* who holds the mutex, or NoOne
    req,      \* [Tabs -> where the request is, and its locals]
    jan,      \* where the janitor is, and its locals
    raced     \* ghost: a write fell between a removal's last look and the removal

folder == <<disk, tracked, mtime, written>>
memory == <<known, ensured, ensureMu, reclaimMu>>
clones == <<folder, row, memory, stamp, req, jan, raced>>

NoReq == [pc |-> "idle", force |-> FALSE, close |-> FALSE]
ReqState == [pc : {"idle", "ensure", "mark", "clone", "fetch", "touch", "serve", "stat",
                   "check", "remove", "invalidate", "drop", "delete", "unregister"},
             force : BOOLEAN, close : BOOLEAN]
NoJan == [pc |-> "idle", unsynced |-> FALSE, mtime |-> 0]
JanState == [pc : {"idle", "judge", "check", "remove", "invalidate", "drop"},
             unsynced : BOOLEAN, mtime : 0..Retention]

ClonesInit ==
    /\ disk = "none" /\ tracked = FALSE /\ mtime = 0 /\ written = 0
    /\ row = FALSE /\ known = FALSE /\ ensured = FALSE /\ stamp = NoOne
    /\ ensureMu = NoOne /\ reclaimMu = NoOne
    /\ req = [a \in Tabs |-> NoReq]
    /\ jan = NoJan
    /\ raced = FALSE

Busy == {a \in Tabs : req[a].pc # "idle"} \cup (IF jan.pc = "idle" THEN {} ELSE {Janitor})
Room == Cardinality(Busy) < MaxBusy

To(a, pc) == req' = [req EXCEPT ![a].pc = pc]
Over(a) == req' = [req EXCEPT ![a] = NoReq]
JanTo(pc) == jan' = [jan EXCEPT !.pc = pc]

\* os.Stat of git/HEAD, by which every reader knows a clone.
HasHead == disk \notin {"none", "rest"}

\* What cloneUnsynced may answer: a branch ahead of origin or unknown to it;
\* without origin's refs every branch is unknown, and part of a clone may have
\* lost its refs or its configuration.
CloneUnsynced(answer) ==
    disk = "half" \/ answer = (disk \in {"branch", "edited"} \/ ~tracked)

-----------------------------------------------------------------------------
(* Requests                                                                *)

\* dynamicOpen, once the forge granted the repository and its manifest named
\* the project (other outcomes, and a budget used up, change nothing).
OpenProject(a) ==
    /\ req[a].pc = "idle" /\ Room
    /\ row' = TRUE /\ known' = TRUE
    /\ To(a, "ensure")
    /\ ensured' = (known /\ ensured)
    /\ UNCHANGED <<folder, ensureMu, reclaimMu, stamp, jan, raced>>

\* resolveProject for a project opened before.
Resolve(a) ==
    /\ req[a].pc = "idle" /\ row /\ Room
    /\ known' = TRUE
    /\ ensured' = (known /\ ensured)
    /\ To(a, "ensure")
    /\ UNCHANGED <<folder, row, ensureMu, reclaimMu, stamp, jan, raced>>

\* EnsureCloned up to the look at HEAD, under ensureMu.
EnsureCloned(a) ==
    /\ req[a].pc = "ensure" /\ ensureMu = NoOne
    /\ IF ensured THEN To(a, "touch") /\ UNCHANGED ensureMu
       ELSE ensureMu' = a /\ To(a, IF HasHead THEN "mark" ELSE "clone")
    /\ UNCHANGED <<folder, row, known, ensured, reclaimMu, stamp, jan, raced>>

\* The clone was there: it counts as complete, whatever the first fetch did.
Mark(a) ==
    /\ req[a].pc = "mark"
    /\ ensured' = TRUE /\ ensureMu' = NoOne
    /\ To(a, "touch")
    /\ UNCHANGED <<folder, row, known, reclaimMu, stamp, jan, raced>>

\* A git clone that is killed leaves what it had, HEAD first.
HalfClone == ~HasHead /\ disk' = "half"

\* Into the rest of another it may refuse, or have old worktrees beside it.
GitClone(a) ==
    /\ req[a].pc = "clone"
    /\ \/ /\ disk' \in {"mirror"} \cup (IF disk = "rest" THEN {"half"} ELSE {})
          /\ tracked' = FALSE /\ mtime' = 0
          /\ To(a, "fetch")
          /\ UNCHANGED ensureMu
       \/ /\ UNCHANGED disk \/ HalfClone
          /\ ensureMu' = NoOne
          /\ Over(a)
          /\ UNCHANGED <<tracked, mtime>>
    /\ UNCHANGED <<written, row, known, ensured, reclaimMu, stamp, jan, raced>>

FirstFetch(a) ==
    /\ req[a].pc = "fetch" /\ ensureMu' = NoOne
    /\ \/ /\ HasHead
          /\ tracked' = TRUE /\ ensured' = TRUE
          /\ To(a, "touch")
       \/ Over(a) /\ UNCHANGED <<tracked, ensured>>
    /\ UNCHANGED <<disk, mtime, written, row, known, reclaimMu, stamp, jan, raced>>

TouchMissing == UNCHANGED stamp
TouchClone == stamp' = 0

\* The request counts as a use before its handler runs.
Touch(a) ==
    /\ req[a].pc = "touch"
    /\ TouchClone
    /\ To(a, "serve")
    /\ UNCHANGED <<folder, row, memory, jan, raced>>

\* A removal that looked at the clone for the last time and has not removed it.
Doomed == reclaimMu # NoOne \/ jan.pc \in {"judge", "check", "remove"}

\* The handler: a read, a workspace branch, a save or commit, a push.  Without
\* a clone it fails; in part of one a save may still find its worktree.
Serve(a) ==
    /\ req[a].pc = "serve"
    /\ Over(a)
    /\ \/ UNCHANGED <<disk, tracked, written, raced>>
       \/ /\ disk = "mirror" /\ disk' = "branch"
          /\ UNCHANGED <<tracked, written, raced>>
       \/ /\ HasHead /\ disk' = "edited"
          /\ written' = 0 /\ raced' = (raced \/ Doomed)
          /\ UNCHANGED tracked
       \/ /\ disk \in {"branch", "edited"} /\ disk' = "mirror" /\ tracked' = TRUE
          /\ UNCHANGED <<written, raced>>
    /\ UNCHANGED <<mtime, row, memory, stamp, jan>>

-----------------------------------------------------------------------------
(* Removal                                                                 *)

\* What the directory held is lost.
Discard(left) == disk' = left /\ tracked' = FALSE /\ mtime' = 0 /\ written' = 0

\* os.RemoveAll, and one that fails, or dies, half-way.
RemoveAll == Discard("none") /\ raced' = FALSE
RemovePart == Discard("rest") \/ Discard("half")
RemoveFails ==
    \/ RemovePart /\ raced' = FALSE
    \/ UNCHANGED <<folder, raced>>

\* A look with no other under way begins a new account of what raced it.
Fresh == raced' = (raced /\ Doomed)

\* Fleet.Invalidate reaches the registered object.
Remembered == UNCHANGED ensured
Forgotten == ensured' = FALSE
Invalidate == ensureMu = NoOne /\ Forgotten

\* ReclaimClone's look, under reclaimMu: HEAD is there, and without force
\* there is nothing unsynced.
Reclaimable(force) == HasHead /\ (force \/ CloneUnsynced(FALSE))
Refused(force) == ~HasHead \/ (~force /\ CloneUnsynced(TRUE))

\* POST /api/dynamic/reclaim of a clone that is there, or only its closing.
StartReclaim(a, force, close) ==
    /\ req[a].pc = "idle" /\ Room
    /\ req' = [req EXCEPT ![a] = [NoReq EXCEPT !.pc = "stat", !.force = force, !.close = close]]
    /\ UNCHANGED <<folder, row, memory, stamp, jan, raced>>

StatClone(a) ==
    /\ req[a].pc = "stat"
    /\ IF HasHead THEN To(a, "check")
       ELSE IF req[a].close THEN To(a, "delete") ELSE Over(a)
    /\ UNCHANGED <<folder, row, memory, stamp, jan, raced>>

CheckClone(a) ==
    /\ req[a].pc = "check" /\ reclaimMu = NoOne
    /\ \/ /\ Reclaimable(req[a].force)
          /\ To(a, "remove") /\ reclaimMu' = a
          /\ Fresh
       \/ /\ Refused(req[a].force)
          /\ Over(a)
          /\ UNCHANGED <<reclaimMu, raced>>
    /\ UNCHANGED <<folder, row, known, ensured, ensureMu, stamp, jan>>

\* Only a removal that succeeds goes on to tell the manager.
RemoveClone(a) ==
    /\ req[a].pc = "remove"
    /\ \/ RemoveAll /\ To(a, "invalidate")
       \/ RemoveFails /\ Over(a)
    /\ reclaimMu' = NoOne
    /\ UNCHANGED <<row, known, ensured, ensureMu, stamp, jan>>

InvalidateClone(a) ==
    /\ req[a].pc = "invalidate"
    /\ Invalidate
    /\ To(a, "drop")
    /\ UNCHANGED <<folder, row, known, ensureMu, reclaimMu, stamp, jan, raced>>

DropCloneUse(a) ==
    /\ req[a].pc = "drop"
    /\ stamp' = NoOne
    /\ IF req[a].close THEN To(a, "delete") ELSE Over(a)
    /\ UNCHANGED <<folder, row, memory, jan, raced>>

DeleteUserProject(a) ==
    /\ req[a].pc = "delete"
    /\ row' = FALSE
    /\ To(a, "unregister")
    /\ UNCHANGED <<folder, memory, stamp, jan, raced>>

Close(a) ==
    /\ req[a].pc = "unregister"
    /\ known' = FALSE /\ ensured' = FALSE
    /\ Over(a)
    /\ UNCHANGED <<folder, row, ensureMu, reclaimMu, stamp, jan, raced>>

-----------------------------------------------------------------------------
(* The janitor                                                             *)

ScanScope ==
    /\ jan.pc = "idle" /\ HasHead /\ Room
    /\ \E unsynced \in BOOLEAN :
        /\ CloneUnsynced(unsynced)
        /\ jan' = [pc |-> "judge", unsynced |-> unsynced, mtime |-> mtime]
    /\ Fresh
    /\ UNCHANGED <<folder, row, memory, stamp, req>>

LastUse == IF stamp = NoOne THEN jan.mtime ELSE stamp
IdleOnly == LastUse >= IdleAfter
Judged == LastUse >= IF jan.unsynced THEN Retention ELSE IdleAfter

\* Without a stamp the age of the directory counts, as it was at the scan.
Judge ==
    /\ jan.pc = "judge"
    /\ IF Judged THEN JanTo("check") ELSE jan' = NoJan
    /\ UNCHANGED <<folder, row, memory, stamp, req, raced>>

\* What was unsynced at the scan is removed without another look.
JanCheck ==
    /\ jan.pc = "check" /\ reclaimMu = NoOne
    /\ \/ Reclaimable(jan.unsynced) /\ JanTo("remove") /\ reclaimMu' = Janitor
       \/ Refused(jan.unsynced) /\ jan' = NoJan /\ UNCHANGED reclaimMu
    /\ UNCHANGED <<folder, row, known, ensured, ensureMu, stamp, req, raced>>

JanRemove ==
    /\ jan.pc = "remove"
    /\ \/ RemoveAll /\ JanTo("invalidate")
       \/ RemoveFails /\ jan' = NoJan
    /\ reclaimMu' = NoOne
    /\ UNCHANGED <<row, known, ensured, ensureMu, stamp, req>>

JanInvalidate ==
    /\ jan.pc = "invalidate"
    /\ Invalidate
    /\ JanTo("drop")
    /\ UNCHANGED <<folder, row, known, ensureMu, reclaimMu, stamp, req, raced>>

JanDrop ==
    /\ jan.pc = "drop"
    /\ stamp' = NoOne
    /\ jan' = NoJan
    /\ UNCHANGED <<folder, row, memory, req, raced>>

-----------------------------------------------------------------------------

Older(t) == IF t < Retention THEN t + 1 ELSE t

\* Requests and passes of the janitor take minutes, a tick is an hour, and the
\* periods are days: the clock moves between them.
ClockTick ==
    /\ \A a \in Tabs : req[a].pc = "idle"
    /\ jan.pc = "idle"
    /\ stamp' = IF stamp = NoOne THEN NoOne ELSE Older(stamp)
    /\ mtime' = IF HasHead THEN Older(mtime) ELSE mtime
    /\ written' = IF disk = "edited" THEN Older(written) ELSE written
    /\ UNCHANGED <<disk, tracked, row, memory, req, jan, raced>>

\* What the process was doing to the directory stops half-way.
CutShort ==
    \/ /\ \E a \in Tabs : req[a].pc = "clone"
       /\ HalfClone
       /\ UNCHANGED <<tracked, mtime, written>>
    \/ /\ jan.pc = "remove" \/ \E a \in Tabs : req[a].pc = "remove"
       /\ RemovePart

\* The process dies: the directory and the store survive.
Die ==
    /\ CutShort \/ UNCHANGED folder
    /\ known' = FALSE /\ ensured' = FALSE
    /\ ensureMu' = NoOne /\ reclaimMu' = NoOne
    /\ req' = [a \in Tabs |-> NoReq]
    /\ jan' = NoJan
    /\ raced' = FALSE
    /\ UNCHANGED <<row, stamp>>

ReqStep(a) ==
    \/ EnsureCloned(a) \/ Mark(a) \/ GitClone(a) \/ FirstFetch(a) \/ Touch(a) \/ Serve(a)
    \/ StatClone(a) \/ CheckClone(a) \/ RemoveClone(a) \/ InvalidateClone(a)
    \/ DropCloneUse(a) \/ DeleteUserProject(a) \/ Close(a)

JanStep == ScanScope \/ Judge \/ JanCheck \/ JanRemove \/ JanInvalidate \/ JanDrop

ClonesNext ==
    \/ \E a \in Tabs :
        \/ OpenProject(a) \/ Resolve(a) \/ ReqStep(a)
        \/ \E force, close \in BOOLEAN : StartReclaim(a, force, close)
    \/ JanStep \/ ClockTick \/ Die

ClonesSpec == ClonesInit /\ [][ClonesNext]_clones

-----------------------------------------------------------------------------
(* Properties                                                              *)

\* Every variable has its type.
ClonesTypeOK ==
    /\ disk \in {"none", "rest", "half", "mirror", "branch", "edited"}
    /\ tracked \in BOOLEAN /\ row \in BOOLEAN /\ known \in BOOLEAN /\ ensured \in BOOLEAN
    /\ stamp \in 0..Retention \cup {NoOne}
    /\ mtime \in 0..Retention /\ written \in 0..Retention
    /\ ensureMu \in Tabs \cup {NoOne} /\ reclaimMu \in Tabs \cup {Janitor, NoOne}
    /\ req \in [Tabs -> ReqState] /\ jan \in JanState
    /\ raced \in BOOLEAN

\* What a removal that failed, or a clone or removal cut short, left behind.
Remains == {"rest", "half"}

\* A manager that trusts its clone has one on disk, except while a removal is
\* on its way to tell it, and except where a removal failed or a clone or
\* removal was cut short and part of the directory is left: otherwise every
\* later request of the user would fail until a restart, the clone never being
\* made again.
TrustedCloneExists ==
    ensured /\ disk \notin Remains =>
        \/ disk # "none"
        \/ jan.pc = "invalidate"
        \/ \E a \in Tabs : req[a].pc = "invalidate"

\* Types, and a clone wherever the manager trusts one to be.
ClonesInv == ClonesTypeOK /\ TrustedCloneExists

\* Written too long ago to be kept.
PastRetention == written >= Retention

\* Work that is nowhere else goes only when its user discarded it, when it was
\* left alone for the retention period, or when it was written while a removal
\* was under way, whether the removal succeeds, fails half-way or dies: neither
\* the idle period, nor a lost stamp, nor a restart, nor a clone whose first
\* fetch failed costs anybody work.
WorkOutlivesIdleness ==
    [][ disk = "edited" /\ disk' \in {"none"} \cup Remains =>
          \/ raced
          \/ reclaimMu = Janitor /\ PastRetention
          \/ \E a \in Tabs : reclaimMu = a /\ req[a].force ]_clones
=============================================================================
