---------------------------- MODULE ClonesProofs ----------------------------
(* Work outlives idleness, and a removal that succeeds tells the manager    *)
(* that trusted the clone, for any periods, any requests in flight and any  *)
(* order of their steps, the janitor's, removals that fail, crashes and     *)
(* ticks.                                                                   *)
EXTENDS Clones, TLAPS

\* A removal that took the clone will tell the manager.
Telling == jan.pc = "invalidate" \/ \E a \in Tabs : req[a].pc = "invalidate"

\* Who is between taking a mutex and giving it back holds it.
LocksOK ==
    /\ \A a \in Tabs : req[a].pc \in {"mark", "clone", "fetch"} => ensureMu = a
    /\ \A a \in Tabs : req[a].pc = "remove" => reclaimMu = a
    /\ jan.pc = "remove" => reclaimMu = Janitor

\* The manager trusts a clone, or is about to, only where there is one or part
\* of one.
TrustOK ==
    (ensured \/ \E a \in Tabs : req[a].pc = "mark") /\ disk = "none" => Telling

\* In the hour of a removal no clone is older than that: its stamp may go, and
\* with it that of a clone made meanwhile.
HourOK ==
    /\ jan.pc \in {"invalidate", "drop"} => mtime = 0
    /\ \A a \in Tabs : req[a].pc \in {"invalidate", "drop"} => mtime = 0
    /\ \A a \in Tabs : req[a].pc = "serve" => stamp = 0 \/ (stamp = NoOne /\ mtime = 0)

\* The stamp, or without one the age of the directory, is no older than the
\* last write.
StampOK ==
    disk = "edited" => IF stamp = NoOne THEN written >= mtime ELSE written >= stamp

\* What a removal that is under way looked at is what it removes, or a write
\* raced it.
LooksOK ==
    /\ \A a \in Tabs : req[a].pc = "remove" /\ ~req[a].force /\ disk = "edited" => raced
    /\ jan.pc \in {"judge", "check", "remove"} /\ disk = "edited" /\ ~raced =>
          jan.unsynced /\ jan.mtime = mtime
    /\ jan.pc \in {"check", "remove"} /\ disk = "edited" /\ ~raced => written >= Retention

\* Why a removal may take work that is nowhere else, and that a step takes it
\* for no other reason.
Excused ==
    \/ raced
    \/ reclaimMu = Janitor /\ PastRetention
    \/ \E a \in Tabs : reclaimMu = a /\ req[a].force
Spared == disk = "edited" /\ disk' \in {"none"} \cup Remains => Excused

ClonesIInv == ClonesTypeOK /\ LocksOK /\ TrustOK /\ HourOK /\ StampOK /\ LooksOK

-----------------------------------------------------------------------------
(* Clocks                                                                  *)

Stamps == 0..Retention \cup {NoOne}
Pcs == {"idle", "ensure", "mark", "clone", "fetch", "touch", "serve", "stat",
        "check", "remove", "invalidate", "drop", "delete", "unregister"}

\* The periods are natural numbers, and nobody's name is a number.
LEMMA Periods ==
  /\ Retention \in Nat /\ IdleAfter \in Nat /\ IdleAfter <= Retention
  /\ \A n \in Int : n # NoOne
  /\ NoOne \notin Tabs /\ NoOne # Janitor /\ Janitor \notin Tabs
  BY ClonesAssumption DEF ClonesAssumption

\* A stamp is a clock, or there is none.
LEMMA StampIs == \A n : n \in Stamps <=> n = NoOne \/ (n \in Nat /\ n <= Retention)
  BY Periods DEF Stamps

\* The clocks stop at the retention period, keep their order and move on.
LEMMA OlderIs ==
  /\ \A t \in 0..Retention : Older(t) \in 0..Retention /\ Older(t) >= t
  /\ \A t, u \in 0..Retention : t >= u => Older(t) >= Older(u)
  BY Periods DEF Older

\* The types, with the clocks in those words.
LEMMA Types ==
  ClonesTypeOK <=>
    /\ disk \in {"none", "rest", "half", "mirror", "branch", "edited"}
    /\ tracked \in BOOLEAN /\ row \in BOOLEAN /\ known \in BOOLEAN /\ ensured \in BOOLEAN
    /\ stamp \in Stamps
    /\ mtime \in 0..Retention /\ written \in 0..Retention
    /\ ensureMu \in Tabs \cup {NoOne} /\ reclaimMu \in Tabs \cup {Janitor, NoOne}
    /\ req \in [Tabs -> ReqState] /\ jan \in JanState
    /\ raced \in BOOLEAN
  BY DEF ClonesTypeOK, Stamps

-----------------------------------------------------------------------------
(* What a step does to the requests and to the janitor                     *)

\* The other requests are where they were.
Others(a) == \A b \in Tabs : b # a => req'[b] = req[b]

\* A request that is not there has its type.
LEMMA NoReqOK == NoReq \in ReqState /\ NoReq.pc = "idle"
  BY DEF NoReq, ReqState

\* A request that goes on keeps what it was asked for.
LEMMA ToIs ==
  ASSUME req \in [Tabs -> ReqState], NEW a \in Tabs, NEW pc \in Pcs, To(a, pc)
  PROVE  /\ req' \in [Tabs -> ReqState] /\ Others(a)
         /\ req'[a].pc = pc /\ req'[a].force = req[a].force /\ req'[a].close = req[a].close
<1> DEFINE new == [req[a] EXCEPT !.pc = pc]
<1>1. req[a] \in ReqState
  OBVIOUS
<1>2. /\ new \in ReqState /\ new.pc = pc
      /\ new.force = req[a].force /\ new.close = req[a].close
  BY <1>1 DEF ReqState, Pcs
<1>3. req' = [req EXCEPT ![a] = new]
  BY DEF To
<1> HIDE DEF new
<1>4. req'[a] = new /\ Others(a)
  BY <1>3 DEF Others
<1> QED  BY <1>2, <1>3, <1>4

\* A request that is over leaves nothing.
LEMMA OverIs ==
  ASSUME req \in [Tabs -> ReqState], NEW a \in Tabs, Over(a)
  PROVE  req' \in [Tabs -> ReqState] /\ Others(a) /\ req'[a].pc = "idle"
<1>1. req'[a] = NoReq /\ Others(a)
  BY DEF Over, Others
<1> QED  BY <1>1, NoReqOK DEF Over

\* A request to remove knows what it was asked for.
LEMMA AskedIs ==
  ASSUME req \in [Tabs -> ReqState], NEW a \in Tabs, NEW force \in BOOLEAN, NEW close \in BOOLEAN,
         StartReclaim(a, force, close)
  PROVE  req' \in [Tabs -> ReqState] /\ Others(a) /\ req'[a].pc = "stat"
<1> DEFINE new == [NoReq EXCEPT !.pc = "stat", !.force = force, !.close = close]
<1>1. new \in ReqState /\ new.pc = "stat"
  BY NoReqOK DEF ReqState
<1>2. req' = [req EXCEPT ![a] = new]
  BY DEF StartReclaim
<1> HIDE DEF new
<1>3. req'[a] = new /\ Others(a)
  BY <1>2 DEF Others
<1> QED  BY <1>1, <1>2, <1>3

\* A janitor that rests has its type.
LEMMA NoJanOK == NoJan \in JanState /\ NoJan.pc = "idle"
  BY Periods DEF NoJan, JanState

\* A janitor that goes on keeps what it saw at the scan.
LEMMA JanToIs ==
  ASSUME jan \in JanState, NEW pc \in {"judge", "check", "remove", "invalidate", "drop"}, JanTo(pc)
  PROVE  /\ jan' \in JanState /\ jan'.pc = pc
         /\ jan'.unsynced = jan.unsynced /\ jan'.mtime = jan.mtime
  BY DEF JanTo, JanState

\* A removal that succeeds leaves nothing, one that fails leaves a part or all.
LEMMA RemovalIs ==
  /\ RemoveAll => /\ disk' = "none" /\ tracked' = FALSE /\ mtime' = 0 /\ written' = 0
                  /\ raced' = FALSE
  /\ RemovePart => /\ disk' \in {"rest", "half"} /\ tracked' = FALSE
                   /\ mtime' = 0 /\ written' = 0
  /\ RemoveFails =>
       \/ /\ disk' \in {"rest", "half"} /\ tracked' = FALSE /\ mtime' = 0 /\ written' = 0
          /\ raced' = FALSE
       \/ UNCHANGED <<disk, tracked, mtime, written, raced>>
  BY DEF RemoveAll, RemovePart, RemoveFails, Discard, folder

-----------------------------------------------------------------------------
(* Types                                                                   *)

\* Every step keeps the types.
LEMMA StepType ==
  ASSUME ClonesTypeOK, [ClonesNext]_clones
  PROVE  ClonesTypeOK'
<1>0. /\ disk \in {"none", "rest", "half", "mirror", "branch", "edited"}
      /\ tracked \in BOOLEAN /\ row \in BOOLEAN /\ known \in BOOLEAN /\ ensured \in BOOLEAN
      /\ stamp \in Stamps
      /\ mtime \in 0..Retention /\ written \in 0..Retention
      /\ ensureMu \in Tabs \cup {NoOne} /\ reclaimMu \in Tabs \cup {Janitor, NoOne}
      /\ req \in [Tabs -> ReqState] /\ jan \in JanState
      /\ raced \in BOOLEAN
  BY Types
<1>t. ASSUME /\ disk' \in {"none", "rest", "half", "mirror", "branch", "edited"}
             /\ tracked' \in BOOLEAN /\ row' \in BOOLEAN /\ known' \in BOOLEAN /\ ensured' \in BOOLEAN
             /\ stamp' \in Stamps
             /\ mtime' \in 0..Retention /\ written' \in 0..Retention
             /\ ensureMu' \in Tabs \cup {NoOne} /\ reclaimMu' \in Tabs \cup {Janitor, NoOne}
             /\ req' \in [Tabs -> ReqState] /\ jan' \in JanState
             /\ raced' \in BOOLEAN
      PROVE  ClonesTypeOK'
  BY <1>t DEF ClonesTypeOK, Stamps
<1>g. NoOne \in Stamps /\ 0 \in Stamps /\ 0 \in 0..Retention
  BY StampIs, Periods
<1>1. ASSUME NEW a \in Tabs, OpenProject(a) PROVE ClonesTypeOK'
  <2>1. req' \in [Tabs -> ReqState]
    BY <1>0, <1>1, ToIs DEF OpenProject, Pcs
  <2> QED  BY <1>0, <1>t, <1>g, <1>1, <2>1 DEF OpenProject, folder, memory
<1>2. ASSUME NEW a \in Tabs, Resolve(a) PROVE ClonesTypeOK'
  <2>1. req' \in [Tabs -> ReqState]
    BY <1>0, <1>2, ToIs DEF Resolve, Pcs
  <2> QED  BY <1>0, <1>t, <1>g, <1>2, <2>1 DEF Resolve, folder, memory
<1>3. ASSUME NEW a \in Tabs, EnsureCloned(a) PROVE ClonesTypeOK'
  <2>1. req' \in [Tabs -> ReqState]
    BY <1>0, <1>3, ToIs DEF EnsureCloned, Pcs
  <2> QED  BY <1>0, <1>t, <1>g, <1>3, <2>1 DEF EnsureCloned, folder, memory
<1>4. ASSUME NEW a \in Tabs, Mark(a) PROVE ClonesTypeOK'
  <2>1. req' \in [Tabs -> ReqState]
    BY <1>0, <1>4, ToIs DEF Mark, Pcs
  <2> QED  BY <1>0, <1>t, <1>g, <1>4, <2>1 DEF Mark, folder, memory
<1>5. ASSUME NEW a \in Tabs, GitClone(a) PROVE ClonesTypeOK'
  <2>1. req' \in [Tabs -> ReqState]
    BY <1>0, <1>5, ToIs, OverIs DEF GitClone, Pcs
  <2>2. disk' \in {"none", "rest", "half", "mirror", "branch", "edited"}
    BY <1>0, <1>5 DEF GitClone, HalfClone
  <2>3. tracked' \in BOOLEAN /\ mtime' \in 0..Retention
    BY <1>0, <1>g, <1>5 DEF GitClone
  <2>4. ensureMu' \in Tabs \cup {NoOne}
    BY <1>0, <1>5 DEF GitClone
  <2>5. UNCHANGED <<written, row, known, ensured, reclaimMu, stamp, jan, raced>>
    BY <1>5 DEF GitClone
  <2> QED  BY <1>0, <1>t, <2>1, <2>2, <2>3, <2>4, <2>5
<1>6. ASSUME NEW a \in Tabs, FirstFetch(a) PROVE ClonesTypeOK'
  <2>1. req' \in [Tabs -> ReqState]
    BY <1>0, <1>6, ToIs, OverIs DEF FirstFetch, Pcs
  <2> QED  BY <1>0, <1>t, <1>g, <1>6, <2>1 DEF FirstFetch, folder, memory
<1>7. ASSUME NEW a \in Tabs, Touch(a) PROVE ClonesTypeOK'
  <2>1. req' \in [Tabs -> ReqState]
    BY <1>0, <1>7, ToIs DEF Touch, Pcs
  <2> QED  BY <1>0, <1>t, <1>g, <1>7, <2>1 DEF Touch, TouchClone, folder, memory
<1>8. ASSUME NEW a \in Tabs, Serve(a) PROVE ClonesTypeOK'
  <2>1. req' \in [Tabs -> ReqState]
    BY <1>0, <1>8, OverIs DEF Serve, Pcs
  <2>2. disk' \in {"none", "rest", "half", "mirror", "branch", "edited"} /\ tracked' \in BOOLEAN
    BY <1>0, <1>8 DEF Serve
  <2>3. written' \in 0..Retention
    BY <1>0, <1>g, <1>8 DEF Serve
  <2>4. raced' \in BOOLEAN
    BY <1>0, <1>8 DEF Serve
  <2>5. UNCHANGED <<mtime, row, known, ensured, ensureMu, reclaimMu, stamp, jan>>
    BY <1>8 DEF Serve, memory
  <2> QED  BY <1>0, <1>t, <2>1, <2>2, <2>3, <2>4, <2>5
<1>9. ASSUME NEW a \in Tabs, NEW force \in BOOLEAN, NEW close \in BOOLEAN, StartReclaim(a, force, close) PROVE ClonesTypeOK'
  <2>1. req' \in [Tabs -> ReqState]
    BY <1>0, <1>9, AskedIs DEF StartReclaim, Pcs
  <2> QED  BY <1>0, <1>t, <1>g, <1>9, <2>1 DEF StartReclaim, folder, memory
<1>10. ASSUME NEW a \in Tabs, StatClone(a) PROVE ClonesTypeOK'
  <2>1. req' \in [Tabs -> ReqState]
    BY <1>0, <1>10, ToIs, OverIs DEF StatClone, Pcs
  <2> QED  BY <1>0, <1>t, <1>g, <1>10, <2>1 DEF StatClone, folder, memory
<1>11. ASSUME NEW a \in Tabs, CheckClone(a) PROVE ClonesTypeOK'
  <2>1. req' \in [Tabs -> ReqState]
    BY <1>0, <1>11, ToIs, OverIs DEF CheckClone, Pcs
  <2>2. reclaimMu' \in Tabs \cup {Janitor, NoOne} /\ raced' \in BOOLEAN
    BY <1>0, <1>11 DEF CheckClone, Fresh
  <2> QED  BY <1>0, <1>t, <1>11, <2>1, <2>2 DEF CheckClone, folder
<1>12. ASSUME NEW a \in Tabs, RemoveClone(a) PROVE ClonesTypeOK'
  <2>1. req' \in [Tabs -> ReqState]
    BY <1>0, <1>12, ToIs, OverIs DEF RemoveClone, Pcs
  <2>2. /\ disk' \in {"none", "rest", "half", "mirror", "branch", "edited"}
        /\ tracked' \in BOOLEAN /\ mtime' \in 0..Retention /\ written' \in 0..Retention
        /\ raced' \in BOOLEAN
    BY <1>0, <1>g, <1>12, RemovalIs DEF RemoveClone
  <2>3. reclaimMu' = NoOne /\ UNCHANGED <<row, known, ensured, ensureMu, stamp, jan>>
    BY <1>12 DEF RemoveClone
  <2> QED  BY <1>0, <1>t, <2>1, <2>2, <2>3
<1>13. ASSUME NEW a \in Tabs, InvalidateClone(a) PROVE ClonesTypeOK'
  <2>1. req' \in [Tabs -> ReqState]
    BY <1>0, <1>13, ToIs DEF InvalidateClone, Pcs
  <2> QED  BY <1>0, <1>t, <1>g, <1>13, <2>1 DEF InvalidateClone, Invalidate, Forgotten, folder, memory
<1>14. ASSUME NEW a \in Tabs, DropCloneUse(a) PROVE ClonesTypeOK'
  <2>1. req' \in [Tabs -> ReqState]
    BY <1>0, <1>14, ToIs, OverIs DEF DropCloneUse, Pcs
  <2> QED  BY <1>0, <1>t, <1>g, <1>14, <2>1 DEF DropCloneUse, folder, memory
<1>15. ASSUME NEW a \in Tabs, DeleteUserProject(a) PROVE ClonesTypeOK'
  <2>1. req' \in [Tabs -> ReqState]
    BY <1>0, <1>15, ToIs DEF DeleteUserProject, Pcs
  <2> QED  BY <1>0, <1>t, <1>g, <1>15, <2>1 DEF DeleteUserProject, folder, memory
<1>16. ASSUME NEW a \in Tabs, Close(a) PROVE ClonesTypeOK'
  <2>1. req' \in [Tabs -> ReqState]
    BY <1>0, <1>16, OverIs DEF Close, Pcs
  <2> QED  BY <1>0, <1>t, <1>g, <1>16, <2>1 DEF Close, folder, memory
<1>17. CASE ScanScope
  <2>1. jan' \in JanState
    BY <1>0, <1>17, JanToIs, NoJanOK DEF ScanScope, JanState, CloneUnsynced
  <2>2. raced' \in BOOLEAN
    BY <1>0, <1>17 DEF ScanScope, Fresh
  <2> QED  BY <1>0, <1>t, <1>17, <2>1, <2>2 DEF ScanScope, folder, memory
<1>18. CASE Judge
  <2>1. jan' \in JanState
    BY <1>0, <1>18, JanToIs, NoJanOK DEF Judge
  <2> QED  BY <1>0, <1>t, <1>g, <1>18, <2>1 DEF Judge, folder, memory
<1>19. CASE JanCheck
  <2>1. jan' \in JanState
    BY <1>0, <1>19, JanToIs, NoJanOK DEF JanCheck
  <2> QED  BY <1>0, <1>t, <1>g, <1>19, <2>1 DEF JanCheck, folder, memory
<1>20. CASE JanRemove
  <2>1. jan' \in JanState
    BY <1>0, <1>20, JanToIs, NoJanOK DEF JanRemove
  <2>2. /\ disk' \in {"none", "rest", "half", "mirror", "branch", "edited"}
        /\ tracked' \in BOOLEAN /\ mtime' \in 0..Retention /\ written' \in 0..Retention
        /\ raced' \in BOOLEAN
    BY <1>0, <1>g, <1>20, RemovalIs DEF JanRemove
  <2>3. reclaimMu' = NoOne /\ UNCHANGED <<row, known, ensured, ensureMu, stamp, req>>
    BY <1>20 DEF JanRemove
  <2> QED  BY <1>0, <1>t, <2>1, <2>2, <2>3
<1>21. CASE JanInvalidate
  <2>1. jan' \in JanState
    BY <1>0, <1>21, JanToIs, NoJanOK DEF JanInvalidate
  <2> QED  BY <1>0, <1>t, <1>g, <1>21, <2>1 DEF JanInvalidate, Invalidate, Forgotten, folder, memory
<1>22. CASE JanDrop
  <2>1. jan' \in JanState
    BY <1>0, <1>22, JanToIs, NoJanOK DEF JanDrop
  <2> QED  BY <1>0, <1>t, <1>g, <1>22, <2>1 DEF JanDrop, folder, memory
<1>23. CASE ClockTick
  <2>1. stamp' \in Stamps
    BY <1>0, <1>g, <1>23, StampIs, OlderIs, Periods DEF ClockTick
  <2>2. mtime' \in 0..Retention /\ written' \in 0..Retention
    BY <1>0, <1>23, OlderIs DEF ClockTick
  <2> QED  BY <1>0, <1>t, <1>23, <2>1, <2>2 DEF ClockTick, memory
<1>24. CASE Die
  <2>1. req' \in [Tabs -> ReqState]
    BY <1>24, NoReqOK DEF Die
  <2>2. /\ disk' \in {"none", "rest", "half", "mirror", "branch", "edited"}
        /\ tracked' \in BOOLEAN /\ mtime' \in 0..Retention /\ written' \in 0..Retention
    BY <1>0, <1>g, <1>24, RemovalIs DEF Die, CutShort, HalfClone, folder
  <2>3. /\ known' = FALSE /\ ensured' = FALSE /\ ensureMu' = NoOne /\ reclaimMu' = NoOne
        /\ jan' = NoJan /\ raced' = FALSE /\ UNCHANGED <<row, stamp>>
    BY <1>24 DEF Die
  <2> QED  BY <1>0, <1>t, <2>1, <2>2, <2>3, NoJanOK
<1>25. CASE UNCHANGED clones
  BY <1>25 DEF clones, folder, memory, ClonesTypeOK
<1> QED
  BY <1>1, <1>2, <1>3, <1>4, <1>5, <1>6, <1>7, <1>8, <1>9, <1>10, <1>11, <1>12,
     <1>13, <1>14, <1>15, <1>16, <1>17, <1>18, <1>19, <1>20, <1>21, <1>22, <1>23,
     <1>24, <1>25 DEF ClonesNext, ReqStep, JanStep

-----------------------------------------------------------------------------
(* Where the steps lead                                                    *)

\* Each step of a request: where it is taken from, and where it leads.
LEMMA Leads ==
  ASSUME ClonesTypeOK, NEW a \in Tabs
  PROVE
    /\ OpenProject(a) \/ Resolve(a) =>
         Others(a) /\ req[a].pc = "idle" /\ req'[a].pc = "ensure"
    /\ EnsureCloned(a) =>
         Others(a) /\ req[a].pc = "ensure" /\ ensureMu = NoOne /\ UNCHANGED reclaimMu
         /\ \/ req'[a].pc = "touch" /\ UNCHANGED ensureMu /\ ensured
            \/ req'[a].pc \in {"clone", "mark"} /\ ensureMu' = a
               /\ (req'[a].pc = "mark" => HasHead)
    /\ Mark(a) =>
         Others(a) /\ req[a].pc = "mark" /\ req'[a].pc = "touch"
    /\ GitClone(a) =>
         Others(a) /\ req[a].pc = "clone" /\ UNCHANGED reclaimMu
         /\ \/ req'[a].pc = "fetch" /\ UNCHANGED ensureMu
            \/ req'[a].pc = "idle"
    /\ FirstFetch(a) =>
         Others(a) /\ req[a].pc = "fetch" /\ req'[a].pc \in {"touch", "idle"}
    /\ Touch(a) =>
         Others(a) /\ req[a].pc = "touch" /\ req'[a].pc = "serve"
    /\ Serve(a) =>
         Others(a) /\ req[a].pc = "serve" /\ req'[a].pc = "idle"
    /\ StatClone(a) =>
         Others(a) /\ req[a].pc = "stat" /\ req'[a].pc \in {"check", "delete", "idle"}
    /\ CheckClone(a) =>
         Others(a) /\ req[a].pc = "check" /\ reclaimMu = NoOne /\ UNCHANGED ensureMu
         /\ \/ req'[a].pc = "remove" /\ reclaimMu' = a
               /\ Reclaimable(req[a].force) /\ req'[a].force = req[a].force
            \/ req'[a].pc = "idle" /\ UNCHANGED reclaimMu
    /\ RemoveClone(a) =>
         Others(a) /\ req[a].pc = "remove"
         /\ \/ req'[a].pc = "invalidate" /\ RemoveAll
            \/ req'[a].pc = "idle" /\ RemoveFails
    /\ InvalidateClone(a) =>
         Others(a) /\ req[a].pc = "invalidate" /\ req'[a].pc = "drop"
    /\ DropCloneUse(a) =>
         Others(a) /\ req[a].pc = "drop" /\ req'[a].pc \in {"delete", "idle"}
    /\ DeleteUserProject(a) =>
         Others(a) /\ req[a].pc = "delete" /\ req'[a].pc = "unregister"
    /\ Close(a) =>
         Others(a) /\ req[a].pc = "unregister" /\ req'[a].pc = "idle"
    /\ \A force, close \in BOOLEAN : StartReclaim(a, force, close) =>
         Others(a) /\ req[a].pc = "idle" /\ req'[a].pc = "stat"
<1>0. req \in [Tabs -> ReqState]
  BY DEF ClonesTypeOK
<1>1. ASSUME OpenProject(a) \/ Resolve(a)
      PROVE  Others(a) /\ req[a].pc = "idle" /\ req'[a].pc = "ensure"
  BY <1>0, <1>1, ToIs DEF OpenProject, Resolve, Pcs
<1>2. ASSUME EnsureCloned(a)
      PROVE  Others(a) /\ req[a].pc = "ensure" /\ ensureMu = NoOne /\ UNCHANGED reclaimMu
         /\ \/ req'[a].pc = "touch" /\ UNCHANGED ensureMu /\ ensured
            \/ req'[a].pc \in {"clone", "mark"} /\ ensureMu' = a
               /\ (req'[a].pc = "mark" => HasHead)
  BY <1>0, <1>2, ToIs DEF EnsureCloned, Pcs
<1>3. ASSUME Mark(a)
      PROVE  Others(a) /\ req[a].pc = "mark" /\ req'[a].pc = "touch"
  BY <1>0, <1>3, ToIs DEF Mark, Pcs
<1>4. ASSUME GitClone(a)
      PROVE  Others(a) /\ req[a].pc = "clone" /\ UNCHANGED reclaimMu
         /\ \/ req'[a].pc = "fetch" /\ UNCHANGED ensureMu
            \/ req'[a].pc = "idle"
  BY <1>0, <1>4, ToIs, OverIs DEF GitClone, Pcs
<1>5. ASSUME FirstFetch(a)
      PROVE  Others(a) /\ req[a].pc = "fetch" /\ req'[a].pc \in {"touch", "idle"}
  BY <1>0, <1>5, ToIs, OverIs DEF FirstFetch, Pcs
<1>6. ASSUME Touch(a)
      PROVE  Others(a) /\ req[a].pc = "touch" /\ req'[a].pc = "serve"
  BY <1>0, <1>6, ToIs DEF Touch, Pcs
<1>7. ASSUME Serve(a)
      PROVE  Others(a) /\ req[a].pc = "serve" /\ req'[a].pc = "idle"
  BY <1>0, <1>7, OverIs DEF Serve, Pcs
<1>8. ASSUME StatClone(a)
      PROVE  Others(a) /\ req[a].pc = "stat" /\ req'[a].pc \in {"check", "delete", "idle"}
  BY <1>0, <1>8, ToIs, OverIs DEF StatClone, Pcs
<1>9. ASSUME CheckClone(a)
      PROVE  Others(a) /\ req[a].pc = "check" /\ reclaimMu = NoOne /\ UNCHANGED ensureMu
         /\ \/ req'[a].pc = "remove" /\ reclaimMu' = a
               /\ Reclaimable(req[a].force) /\ req'[a].force = req[a].force
            \/ req'[a].pc = "idle" /\ UNCHANGED reclaimMu
  BY <1>0, <1>9, ToIs, OverIs DEF CheckClone, Pcs
<1>10. ASSUME RemoveClone(a)
      PROVE  Others(a) /\ req[a].pc = "remove"
         /\ \/ req'[a].pc = "invalidate" /\ RemoveAll
            \/ req'[a].pc = "idle" /\ RemoveFails
  BY <1>0, <1>10, ToIs, OverIs DEF RemoveClone, Pcs
<1>11. ASSUME InvalidateClone(a)
      PROVE  Others(a) /\ req[a].pc = "invalidate" /\ req'[a].pc = "drop"
  BY <1>0, <1>11, ToIs DEF InvalidateClone, Pcs
<1>12. ASSUME DropCloneUse(a)
      PROVE  Others(a) /\ req[a].pc = "drop" /\ req'[a].pc \in {"delete", "idle"}
  BY <1>0, <1>12, ToIs, OverIs DEF DropCloneUse, Pcs
<1>13. ASSUME DeleteUserProject(a)
      PROVE  Others(a) /\ req[a].pc = "delete" /\ req'[a].pc = "unregister"
  BY <1>0, <1>13, ToIs DEF DeleteUserProject, Pcs
<1>14. ASSUME Close(a)
      PROVE  Others(a) /\ req[a].pc = "unregister" /\ req'[a].pc = "idle"
  BY <1>0, <1>14, OverIs DEF Close, Pcs
<1>15. ASSUME NEW force \in BOOLEAN, NEW close \in BOOLEAN, StartReclaim(a, force, close)
      PROVE  Others(a) /\ req[a].pc = "idle" /\ req'[a].pc = "stat"
  BY <1>0, <1>15, AskedIs DEF StartReclaim
<1> QED
  BY <1>1, <1>2, <1>3, <1>4, <1>5, <1>6, <1>7, <1>8, <1>9, <1>10, <1>11, <1>12,
     <1>13, <1>14, <1>15

\* The steps of the janitor, which only a request's memory of it outlives.
LEMMA JanLeads ==
  ASSUME ClonesTypeOK
  PROVE
    /\ ScanScope => jan.pc = "idle" /\ jan'.pc = "judge" /\ jan'.mtime = mtime
                    /\ CloneUnsynced(jan'.unsynced) /\ UNCHANGED req
    /\ Judge => /\ jan.pc = "judge" /\ UNCHANGED req
                /\ \/ jan'.pc = "idle"
                   \/ jan'.pc = "check" /\ Judged
                      /\ jan'.unsynced = jan.unsynced /\ jan'.mtime = jan.mtime
    /\ JanCheck => /\ jan.pc = "check" /\ UNCHANGED req
                   /\ \/ jan'.pc = "idle"
                      \/ jan'.pc = "remove" /\ Reclaimable(jan.unsynced) /\ reclaimMu' = Janitor
                         /\ jan'.unsynced = jan.unsynced /\ jan'.mtime = jan.mtime
    /\ JanRemove => /\ jan.pc = "remove" /\ UNCHANGED req
                    /\ \/ jan'.pc = "invalidate" /\ RemoveAll
                       \/ jan'.pc = "idle" /\ RemoveFails
    /\ JanInvalidate => jan.pc = "invalidate" /\ jan'.pc = "drop" /\ UNCHANGED req
    /\ JanDrop => jan.pc = "drop" /\ jan'.pc = "idle" /\ UNCHANGED req
<1>0. jan \in JanState
  BY DEF ClonesTypeOK
<1>1. ASSUME ScanScope
      PROVE  jan.pc = "idle" /\ jan'.pc = "judge" /\ jan'.mtime = mtime
             /\ CloneUnsynced(jan'.unsynced) /\ UNCHANGED req
  BY <1>1 DEF ScanScope
<1>2. ASSUME Judge
      PROVE  /\ jan.pc = "judge" /\ UNCHANGED req
             /\ \/ jan'.pc = "idle"
                \/ jan'.pc = "check" /\ Judged
                   /\ jan'.unsynced = jan.unsynced /\ jan'.mtime = jan.mtime
  BY <1>0, <1>2, JanToIs, NoJanOK DEF Judge
<1>3. ASSUME JanCheck
      PROVE  /\ jan.pc = "check" /\ UNCHANGED req
             /\ \/ jan'.pc = "idle"
                \/ jan'.pc = "remove" /\ Reclaimable(jan.unsynced) /\ reclaimMu' = Janitor
                   /\ jan'.unsynced = jan.unsynced /\ jan'.mtime = jan.mtime
  BY <1>0, <1>3, JanToIs, NoJanOK DEF JanCheck
<1>4. ASSUME JanRemove \/ JanInvalidate \/ JanDrop
      PROVE  /\ JanRemove => /\ jan.pc = "remove" /\ UNCHANGED req
                             /\ \/ jan'.pc = "invalidate" /\ RemoveAll
                                \/ jan'.pc = "idle" /\ RemoveFails
             /\ JanInvalidate => jan.pc = "invalidate" /\ jan'.pc = "drop" /\ UNCHANGED req
             /\ JanDrop => jan.pc = "drop" /\ jan'.pc = "idle" /\ UNCHANGED req
  BY <1>0, JanToIs, NoJanOK DEF JanRemove, JanInvalidate, JanDrop
<1> QED  BY <1>1, <1>2, <1>3, <1>4

\* After a crash nobody is on his way.
LEMMA DieLeads ==
  Die => jan'.pc = "idle" /\ \A a \in Tabs : req'[a].pc = "idle"
  BY NoReqOK, NoJanOK DEF Die

-----------------------------------------------------------------------------
(* Locks                                                                   *)

\* Every step keeps each mutex with who is inside.
LEMMA StepLocks ==
  ASSUME ClonesTypeOK, LocksOK, [ClonesNext]_clones
  PROVE  LocksOK'
<1>1. ASSUME NEW a \in Tabs, OpenProject(a) PROVE LocksOK'
  BY <1>1, Leads, Periods DEF OpenProject, memory, LocksOK, Others
<1>2. ASSUME NEW a \in Tabs, Resolve(a) PROVE LocksOK'
  BY <1>2, Leads, Periods DEF Resolve, memory, LocksOK, Others
<1>3. ASSUME NEW a \in Tabs, EnsureCloned(a) PROVE LocksOK'
  <2>1. \A b \in Tabs : req[b].pc \notin {"mark", "clone", "fetch"}
    BY <1>3, Leads, Periods DEF LocksOK
  <2>2. jan' = jan
    BY <1>3 DEF EnsureCloned
  <2> QED  BY <1>3, <2>1, <2>2, Leads DEF LocksOK, Others
<1>4. ASSUME NEW a \in Tabs, Mark(a) PROVE LocksOK'
  BY <1>4, Leads, Periods DEF Mark, memory, LocksOK, Others
<1>5. ASSUME NEW a \in Tabs, GitClone(a) PROVE LocksOK'
  <2>1. ensureMu = a /\ UNCHANGED <<reclaimMu, jan>>
    BY <1>5, Leads DEF GitClone, LocksOK
  <2>2. \A b \in Tabs : b # a => req[b].pc \notin {"mark", "clone", "fetch"}
    BY <2>1 DEF LocksOK
  <2> QED  BY <1>5, <2>1, <2>2, Leads DEF LocksOK, Others
<1>6. ASSUME NEW a \in Tabs, FirstFetch(a) PROVE LocksOK'
  BY <1>6, Leads, Periods DEF FirstFetch, memory, LocksOK, Others
<1>7. ASSUME NEW a \in Tabs, Touch(a) PROVE LocksOK'
  BY <1>7, Leads, Periods DEF Touch, memory, LocksOK, Others
<1>8. ASSUME NEW a \in Tabs, Serve(a) PROVE LocksOK'
  BY <1>8, Leads, Periods DEF Serve, memory, LocksOK, Others
<1>9. ASSUME NEW a \in Tabs, NEW force \in BOOLEAN, NEW close \in BOOLEAN, StartReclaim(a, force, close) PROVE LocksOK'
  BY <1>9, Leads, Periods DEF StartReclaim, memory, LocksOK, Others
<1>10. ASSUME NEW a \in Tabs, StatClone(a) PROVE LocksOK'
  BY <1>10, Leads, Periods DEF StatClone, memory, LocksOK, Others
<1>11. ASSUME NEW a \in Tabs, CheckClone(a) PROVE LocksOK'
  <2>1. \A b \in Tabs : req[b].pc # "remove"
    BY <1>11, Leads, Periods DEF LocksOK
  <2>2. jan.pc # "remove" /\ jan' = jan
    BY <1>11, Leads, Periods DEF CheckClone, LocksOK
  <2> QED  BY <1>11, <2>1, <2>2, Leads DEF LocksOK, Others
<1>12. ASSUME NEW a \in Tabs, RemoveClone(a) PROVE LocksOK'
  BY <1>12, Leads, Periods DEF RemoveClone, memory, LocksOK, Others
<1>13. ASSUME NEW a \in Tabs, InvalidateClone(a) PROVE LocksOK'
  BY <1>13, Leads, Periods DEF InvalidateClone, Invalidate, memory, LocksOK, Others
<1>14. ASSUME NEW a \in Tabs, DropCloneUse(a) PROVE LocksOK'
  BY <1>14, Leads, Periods DEF DropCloneUse, memory, LocksOK, Others
<1>15. ASSUME NEW a \in Tabs, DeleteUserProject(a) PROVE LocksOK'
  BY <1>15, Leads, Periods DEF DeleteUserProject, memory, LocksOK, Others
<1>16. ASSUME NEW a \in Tabs, Close(a) PROVE LocksOK'
  BY <1>16, Leads, Periods DEF Close, memory, LocksOK, Others
<1>17. CASE ScanScope
  BY <1>17, JanLeads, Periods DEF ScanScope, memory, LocksOK
<1>18. CASE Judge
  BY <1>18, JanLeads, Periods DEF Judge, memory, LocksOK
<1>19. CASE JanCheck
  BY <1>19, JanLeads, Periods DEF JanCheck, memory, LocksOK
<1>20. CASE JanRemove
  BY <1>20, JanLeads, Periods DEF JanRemove, memory, LocksOK
<1>21. CASE JanInvalidate
  BY <1>21, JanLeads, Periods DEF JanInvalidate, Invalidate, memory, LocksOK
<1>22. CASE JanDrop
  BY <1>22, JanLeads, Periods DEF JanDrop, memory, LocksOK
<1>23. CASE ClockTick \/ UNCHANGED clones
  BY <1>23 DEF ClockTick, clones, memory, LocksOK
<1>24. CASE Die
  BY <1>24, DieLeads DEF LocksOK
<1> QED
  BY <1>1, <1>2, <1>3, <1>4, <1>5, <1>6, <1>7, <1>8, <1>9, <1>10, <1>11, <1>12,
     <1>13, <1>14, <1>15, <1>16, <1>17, <1>18, <1>19, <1>20, <1>21, <1>22, <1>23,
     <1>24 DEF ClonesNext, ReqStep, JanStep

-----------------------------------------------------------------------------
(* A trusted clone exists                                                  *)

\* Every step keeps a clone where the manager trusts one to be.  A removal
\* cannot end while somebody who saw the clone is about to say it is complete.
LEMMA StepTrust ==
  ASSUME ClonesTypeOK, LocksOK, TrustOK, [ClonesNext]_clones
  PROVE  TrustOK'
\* A step that neither takes the clone away nor begins to trust it, of a
\* request that is not the one to tell.
<1>f. ASSUME NEW a \in Tabs, Others(a), UNCHANGED jan,
             ensured' => ensured, disk' = "none" => disk = "none",
             req'[a].pc # "mark", req[a].pc # "invalidate"
      PROVE  TrustOK'
  BY <1>f DEF TrustOK, Telling, Others
<1>1. ASSUME NEW a \in Tabs, OpenProject(a) \/ Resolve(a) PROVE TrustOK'
  BY <1>1, <1>f, Leads DEF OpenProject, Resolve, folder
<1>2. ASSUME NEW a \in Tabs, EnsureCloned(a) PROVE TrustOK'
  <2>1. UNCHANGED <<disk, ensured, jan>>
    BY <1>2 DEF EnsureCloned, folder
  <2>2. CASE req'[a].pc # "mark"
    BY <1>2, <1>f, <2>1, <2>2, Leads
  <2>3. CASE req'[a].pc = "mark"
    BY <1>2, <2>1, <2>3, Leads DEF TrustOK, HasHead
  <2> QED  BY <2>2, <2>3
<1>3. ASSUME NEW a \in Tabs, Mark(a) PROVE TrustOK'
  <2>1. UNCHANGED <<disk, jan>> /\ req[a].pc = "mark"
    BY <1>3, Leads DEF Mark, folder
  <2>2. disk = "none" => Telling
    BY <2>1 DEF TrustOK
  <2>3. Telling => Telling'
    BY <1>3, <2>1, Leads DEF Telling, Others
  <2> QED  BY <2>1, <2>2, <2>3 DEF TrustOK
<1>4. ASSUME NEW a \in Tabs, GitClone(a) PROVE TrustOK'
  <2>1. UNCHANGED <<ensured, jan>> /\ (disk' = "none" => disk = "none")
    BY <1>4 DEF GitClone, HalfClone
  <2> QED  BY <1>4, <1>f, <2>1, Leads
<1>5. ASSUME NEW a \in Tabs, FirstFetch(a) PROVE TrustOK'
  <2>1. UNCHANGED <<disk, jan>>
    BY <1>5 DEF FirstFetch
  <2>2. disk # "none" \/ ensured' = ensured
    BY <1>5 DEF FirstFetch, HasHead
  <2> QED  BY <1>5, <1>f, <2>1, <2>2, Leads DEF TrustOK
<1>6. ASSUME NEW a \in Tabs, Touch(a) \/ Serve(a) \/ StatClone(a) PROVE TrustOK'
  <2>1. UNCHANGED <<ensured, jan>> /\ (disk' = "none" => disk = "none")
    BY <1>6 DEF Touch, Serve, StatClone, folder, memory
  <2>2. Others(a) /\ req[a].pc # "invalidate" /\ req'[a].pc # "mark"
    BY <1>6, Leads
  <2> QED  BY <1>f, <2>1, <2>2
<1>7. ASSUME NEW a \in Tabs, NEW force \in BOOLEAN, NEW close \in BOOLEAN,
             StartReclaim(a, force, close)
      PROVE  TrustOK'
  <2>1. UNCHANGED <<disk, ensured, jan>>
    BY <1>7 DEF StartReclaim, folder, memory
  <2>2. Others(a) /\ req[a].pc = "idle" /\ req'[a].pc = "stat"
    BY <1>7, Leads
  <2> QED  BY <1>f, <2>1, <2>2
<1>8. ASSUME NEW a \in Tabs, CheckClone(a) PROVE TrustOK'
  <2>1. UNCHANGED <<disk, ensured, jan>>
    BY <1>8 DEF CheckClone, folder
  <2> QED  BY <1>8, <1>f, <2>1, Leads
<1>9. ASSUME NEW a \in Tabs, RemoveClone(a) PROVE TrustOK'
  <2>1. UNCHANGED <<ensured, jan>>
    BY <1>9 DEF RemoveClone
  <2>2. CASE req'[a].pc = "invalidate"
    BY <2>2 DEF TrustOK, Telling
  <2>3. CASE req'[a].pc = "idle" /\ RemoveFails
    <3>1. disk' = "none" => disk = "none"
      BY <2>3, RemovalIs
    <3> QED  BY <1>9, <1>f, <2>1, <2>3, <3>1, Leads
  <2> QED  BY <1>9, <2>2, <2>3, Leads
<1>10. ASSUME NEW a \in Tabs, InvalidateClone(a) PROVE TrustOK'
  <2>1. ~ensured' /\ ensureMu = NoOne
    BY <1>10 DEF InvalidateClone, Invalidate, Forgotten
  <2>2. \A b \in Tabs : req'[b].pc # "mark"
    BY <1>10, <2>1, Leads, Periods DEF LocksOK, Others
  <2> QED  BY <2>1, <2>2 DEF TrustOK
<1>11. ASSUME NEW a \in Tabs, DropCloneUse(a) \/ DeleteUserProject(a) \/ Close(a) PROVE TrustOK'
  <2>1. UNCHANGED <<disk, jan>> /\ (ensured' => ensured)
    BY <1>11 DEF DropCloneUse, DeleteUserProject, Close, folder, memory
  <2>2. Others(a) /\ req[a].pc # "invalidate" /\ req'[a].pc # "mark"
    BY <1>11, Leads
  <2> QED  BY <1>f, <2>1, <2>2
<1>12. CASE ScanScope \/ Judge \/ JanCheck \/ JanDrop
  <2>1. UNCHANGED <<disk, ensured, req>>
    BY <1>12, JanLeads DEF ScanScope, Judge, JanCheck, JanDrop, folder, memory
  <2>2. jan.pc # "invalidate"
    BY <1>12, JanLeads
  <2> QED  BY <2>1, <2>2 DEF TrustOK, Telling
<1>13. CASE JanRemove
  <2>1. UNCHANGED <<ensured, req>> /\ jan.pc = "remove"
    BY <1>13, JanLeads DEF JanRemove
  <2>2. CASE jan'.pc = "invalidate"
    BY <2>2 DEF TrustOK, Telling
  <2>3. CASE RemoveFails
    <3>1. disk' = "none" => disk = "none"
      BY <2>3, RemovalIs
    <3> QED  BY <2>1, <3>1 DEF TrustOK, Telling
  <2> QED  BY <1>13, <2>2, <2>3, JanLeads
<1>14. CASE JanInvalidate
  <2>1. ~ensured' /\ ensureMu = NoOne /\ UNCHANGED req
    BY <1>14, JanLeads DEF JanInvalidate, Invalidate, Forgotten
  <2> QED  BY <2>1, Periods DEF TrustOK, LocksOK
<1>15. CASE ClockTick \/ UNCHANGED clones
  BY <1>15 DEF ClockTick, clones, folder, memory, TrustOK, Telling
<1>16. CASE Die
  BY <1>16, DieLeads DEF Die, TrustOK
<1> QED
  BY <1>1, <1>2, <1>3, <1>4, <1>5, <1>6, <1>7, <1>8, <1>9, <1>10, <1>11, <1>12,
     <1>13, <1>14, <1>15, <1>16 DEF ClonesNext, ReqStep, JanStep

-----------------------------------------------------------------------------
(* Work outlives idleness                                                  *)

\* Every step keeps what the hour of a removal is like: the clock does not move
\* before everybody is done.
LEMMA StepHour ==
  ASSUME ClonesTypeOK, HourOK, [ClonesNext]_clones
  PROVE  HourOK'
\* A step that ages nothing, of a request that is not about to be served.
<1>f. ASSUME NEW a \in Tabs, Others(a), UNCHANGED <<stamp, jan>>, mtime' = mtime \/ mtime' = 0,
             req'[a].pc \in {"invalidate", "drop"} => mtime' = 0, req'[a].pc # "serve"
      PROVE  HourOK'
  BY <1>f DEF HourOK, Others
<1>1. ASSUME NEW a \in Tabs, OpenProject(a) \/ Resolve(a) PROVE HourOK'
  BY <1>1, <1>f, Leads DEF OpenProject, Resolve, folder
<1>2. ASSUME NEW a \in Tabs, EnsureCloned(a) PROVE HourOK'
  <2>1. UNCHANGED <<mtime, stamp, jan>>
    BY <1>2 DEF EnsureCloned, folder
  <2> QED  BY <1>2, <1>f, <2>1, Leads
<1>3. ASSUME NEW a \in Tabs, Mark(a) \/ GitClone(a) \/ FirstFetch(a) \/ Serve(a) PROVE HourOK'
  <2>1. UNCHANGED <<stamp, jan>> /\ (mtime' = mtime \/ mtime' = 0)
    BY <1>3 DEF Mark, GitClone, FirstFetch, Serve, folder
  <2> QED  BY <1>3, <1>f, <2>1, Leads
<1>4. ASSUME NEW a \in Tabs, Touch(a) PROVE HourOK'
  <2>1. stamp' = 0 /\ UNCHANGED <<mtime, jan>>
    BY <1>4 DEF Touch, TouchClone, folder
  <2> QED  BY <1>4, <2>1, Leads DEF HourOK, Others
<1>5. ASSUME NEW a \in Tabs, NEW force \in BOOLEAN, NEW close \in BOOLEAN,
             StartReclaim(a, force, close)
      PROVE  HourOK'
  <2>1. UNCHANGED <<mtime, stamp, jan>>
    BY <1>5 DEF StartReclaim, folder
  <2>2. Others(a) /\ req'[a].pc = "stat"
    BY <1>5, Leads
  <2> QED  BY <1>f, <2>1, <2>2
<1>6. ASSUME NEW a \in Tabs, StatClone(a) \/ CheckClone(a) PROVE HourOK'
  <2>1. UNCHANGED <<mtime, stamp, jan>>
    BY <1>6 DEF StatClone, CheckClone, folder
  <2>2. Others(a) /\ req'[a].pc \in {"check", "delete", "remove", "idle"}
    BY <1>6, Leads
  <2> QED  BY <1>f, <2>1, <2>2
<1>7. ASSUME NEW a \in Tabs, RemoveClone(a) PROVE HourOK'
  <2>1. UNCHANGED <<stamp, jan>> /\ (mtime' = mtime \/ mtime' = 0)
        /\ (RemoveAll => mtime' = 0)
    BY <1>7, RemovalIs DEF RemoveClone
  <2>2. /\ Others(a)
        /\ \/ req'[a].pc = "invalidate" /\ RemoveAll
           \/ req'[a].pc = "idle"
    BY <1>7, Leads
  <2> QED  BY <1>f, <2>1, <2>2
<1>8. ASSUME NEW a \in Tabs, InvalidateClone(a) PROVE HourOK'
  <2>1. UNCHANGED <<mtime, stamp, jan>> /\ mtime = 0
    BY <1>8, Leads DEF InvalidateClone, folder, HourOK
  <2> QED  BY <1>8, <1>f, <2>1, Leads
<1>9. ASSUME NEW a \in Tabs, DropCloneUse(a) PROVE HourOK'
  <2>1. stamp' = NoOne /\ UNCHANGED <<mtime, jan>> /\ mtime = 0
    BY <1>9, Leads DEF DropCloneUse, folder, HourOK
  <2> QED  BY <1>9, <2>1, Leads DEF HourOK, Others
<1>10. ASSUME NEW a \in Tabs, DeleteUserProject(a) \/ Close(a) PROVE HourOK'
  BY <1>10, <1>f, Leads DEF DeleteUserProject, Close, folder
<1>11. CASE ScanScope \/ Judge \/ JanCheck
  <2>1. UNCHANGED <<mtime, stamp, req>> /\ jan'.pc \notin {"invalidate", "drop"}
    BY <1>11, JanLeads DEF ScanScope, Judge, JanCheck, folder
  <2> QED  BY <2>1 DEF HourOK
<1>12. CASE JanRemove
  <2>1. UNCHANGED <<stamp, req>> /\ (mtime' = mtime \/ mtime' = 0)
    BY <1>12, JanLeads, RemovalIs DEF JanRemove
  <2>2. jan'.pc = "idle" \/ mtime' = 0
    BY <1>12, JanLeads, RemovalIs
  <2> QED  BY <2>1, <2>2 DEF HourOK
<1>13. CASE JanInvalidate
  <2>1. UNCHANGED <<mtime, stamp, req>> /\ mtime = 0
    BY <1>13, JanLeads DEF JanInvalidate, folder, HourOK
  <2> QED  BY <2>1 DEF HourOK
<1>14. CASE JanDrop
  <2>1. stamp' = NoOne /\ UNCHANGED <<mtime, req>> /\ mtime = 0
    BY <1>14, JanLeads DEF JanDrop, folder, HourOK
  <2> QED  BY <2>1 DEF HourOK
<1>15. CASE ClockTick
  BY <1>15 DEF ClockTick, HourOK
<1>16. CASE Die
  BY <1>16, DieLeads DEF HourOK
<1>17. CASE UNCHANGED clones
  BY <1>17 DEF clones, folder, HourOK
<1> QED
  BY <1>1, <1>2, <1>3, <1>4, <1>5, <1>6, <1>7, <1>8, <1>9, <1>10, <1>11, <1>12,
     <1>13, <1>14, <1>15, <1>16, <1>17 DEF ClonesNext, ReqStep, JanStep

\* Every step keeps the stamp, or the age of the directory, from being older
\* than the last write.
LEMMA StepStamp ==
  ASSUME ClonesTypeOK, HourOK, StampOK, [ClonesNext]_clones
  PROVE  StampOK'
<1>0. stamp \in Stamps /\ mtime \in 0..Retention /\ written \in 0..Retention
  BY Types
<1>f. ASSUME disk' # "edited" \/ UNCHANGED <<disk, stamp, mtime, written>> PROVE StampOK'
  BY <1>f DEF StampOK
<1>d. ASSUME stamp' = NoOne, UNCHANGED <<disk, mtime, written>>, mtime = 0 PROVE StampOK'
  BY <1>0, <1>d DEF StampOK
<1>1. ASSUME NEW a \in Tabs, GitClone(a) \/ RemoveClone(a) PROVE StampOK'
  <2>1. UNCHANGED stamp /\ (disk' # "edited" \/ UNCHANGED <<disk, mtime, written>>)
    BY <1>1, RemovalIs DEF GitClone, HalfClone, RemoveClone
  <2> QED  BY <1>f, <2>1
<1>2. ASSUME NEW a \in Tabs, Touch(a) PROVE StampOK'
  BY <1>0, <1>2, Periods DEF Touch, TouchClone, folder, StampOK
<1>3. ASSUME NEW a \in Tabs, Serve(a) PROVE StampOK'
  <2>1. UNCHANGED <<mtime, stamp>>
    BY <1>3 DEF Serve
  <2>2. stamp = 0 \/ (stamp = NoOne /\ mtime = 0)
    BY <1>3, Leads DEF HourOK
  <2>3. disk' # "edited" \/ UNCHANGED <<disk, written>> \/ written' = 0
    BY <1>3 DEF Serve
  <2> QED  BY <1>f, <2>1, <2>2, <2>3, Periods DEF StampOK
<1>4. ASSUME NEW a \in Tabs, DropCloneUse(a) PROVE StampOK'
  <2>1. mtime = 0
    BY <1>4, Leads DEF HourOK
  <2> QED  BY <1>4, <1>d, <2>1 DEF DropCloneUse, folder
<1>5. CASE JanRemove
  <2>1. UNCHANGED stamp /\ (disk' # "edited" \/ UNCHANGED <<disk, mtime, written>>)
    BY <1>5, RemovalIs DEF JanRemove
  <2> QED  BY <1>f, <2>1
<1>6. CASE JanDrop
  <2>1. mtime = 0
    BY <1>6, JanLeads DEF HourOK
  <2> QED  BY <1>6, <1>d, <2>1 DEF JanDrop, folder
<1>7. CASE ClockTick
  <2>1. disk' = disk /\ (disk = "edited" => mtime' = Older(mtime) /\ written' = Older(written))
    BY <1>7 DEF ClockTick, HasHead
  <2>2. CASE stamp = NoOne
    <3>1. stamp' = NoOne
      BY <1>7, <2>2 DEF ClockTick
    <3> QED  BY <1>0, <2>1, <2>2, <3>1, OlderIs DEF StampOK
  <2>3. CASE stamp # NoOne
    <3>1. stamp' = Older(stamp) /\ stamp \in 0..Retention
      BY <1>0, <1>7, <2>3, StampIs, Periods DEF ClockTick
    <3>2. stamp' # NoOne
      BY <3>1, OlderIs, Periods
    <3> QED  BY <1>0, <2>1, <2>3, <3>1, <3>2, OlderIs DEF StampOK
  <2> QED  BY <2>2, <2>3
<1>8. CASE Die
  <2>1. UNCHANGED stamp /\ (disk' # "edited" \/ UNCHANGED <<disk, mtime, written>>)
    BY <1>8, RemovalIs DEF Die, CutShort, HalfClone, folder
  <2> QED  BY <1>f, <2>1
<1> QED
  BY <1>1, <1>2, <1>3, <1>4, <1>5, <1>6, <1>7, <1>8, <1>f DEF ClonesNext, ReqStep, JanStep,
     OpenProject, Resolve, EnsureCloned, Mark, FirstFetch, StartReclaim, StatClone,
     CheckClone, InvalidateClone, DeleteUserProject, Close, ScanScope, Judge, JanCheck,
     JanInvalidate, clones, folder

\* Every step keeps what a removal that is under way relies on.
LEMMA StepLooks ==
  ASSUME ClonesTypeOK, LocksOK, StampOK, LooksOK, [ClonesNext]_clones
  PROVE  LooksOK'
<1>0. /\ stamp \in Stamps /\ mtime \in 0..Retention /\ written \in 0..Retention
      /\ jan \in JanState /\ raced \in BOOLEAN
  BY Types
\* A step that writes nothing, of a request that does not begin to remove.
<1>f. ASSUME NEW a \in Tabs, Others(a), req'[a].pc # "remove",
             disk' # "edited" \/ UNCHANGED <<disk, mtime, written, raced>>, UNCHANGED jan
      PROVE  LooksOK'
  BY <1>f DEF LooksOK, Others
\* What a removal took, no other removal minds.
<1>g. ASSUME disk' # "edited" PROVE LooksOK'
  BY <1>g DEF LooksOK
<1>1. ASSUME NEW a \in Tabs, OpenProject(a) \/ Resolve(a) PROVE LooksOK'
  BY <1>1, <1>f, Leads DEF OpenProject, Resolve, folder
<1>2. ASSUME NEW a \in Tabs, EnsureCloned(a) PROVE LooksOK'
  <2>1. UNCHANGED <<disk, mtime, written, raced, jan>>
    BY <1>2 DEF EnsureCloned, folder
  <2> QED  BY <1>2, <1>f, <2>1, Leads
<1>3. ASSUME NEW a \in Tabs, Mark(a) \/ FirstFetch(a) \/ Touch(a) PROVE LooksOK'
  BY <1>3, <1>f, Leads DEF Mark, FirstFetch, Touch, folder
<1>4. ASSUME NEW a \in Tabs, GitClone(a) PROVE LooksOK'
  <2>1. (disk' # "edited" \/ UNCHANGED <<disk, mtime, written, raced>>) /\ UNCHANGED jan
    BY <1>4 DEF GitClone, HalfClone
  <2> QED  BY <1>4, <1>f, <2>1, Leads
<1>5. ASSUME NEW a \in Tabs, Serve(a) PROVE LooksOK'
  <2>1. UNCHANGED <<mtime, jan>> /\ Others(a) /\ req'[a].pc = "idle"
    BY <1>5, Leads DEF Serve
  <2>2. CASE disk' # "edited" \/ UNCHANGED <<disk, written, raced>>
    BY <1>f, <2>1, <2>2
  <2>3. CASE raced' = (raced \/ Doomed)
    <3>1. \A b \in Tabs : req'[b].pc = "remove" => raced'
      BY <2>1, <2>3, Periods DEF LocksOK, Others, Doomed
    <3>2. jan'.pc \in {"judge", "check", "remove"} => raced'
      BY <2>1, <2>3 DEF Doomed
    <3> QED  BY <3>1, <3>2 DEF LooksOK
  <2> QED  BY <1>5, <2>2, <2>3 DEF Serve
<1>6. ASSUME NEW a \in Tabs, NEW force \in BOOLEAN, NEW close \in BOOLEAN,
             StartReclaim(a, force, close)
      PROVE  LooksOK'
  <2>1. UNCHANGED <<disk, mtime, written, raced, jan>>
    BY <1>6 DEF StartReclaim, folder
  <2>2. Others(a) /\ req'[a].pc = "stat"
    BY <1>6, Leads
  <2> QED  BY <1>f, <2>1, <2>2
<1>7. ASSUME NEW a \in Tabs, StatClone(a) PROVE LooksOK'
  <2>1. UNCHANGED <<disk, mtime, written, raced, jan>>
    BY <1>7 DEF StatClone, folder
  <2> QED  BY <1>7, <1>f, <2>1, Leads
<1>8. ASSUME NEW a \in Tabs, CheckClone(a) PROVE LooksOK'
  <2>0. /\ Over(a) => req'[a].pc = "idle"
        /\ To(a, "remove") => req'[a].pc = "remove"
    BY OverIs, ToIs DEF ClonesTypeOK, Pcs
  <2>1. UNCHANGED <<disk, mtime, written, jan>>
    BY <1>8 DEF CheckClone, folder
  <2>2. CASE UNCHANGED raced /\ req'[a].pc # "remove"
    BY <1>8, <1>f, <2>1, <2>2, Leads
  <2>3. CASE req'[a].pc = "remove"
    <3>1. Reclaimable(req[a].force) /\ req'[a].force = req[a].force
      BY <1>8, <2>3, Leads
    <3>2. disk = "edited" => req'[a].force
      BY <3>1 DEF Reclaimable, CloneUnsynced
    <3>3. \A b \in Tabs : req[b].pc # "remove"
      BY <1>8, Leads, Periods DEF LocksOK
    <3>4. Fresh
      BY <1>8, <2>0, <2>3 DEF CheckClone
    <3>5. jan.pc \in {"judge", "check", "remove"} => UNCHANGED raced
      BY <1>0, <3>4 DEF Fresh, Doomed
    <3> QED  BY <1>8, <2>1, <3>2, <3>3, <3>5, Leads DEF LooksOK, Others
  <2>4. req'[a].pc = "remove" \/ (UNCHANGED raced /\ req'[a].pc # "remove")
    BY <1>8, <2>0 DEF CheckClone
  <2> QED  BY <2>2, <2>3, <2>4
<1>9. ASSUME NEW a \in Tabs, RemoveClone(a) PROVE LooksOK'
  <2>1. UNCHANGED jan /\ (disk' # "edited" \/ UNCHANGED <<disk, mtime, written, raced>>)
    BY <1>9, RemovalIs DEF RemoveClone
  <2> QED  BY <1>9, <1>f, <2>1, Leads
<1>10. ASSUME NEW a \in Tabs, InvalidateClone(a) \/ DropCloneUse(a) PROVE LooksOK'
  BY <1>10, <1>f, Leads DEF InvalidateClone, DropCloneUse, folder
<1>11. ASSUME NEW a \in Tabs, DeleteUserProject(a) \/ Close(a) PROVE LooksOK'
  BY <1>11, <1>f, Leads DEF DeleteUserProject, Close, folder
<1>12. CASE ScanScope
  <2>1. UNCHANGED <<disk, mtime, written, req>>
    BY <1>12 DEF ScanScope, folder
  <2>2. \A a \in Tabs : req[a].pc = "remove" => UNCHANGED raced
    BY <1>0, <1>12, Periods DEF LocksOK, ScanScope, Fresh, Doomed
  <2>3. jan'.pc = "judge" /\ CloneUnsynced(jan'.unsynced) /\ jan'.mtime = mtime
    BY <1>12, JanLeads
  <2>4. jan' \in JanState
    BY <1>12, StepType DEF ClonesNext, JanStep, ClonesTypeOK
  <2> QED  BY <2>1, <2>2, <2>3, <2>4 DEF LooksOK, CloneUnsynced, JanState
<1>13. CASE Judge
  <2>1. UNCHANGED <<disk, mtime, written, raced>>
    BY <1>13 DEF Judge, folder
  <2>2. CASE jan'.pc = "idle"
    BY <1>13, <2>1, <2>2, JanLeads DEF LooksOK
  <2>3. CASE jan'.pc = "check"
    <3>1. /\ jan.pc = "judge" /\ UNCHANGED req /\ Judged
          /\ jan'.unsynced = jan.unsynced /\ jan'.mtime = jan.mtime
      BY <1>13, <2>3, JanLeads
    <3>2. ASSUME disk = "edited", ~raced PROVE written >= Retention
      <4>1. jan.unsynced /\ jan.mtime = mtime
        BY <3>1, <3>2 DEF LooksOK
      <4>2. LastUse >= Retention
        BY <3>1, <4>1 DEF Judged
      <4>3. CASE stamp = NoOne
        BY <1>0, <3>2, <4>1, <4>2, <4>3, Periods DEF LastUse, StampOK
      <4>4. CASE stamp # NoOne
        <5>1. stamp \in Nat
          BY <1>0, <4>4, StampIs
        <5> QED  BY <1>0, <3>2, <4>2, <4>4, <5>1, Periods DEF LastUse, StampOK
      <4> QED  BY <4>3, <4>4
    <3> QED  BY <2>1, <3>1, <3>2 DEF LooksOK
  <2> QED  BY <1>13, <2>2, <2>3, JanLeads
<1>14. CASE JanCheck
  <2>1. UNCHANGED <<disk, mtime, written, raced>>
    BY <1>14 DEF JanCheck, folder
  <2> QED  BY <1>14, <2>1, JanLeads DEF LooksOK
<1>15. CASE JanRemove
  <2>1. disk' # "edited" \/ (UNCHANGED <<disk, mtime, written, raced, req>> /\ jan'.pc = "idle")
    BY <1>15, JanLeads, NoJanOK, RemovalIs DEF JanRemove
  <2> QED  BY <1>g, <2>1 DEF LooksOK
<1>16. CASE JanInvalidate \/ JanDrop
  <2>1. UNCHANGED <<disk, mtime, written, raced>>
    BY <1>16 DEF JanInvalidate, JanDrop, folder
  <2> QED  BY <1>16, <2>1, JanLeads DEF LooksOK
<1>17. CASE ClockTick
  BY <1>17 DEF ClockTick, LooksOK
<1>18. CASE Die
  BY <1>18, DieLeads DEF LooksOK
<1>19. CASE UNCHANGED clones
  BY <1>19 DEF clones, folder, LooksOK
<1> QED
  BY <1>1, <1>2, <1>3, <1>4, <1>5, <1>6, <1>7, <1>8, <1>9, <1>10, <1>11, <1>12,
     <1>13, <1>14, <1>15, <1>16, <1>17, <1>18, <1>19 DEF ClonesNext, ReqStep, JanStep

\* What a step takes was not edited, was left alone for the retention period,
\* was written during the removal, or was its user's to discard.
LEMMA StepWork ==
  ASSUME ClonesTypeOK, LocksOK, LooksOK, [ClonesNext]_clones
  PROVE  Spared
<1>t. ASSUME Excused PROVE Spared
  BY <1>t DEF Spared
<1>f. ASSUME disk' = disk \/ disk' \notin {"none"} \cup Remains PROVE Spared
  BY <1>f DEF Spared, Remains
<1>h. ASSUME HalfClone PROVE Spared
  BY <1>h DEF HalfClone, HasHead, Spared
<1>r. ASSUME NEW a \in Tabs, req[a].pc = "remove" PROVE Spared
  BY <1>r DEF LocksOK, LooksOK, Spared, Excused
<1>j. ASSUME jan.pc = "remove" PROVE Spared
  BY <1>j DEF LocksOK, LooksOK, Spared, Excused, PastRetention
<1>1. ASSUME NEW a \in Tabs, GitClone(a) PROVE Spared
  BY <1>1, <1>f, <1>h DEF GitClone, Remains, Spared
<1>2. ASSUME NEW a \in Tabs, RemoveClone(a) PROVE Spared
  BY <1>2, <1>r DEF RemoveClone
<1>3. ASSUME NEW a \in Tabs, Serve(a) PROVE Spared
  BY <1>3, <1>f DEF Serve, Remains
<1>4. CASE JanRemove
  BY <1>4, <1>j DEF JanRemove
<1>5. CASE Die
  BY <1>5, <1>f, <1>h, <1>r, <1>j DEF Die, CutShort, folder
<1> QED
  BY <1>1, <1>2, <1>3, <1>4, <1>5, <1>f DEF ClonesNext, ReqStep, JanStep,
     OpenProject, Resolve, EnsureCloned, Mark, FirstFetch, Touch,
     StartReclaim, StatClone, CheckClone, InvalidateClone, DropCloneUse,
     DeleteUserProject, Close, ScanScope, Judge, JanCheck, JanInvalidate, JanDrop,
     ClockTick, clones, folder

-----------------------------------------------------------------------------
(* Theorems                                                                *)

\* The inductive invariant: types, who holds which mutex, that nobody goes on
\* trusting a clone whose removal succeeded, the clocks within the hour of a
\* removal and against the last write, and what a removal under way may rely on.
THEOREM ClonesInvariance == ClonesSpec => []ClonesIInv
<1>1. ClonesInit => ClonesIInv
  <2> SUFFICES ASSUME ClonesInit PROVE ClonesIInv
    OBVIOUS
  <2>1. \A a \in Tabs : req[a] = NoReq
    BY DEF ClonesInit
  <2>2. ClonesTypeOK
    <3>1. stamp \in Stamps /\ mtime \in 0..Retention /\ written \in 0..Retention
      BY StampIs, Periods DEF ClonesInit
    <3>2. req \in [Tabs -> ReqState] /\ jan \in JanState
      BY NoReqOK, NoJanOK DEF ClonesInit
    <3> QED  BY <3>1, <3>2, Types DEF ClonesInit
  <2>3. LocksOK /\ HourOK /\ LooksOK
    BY <2>1, NoReqOK, NoJanOK DEF ClonesInit, LocksOK, HourOK, LooksOK
  <2>4. TrustOK /\ StampOK
    BY <2>1, NoReqOK DEF ClonesInit, TrustOK, StampOK
  <2> QED  BY <2>2, <2>3, <2>4 DEF ClonesIInv
<1>2. ClonesIInv /\ [ClonesNext]_clones => ClonesIInv'
  BY StepType, StepLocks, StepTrust, StepHour, StepStamp, StepLooks DEF ClonesIInv
<1> QED  BY <1>1, <1>2, PTL DEF ClonesSpec

\* A manager trusts its clone only where there is one, or a removal is on its
\* way to tell it, or part of one is left: by a removal that failed, or by a
\* clone or removal cut short.
THEOREM ClonesKept == ClonesSpec => []ClonesInv
<1>1. ClonesIInv => ClonesInv
  BY DEF ClonesIInv, ClonesInv, TrustOK, Telling, TrustedCloneExists
<1> QED  BY <1>1, ClonesInvariance, PTL

\* A step takes work that is nowhere else only at its user's word, after the
\* retention period, or when it was written during a removal, even where the
\* removal fails half-way or dies.
THEOREM WorkSurvives == ClonesSpec => WorkOutlivesIdleness
<1>1. ClonesIInv /\ [ClonesNext]_clones => [Spared]_clones
  BY StepWork DEF ClonesIInv
<1>2. [Spared]_clones =>
        [ disk = "edited" /\ disk' \in {"none"} \cup Remains =>
              \/ raced
              \/ reclaimMu = Janitor /\ PastRetention
              \/ \E a \in Tabs : reclaimMu = a /\ req[a].force ]_clones
  BY DEF Spared, Excused
<1> QED  BY <1>1, <1>2, ClonesInvariance, PTL DEF ClonesSpec, WorkOutlivesIdleness
=============================================================================
