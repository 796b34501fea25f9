------------------------------ MODULE Importer ------------------------------
(***************************************************************************)
(* A source that is not a git repository, imported page by page into a     *)
(* mirror repository by its timed loop and by requests                     *)
(* (server/internal/importer/runner.go, importer.go, confluence.go;        *)
(* gitx/mirror.go; store/syncs.go; api/admin.go).                          *)
(*                                                                         *)
(* The importer is that of a Confluence space, the one with several reads  *)
(* per import; the others read each page once and differ in how a page is  *)
(* turned into files.  A page is its id and version, a file that and how   *)
(* often its name was taken before.  One read, one snapshot (it holds the  *)
(* branch's mutex) or one statement of the store per step.                 *)
(***************************************************************************)
EXTENDS Integers, FiniteSets

CONSTANTS
    Page,     \* pages of the space, in the order it lists them
    Limit,    \* pages per read
    Syncer,   \* syncs in flight
    Loop,     \* the one that is the source's timed loop
    MaxEdits  \* bound: edits of the space

ASSUME ImporterAssumption ==
    /\ Page \subseteq Nat /\ IsFiniteSet(Page)
    /\ Limit \in Nat \ {0}
    /\ Loop \in Syncer
    /\ MaxEdits \in Nat

VARIABLES
    space,  \* [Page -> version, 0 for no page]
    edits,
    mirror, \* the files at the mirror's head; {} before the first import
    status, \* source_syncs: [result, head]
    sync,   \* [Syncer -> where it is, and its locals]
    whole   \* ghost: pages the import at the mirror's head had to find

importer == <<space, edits, mirror, status, sync, whole>>

\* there: pages that existed ever since the import began, and whether no page
\* has gone since then.
NoSync == [pc |-> "idle", start |-> 0, files |-> {}, there |-> {}, shrunk |-> FALSE]

ImporterInit ==
    /\ space \in [Page -> 0..1]
    /\ edits = 0
    /\ mirror = {}
    /\ status = [result |-> "never", head |-> {}]
    /\ sync = [j \in Syncer |-> NoSync]
    /\ whole = {}

Present == {p \in Page : space[p] # 0}

\* How a space with these pages is mirrored when nobody edits it meanwhile.
FilesOf(sp) == {<<p, sp[p], 0>> : p \in {q \in Page : sp[q] # 0}}

\* An edit, a new page, or a deletion, at the wiki.
Edit(p, v) ==
    /\ edits < MaxEdits /\ space[p] # v
    /\ edits' = edits + 1
    /\ space' = [space EXCEPT ![p] = v]
    /\ sync' = [j \in Syncer |->
           IF sync[j].pc # "read" \/ v # 0 THEN sync[j]
           ELSE [sync[j] EXCEPT !.there = @ \ {p}, !.shrunk = TRUE]]
    /\ UNCHANGED <<mirror, status, whole>>

\* The loop's interval, or POST /api/sources/{name}/sync.
StartSync(j) ==
    /\ sync[j].pc = "idle"
    /\ sync' = [sync EXCEPT ![j] = [NoSync EXCEPT !.pc = "read", !.there = Present]]
    /\ UNCHANGED <<space, edits, mirror, status, whole>>

\* The pages at positions start + 1 .. start + Limit of the listing.
Batch(start) ==
    {p \in Present :
        LET before == Cardinality({q \in Present : q < p}) IN
        before >= start /\ before < start + Limit}

\* A name that is taken gets a suffix: a page read twice makes two files.
Stored(files, p) ==
    <<p, space[p], Cardinality({f \in files : f[1] = p})>>

LastRead(n) == n <= Limit
LastPage(n) == n < Limit

ReadPages(j) ==
    LET batch == Batch(sync[j].start)
        files == sync[j].files \cup {Stored(sync[j].files, p) : p \in batch}
    IN
    /\ sync[j].pc = "read"
    /\ sync' = [sync EXCEPT
           ![j].files = files,
           ![j].start = @ + Limit,
           ![j].pc = IF ~LastPage(Cardinality(batch)) THEN "read"
                     ELSE IF files = {} THEN "failed" ELSE "snapshot"]
    /\ UNCHANGED <<space, edits, mirror, status, whole>>

\* Any read that fails fails the import.
ReadFails(j) ==
    /\ sync[j].pc = "read"
    /\ sync' = [sync EXCEPT ![j] = [NoSync EXCEPT !.pc = "failed"]]
    /\ UNCHANGED <<space, edits, mirror, status, whole>>

RecordFailure(j) ==
    /\ sync[j].pc = "failed"
    /\ status' = [result |-> "error", head |-> {}]
    /\ sync' = [sync EXCEPT ![j] = NoSync]
    /\ UNCHANGED <<space, edits, mirror, whole>>

\* The same tree as the branch has makes no commit.
SameAsRecorded(files) == files = status.head
SameTree(files) == files = mirror

SnapshotMirror(j) ==
    /\ sync[j].pc = "snapshot"
    /\ IF SameTree(sync[j].files) THEN UNCHANGED <<mirror, whole>>
       ELSE /\ mirror' = sync[j].files
            /\ whole' = IF sync[j].shrunk THEN {} ELSE sync[j].there
    /\ sync' = [sync EXCEPT ![j].pc = "record"]
    /\ UNCHANGED <<space, edits, status>>

RecordSourceSync(j) ==
    /\ sync[j].pc = "record"
    /\ status' = [result |-> "ok", head |-> sync[j].files]
    /\ sync' = [sync EXCEPT ![j] = NoSync]
    /\ UNCHANGED <<space, edits, mirror, whole>>

\* The process dies; the mirror and the store survive, and the loop's first
\* import follows the start.
StopServer ==
    /\ sync' = [j \in Syncer |-> NoSync]
    /\ UNCHANGED <<space, edits, mirror, status, whole>>

SyncStep(j) ==
    ReadPages(j) \/ RecordFailure(j) \/ SnapshotMirror(j) \/ RecordSourceSync(j)

ImporterNext ==
    \/ \E p \in Page, v \in 0..2 : Edit(p, v)
    \/ \E j \in Syncer : StartSync(j) \/ SyncStep(j) \/ ReadFails(j)
    \/ StopServer

\* Jobs go on and the loop's interval passes.  Reads fail and the process dies
\* now and then: a read that is tried for ever succeeds for ever again, and so
\* does the snapshot.
ImporterFairness ==
    /\ \A j \in Syncer : WF_importer(SyncStep(j))
    /\ WF_importer(StartSync(Loop))
    /\ \A n \in 0..Cardinality(Page) :
           SF_importer(sync[Loop].start = n /\ ReadPages(Loop))
    /\ SF_importer(SnapshotMirror(Loop))

ImporterSpec == ImporterInit /\ [][ImporterNext]_importer /\ ImporterFairness

-----------------------------------------------------------------------------
(* Properties                                                              *)

\* Every variable has its type.
ImporterTypeOK ==
    /\ space \in [Page -> 0..2] /\ edits \in 0..MaxEdits
    /\ mirror \subseteq Page \X (1..2) \X Nat
    /\ status.result \in {"never", "ok", "error"}
    /\ \A j \in Syncer : sync[j].pc \in {"idle", "read", "failed", "snapshot", "record"}
    /\ whole \subseteq Page

\* The mirror has every page that was there for the whole of the import,
\* whatever was edited or added meanwhile.  A page that is deleted moves those
\* after it to an earlier position, where the next read does not look.
MirrorComplete == \A p \in whole : \E f \in mirror : f[1] = p

\* Types, and a mirror that misses no page the whole listing had.
ImporterInv == ImporterTypeOK /\ MirrorComplete

\* Once the space is left alone its mirror comes to show it and stays so: an
\* older import that lands after a newer one is repaired by a later one, and so
\* is what a restart cut short.  (An emptied space is an error, not a tree.)
MirrorCatchesUp == <>[](Present = {} \/ mirror = FilesOf(space))
=============================================================================
