------------------------------- MODULE Moves -------------------------------
(***************************************************************************)
(* Moving a document or a folder and rewriting the references to it, while *)
(* others edit the same branch (server/internal/project/project.go,        *)
(* refactor/refactor.go, api/write.go postMove; the file operations are    *)
(* gitx/write.go's, each under the branch's mutex).                        *)
(*                                                                         *)
(* A path is the sequence of its segments, and a document is its text and  *)
(* the set of its references; what a reference looks like in Markdown or   *)
(* YAML is left out, how it is spelled (from the root, with a slash, from  *)
(* the document's folder) is not.  Every file is a document.  The handler  *)
(* does not hold the mutex between its reads and saves.                    *)
(***************************************************************************)
EXTENDS Integers, Sequences, FiniteSets, SequencesExt

CONSTANTS
    Path,     \* paths a document may have
    First,    \* the documents there at first
    Folder,   \* folders that may be moved, and where to
    RefSet,   \* what documents may refer to: sets of [place, slash, segs]
    MaxMoves, \* bound: moves asked for
    MaxEdits  \* bound: edits by others

\* Paths are sequences of names as safeRel leaves them, of bounded length.
ASSUME MovesAssumption ==
    /\ Path \subseteq Seq(STRING) /\ Folder \subseteq Seq(STRING) /\ First \subseteq Path
    /\ \A p \in Path : p # << >> /\ \A i \in DOMAIN p : p[i] \notin {".", ".."}
    /\ IsFiniteSet(Path)
    /\ MaxMoves \in Nat /\ MaxEdits \in Nat

VARIABLES
    files,    \* [Path -> document, or None]: the branch's worktree
    mover,    \* POST .../move: where it is, and its locals
    asked, edits,
    origin    \* ghost: the files when the request came, none once disturbed

moves == <<files, mover, asked, edits, origin>>

(* --------------------------------------------------- refactor.go, pure part *)

Dir(p) == SubSeq(p, 1, Len(p) - 1)

Under(p, folder) == Len(p) > Len(folder) /\ SubSeq(p, 1, Len(folder)) = folder

\* resolvePath: ".." above the root is dropped.
Resolved(dir, segs) ==
    LET parts[i \in 0..Len(segs)] ==
        IF i = 0 THEN dir
        ELSE LET s == parts[i - 1]
             IN IF segs[i] = ".." THEN SubSeq(s, 1, Len(s) - 1)
                ELSE IF segs[i] = "." THEN s ELSE Append(s, segs[i])
    IN parts[Len(segs)]

\* relLink: the relative path from a folder to a document.
Shared(dir, target) ==
    LET same == {i \in 0..Len(dir) : i < Len(target)
                     /\ SubSeq(dir, 1, i) = SubSeq(target, 1, i)}
    IN CHOOSE i \in same : \A j \in same : j <= i

Relative(dir, target) ==
    LET i == Shared(dir, target)
    IN [k \in 1..(Len(dir) - i) |-> ".."] \o SubSeq(target, i + 1, Len(target))

\* Mutant: every reference in the body is taken from the root.
HrefFromRoot(dir, r) == r.segs

\* resolveDocHref, for a reference in the body.
Href(dir, r) == IF r.slash THEN r.segs ELSE Resolved(dir, r.segs)

\* fmSpellings: a reference in the frontmatter names the path from the root,
\* the same with a slash, or the one from the document's folder.
Spells(dir, r, p) ==
    \/ r.segs = p
    \/ ~r.slash /\ r.segs = Relative(dir, p)

Names(dir, r, p) ==
    IF r.place = "body" THEN Href(dir, r) = p ELSE Spells(dir, r, p)

InBody(segs)  == [place |-> "body", slash |-> FALSE, segs |-> segs]
InFront(segs) == [place |-> "front", slash |-> FALSE, segs |-> segs]

\* RewriteRefs: what a document in dir that refers to from refers to now.
RewriteRefs(refs, dir, from, to) ==
    {IF ~Names(dir, r, from) THEN r
     ELSE IF r.place = "body" THEN InBody(Relative(dir, to)) ELSE InFront(to) : r \in refs}

\* Mutant: relative links are resolved from where the document is now.
RebaseInPlace(refs, old, new, there) ==
    {LET at == Resolved(new, r.segs)
     IN IF old = new \/ r.slash \/ at \notin there \/ r.place = "front" THEN r
        ELSE InBody(Relative(new, at)) : r \in refs}

\* RebaseLinks: the references of a document moved between folders.  One that
\* resolves to no file is left alone; in the frontmatter only those that begin
\* with a dot are relative for certain.
RebaseLinks(refs, old, new, there) ==
    {LET at == Resolved(old, r.segs)
     IN IF \/ old = new \/ r.slash \/ at \notin there
           \/ r.place = "front" /\ r.segs[1] \notin {".", ".."}
        THEN r
        ELSE IF r.place = "body" THEN InBody(Relative(new, at)) ELSE InFront(at) : r \in refs}

\* resolveFmRef, how a reader resolves a reference in the frontmatter: the path
\* from the root if there is one, else the one from the document's folder.
Reads(dir, r, there) ==
    IF r.place = "body" THEN Href(dir, r)
    ELSE IF r.segs \notin there /\ ~r.slash /\ Resolved(dir, r.segs) \in there
         THEN Resolved(dir, r.segs) ELSE r.segs

(* ------------------------------------------------------------ the worktree *)

\* No document: every document has a text.
None == [refs |-> {}, text |-> "none"]

NoFiles == [p \in Path |-> None]

There(fs) == {p \in Path : fs[p] # None}

\* Where path p is after a move of a document, or of a folder.
Moved(req, p) ==
    IF req.folder /\ Under(p, req.from)
    THEN req.to \o SubSeq(p, Len(req.from) + 1, Len(p))
    ELSE IF ~req.folder /\ p = req.from THEN req.to ELSE p

Renamed(fs, req) ==
    [p \in Path |->
        LET from == {q \in There(fs) : Moved(req, q) = p}
        IN IF from = {} THEN None ELSE fs[CHOOSE q \in from : TRUE]]

\* MoveFile: it refuses a source that is not there and a destination that is.
Movable(fs, req) ==
    IF req.folder
    THEN /\ \E p \in There(fs) : Under(p, req.from)
         /\ ~\E p \in There(fs) : p = req.to \/ Under(p, req.to)
    ELSE req.from \in There(fs) /\ req.to \notin There(fs)

NoRequest == [folder |-> FALSE, from |-> << >>, to |-> << >>]
AtRest    == [pc |-> "idle", req |-> NoRequest, pairs |-> {}, there |-> {},
              todo |-> {}, doc |-> << >>, read |-> None]

MovesInit ==
    /\ \E refs \in [First -> RefSet] :
           files = [p \in Path |-> IF p \in First THEN [refs |-> refs[p], text |-> "t"]
                                   ELSE None]
    /\ mover = AtRest
    /\ asked = 0 /\ edits = 0
    /\ origin = NoFiles

(* ------------------------------------------------------------ the handler *)

Fails == mover' = [AtRest EXCEPT !.pc = "failed"] /\ UNCHANGED files

\* Mutant: the save does not compare what it read.
SavesBlindly(d, doc) == files' = [files EXCEPT ![d] = doc]

\* SaveFile with the sha of the content read: stale if that has changed.
Saves(d, doc) == files[d] = mover.read /\ files' = [files EXCEPT ![d] = doc]

StartMove(req) ==
    /\ mover.pc \in {"idle", "failed", "done"} /\ asked < MaxMoves
    /\ asked' = asked + 1
    /\ req.from # req.to
    /\ mover' = [AtRest EXCEPT !.req = req, !.pc = "move",
                     !.pairs = IF req.folder
                               THEN {p \in There(files) : Under(p, req.from)}
                               ELSE {req.from}]
    /\ origin' = files
    /\ UNCHANGED <<files, edits>>

\* git mv, under the branch's mutex.
MoveFiles ==
    /\ mover.pc = "move"
    /\ IF mover.pairs # {} /\ Movable(files, mover.req)
       THEN files' = Renamed(files, mover.req) /\ mover' = [mover EXCEPT !.pc = "look"]
       ELSE Fails
    /\ UNCHANGED <<asked, edits, origin>>

\* ReferencingDocs of the snapshot; a moved folder's walk is over every file.
\* The moved document is read first and saved if its own links change.
Referencing(fs, p) ==
    {d \in There(fs) \ {p} : \E r \in fs[d].refs : Names(Dir(d), r, p)}

Look ==
    /\ mover.pc = "look"
    /\ mover' = [mover EXCEPT !.pc = IF mover.req.folder THEN "next" ELSE "own",
                     !.there = There(files),
                     !.todo = IF mover.req.folder THEN There(files)
                              ELSE Referencing(files, mover.req.from)]
    /\ UNCHANGED <<files, asked, edits, origin>>

\* The moved document, read to rebase its links; one that is gone is passed.
OwnRead ==
    /\ mover.pc = "own"
    /\ mover' = [mover EXCEPT !.pc = IF mover.req.to \in There(files) THEN "rebase" ELSE "next",
                     !.doc = mover.req.to, !.read = files[mover.req.to]]
    /\ UNCHANGED <<files, asked, edits, origin>>

OldOf(d) == CHOOSE p \in mover.pairs : Moved(mover.req, p) = d

Rebased(d) ==
    IF d \notin {Moved(mover.req, p) : p \in mover.pairs} THEN mover.read.refs
    ELSE RebaseLinks(mover.read.refs, Dir(OldOf(d)), Dir(d), mover.there)

Written(refs) ==
    IF refs = mover.read.refs
    THEN mover' = [mover EXCEPT !.pc = "next", !.read = None] /\ UNCHANGED files
    ELSE \/ /\ Saves(mover.doc, [mover.read EXCEPT !.refs = refs])
            /\ mover' = [mover EXCEPT !.pc = "next", !.read = None]
         \/ files[mover.doc] # mover.read /\ Fails

OwnSave ==
    /\ mover.pc = "rebase"
    /\ Written(Rebased(mover.doc))
    /\ UNCHANGED <<asked, edits, origin>>

\* The next document that refers to what moved: a fresh read, which fails if
\* the document is gone.  The paths come in order; any order is allowed here.
NextDoc ==
    /\ mover.pc = "next"
    /\ IF mover.todo = {} THEN mover' = [AtRest EXCEPT !.pc = "done", !.req = mover.req]
       ELSE \E d \in mover.todo :
                IF files[d] = None THEN mover' = [AtRest EXCEPT !.pc = "failed"]
                ELSE mover' = [mover EXCEPT !.pc = "rewrite", !.todo = @ \ {d},
                                   !.doc = d, !.read = files[d]]
    /\ UNCHANGED <<files, asked, edits, origin>>

\* Every pair of old and new path is applied in turn to what is written.
Rewritten(refs, d) ==
    LET pairs == SetToSeq(mover.pairs)
        next[i \in 0..Len(pairs)] ==
            IF i = 0 THEN refs
            ELSE RewriteRefs(next[i - 1], Dir(d), pairs[i], Moved(mover.req, pairs[i]))
    IN next[Len(pairs)]

SaveDoc ==
    /\ mover.pc = "rewrite"
    /\ Written(Rewritten(IF mover.req.folder THEN Rebased(mover.doc)
                         ELSE mover.read.refs, mover.doc))
    /\ UNCHANGED <<asked, edits, origin>>

\* The server dies, or git fails.
Interrupted ==
    /\ mover.pc \notin {"idle", "failed", "done"}
    /\ Fails
    /\ UNCHANGED <<asked, edits, origin>>

\* Somebody else saves a document, creates or deletes one, while a move is
\* under way: before it, that only changes what it starts from.
Edit(d, doc) ==
    /\ edits < MaxEdits /\ files[d] # doc
    /\ mover.pc \notin {"idle", "failed", "done"}
    /\ edits' = edits + 1
    /\ files' = [files EXCEPT ![d] = doc]
    /\ origin' = NoFiles
    /\ UNCHANGED <<mover, asked>>

Requests ==
    [folder : {FALSE}, from : Path, to : Path]
    \cup {q \in [folder : {TRUE}, from : Folder, to : Folder] :
              q.from # q.to /\ ~Under(q.to, q.from)
              /\ \A p \in Path : Under(p, q.from) => Moved(q, p) \in Path}

MovesNext ==
    \/ \E req \in Requests : StartMove(req)
    \/ MoveFiles \/ Look \/ OwnRead \/ OwnSave \/ NextDoc \/ SaveDoc \/ Interrupted
    \/ \E d \in Path, refs \in RefSet :
           Edit(d, [refs |-> refs, text |-> "u"])
    \/ \E d \in Path : Edit(d, None)

MovesSpec == MovesInit /\ [][MovesNext]_moves

(* -------------------------------------------------------------- properties *)

Targets(fs, d) ==
    {p \in There(fs) : \E r \in fs[d].refs : Reads(Dir(d), r, There(fs)) = p}

Calm == mover.pc = "done" /\ origin # NoFiles

\* Segments that are read as two documents in d, of those before the move and
\* those after it: one from the root and one from d's folder.
TwoReadings(d, segs) ==
    LET near == Resolved(Dir(d), segs)
    IN near # segs /\ {segs, near} \subseteq There(origin) \cup There(files)

\* A reference of d to t in the frontmatter, where the reader takes the reading
\* from the root and fmSpellings either, has two: now, or as it is rewritten.
Ambiguous(d, r, t) ==
    LET dd == Moved(mover.req, d)
        tt == Moved(mover.req, t)
    IN /\ r.place # "body"
       /\ \/ ~r.slash /\ TwoReadings(d, r.segs)
          \/ <<dd, tt>> # <<d, t>> /\ TwoReadings(dd, tt)

\* d refers to t by r, and did so unambiguously when the request came.
Refers(d, r, t) ==
    /\ r \in origin[d].refs /\ t = Reads(Dir(d), r, There(origin)) /\ t \in There(origin)
    /\ ~Ambiguous(d, r, t)

Follows(d, t) == Moved(mover.req, t) \in Targets(files, Moved(mover.req, d))

\* After a move nobody disturbed, every document that stayed refers to what it
\* referred to, wherever that is now (MoveFileRewriting, MoveFolderRewriting),
\* if the reference is spelled as fmSpellings lists; "./b" in a frontmatter is
\* not.
RestReaches ==
    \A d, t \in There(origin) : \A r \in origin[d].refs :
        Moved(mover.req, d) = d /\ Refers(d, r, t) /\ Names(Dir(d), r, t) => Follows(d, t)

\* The documents that moved still refer to those that stayed (RebaseLinks),
\* except by a name in their frontmatter that does not begin with a dot.
MovedReachRest ==
    \A d, t \in There(origin) : \A r \in origin[d].refs :
        /\ Moved(mover.req, d) # d /\ Moved(mover.req, t) = t /\ Refers(d, r, t)
        /\ r.place = "body" \/ r.segs[1] \in {".", ".."}
        => Follows(d, t)

\* What a completed move promises when nobody edits meanwhile: both of these.
LinksFollow == Calm => RestReaches /\ MovedReachRest

\* No step of a move changes or loses what an author wrote: each text is where
\* it was, or where its document went (the sha that guards each save).
TextsSurvive ==
    [][edits' = edits => \A d \in There(files) :
           \E p \in Path : files'[p] # None /\ files'[p].text = files[d].text
                           /\ p \in {d, Moved(mover.req, d)}]_moves

\* The documents that moved still refer to each other: "including references
\* between the moved files themselves, which keep working".
MovedReachMoved ==
    Calm /\ mover.req.folder => \A d \in There(origin) :
        {Moved(mover.req, t) : t \in Targets(origin, d)}
            \subseteq Targets(files, Moved(mover.req, d))
=============================================================================
