-------------------------------- MODULE Draft --------------------------------
(***************************************************************************)
(* The editor's durable buffer (web/src/hooks/useDraft.ts) against the     *)
(* server's checked saves (api/write.go putFile, gitx/write.go SaveFile),  *)
(* over requests and answers that are delayed or lost, keepalive saves of  *)
(* a hidden tab, reloads, and documents that others change.                *)
(*                                                                         *)
(* One tab, one branch.  A text is the set of what was written into it,    *)
(* beginning with its own document, and stands for its sha.  The hook      *)
(* keeps one ref across documents, as the editor view is not keyed by      *)
(* path.  Typing is that of the source editor, which reports every change. *)
(***************************************************************************)
EXTENDS Integers, FiniteSets

CONSTANTS
    Docs,       \* documents of the branch
    Words,      \* what the user may type
    Others,    \* what others may write
    Nowhere,   \* no document
    MaxEvents  \* bound: navigations, reloads, hidden tabs and broken connections

ASSUME DraftAssumption ==
    /\ Docs \cap Words = {} /\ Nowhere \notin Docs
    /\ MaxEvents \in Nat

VARIABLES
    file,      \* [Docs -> text] on the server
    copies,    \* [Docs -> text] in local storage, {} if none
    wire,      \* requests that write, under way to the server
    buf,       \* the hook's ref and state; saving is the save in flight
    cached,    \* [Docs -> text] the query cache, {} if none
    fetch,     \* a fetch of the open document that was answered: its text, or {}
    typed,     \* ghost: [Words -> the document it was typed into]
    dropped,   \* ghost: what the user gave up, or a text that went over it took along
    events

editor == <<file, copies, wire, buf, cached, fetch, typed, dropped, events>>

NoSave == [doc |-> Nowhere, raw |-> {}, over |-> "no", answer |-> "none"]

\* shown and marked are the path and the dirty flag of the rendered draft, ls
\* the document a recovery copy is due for, own the document whose sha "keep
\* mine" waits for, leave where a blocked navigation goes.  over (ghost) says
\* why the text may replace one it was not made from.
Blank ==
    [doc |-> Nowhere, raw |-> {}, dirty |-> FALSE, base |-> {}, shown |-> Nowhere,
     marked |-> FALSE, conflicted |-> FALSE, sync |-> "clean", timer |-> FALSE,
     ls |-> Nowhere, saving |-> NoSave, own |-> Nowhere, leave |-> Nowhere, over |-> "no"]

DraftInit ==
    /\ file = [d \in Docs |-> {d}]
    /\ copies = [d \in Docs |-> {}]
    /\ wire = {}
    /\ \E d \in Docs : buf = [Blank EXCEPT !.doc = d]
    /\ cached = [d \in Docs |-> {}]
    /\ fetch = {}
    /\ typed = [m \in Words |-> Nowhere]
    /\ dropped = {}
    /\ events = 0

(* ----------------------------------------------------------------- seeding *)

\* Mutant: a dirty draft takes the sha of what was fetched.
SeededAnew(t, text, copy) ==
    IF t.shown = t.doc /\ t.marked THEN [t EXCEPT !.base = text]
    ELSE [t EXCEPT !.base = text, !.raw = text, !.dirty = FALSE,
                   !.shown = t.doc, !.marked = FALSE, !.over = "no"]

\* The effect on new data: a dirty draft is kept with its base; otherwise the
\* text is taken, or a recovery copy that differs from it, dirty at once.
Seeded(t, text, copy) ==
    IF t.shown = t.doc /\ t.marked THEN t
    ELSE LET back == copy # {} /\ copy # text
             raw  == IF back THEN copy ELSE text
         IN [t EXCEPT !.base = text, !.raw = raw, !.dirty = back,
                      !.timer = t.timer \/ back,
                      !.marked = IF t.shown = t.doc /\ t.raw = raw THEN t.marked ELSE back,
                      !.shown = t.doc, !.over = IF back THEN "recovered" ELSE "no"]

Hiding(t) == t.dirty /\ ~t.conflicted

\* onHide, to the url of the last render: fire and forget.
Beacon(t, doc) ==
    [doc |-> doc, text |-> t.raw, base |-> t.base, over |-> t.over, kept |-> TRUE]

\* The render with another path, then the effects: the old one's cleanup sends
\* to the new document's url, the new one seeds if its data is in the cache.
Opened(t, d) ==
    LET u == [t EXCEPT !.doc = d, !.leave = Nowhere]
    IN IF cached[d] = {} THEN u ELSE Seeded(u, cached[d], copies[d])

Flushed(t, d) == IF Hiding(t) THEN {Beacon(t, d)} ELSE {}

(* --------------------------------------------------------- autosave engine *)

MayPersist(t) == t.saving = NoSave /\ ~t.conflicted /\ t.dirty

\* persist, up to its await.
Persisting(t) ==
    IF MayPersist(t)
    THEN [t EXCEPT !.sync = "saving",
                   !.saving = [doc |-> t.doc, raw |-> t.raw, over |-> t.over,
                               answer |-> "none"]]
    ELSE t

Saving(t) ==
    IF MayPersist(t)
    THEN {[doc |-> t.doc, text |-> t.raw, base |-> t.base, over |-> t.over, kept |-> FALSE]}
    ELSE {}

\* The debounce runs out, or the user saves.
Autosave ==
    /\ buf.timer
    /\ buf' = Persisting([buf EXCEPT !.timer = FALSE])
    /\ wire' = wire \cup Saving(buf)
    /\ UNCHANGED <<file, copies, cached, fetch, typed, dropped, events>>

\* setRaw.  The editor shows a document only once it is seeded.
Type(m) ==
    /\ buf.shown = buf.doc /\ typed[m] = Nowhere
    /\ typed' = [typed EXCEPT ![m] = buf.doc]
    /\ buf' = [buf EXCEPT !.raw = @ \cup {m}, !.dirty = TRUE, !.marked = TRUE,
                   !.sync = IF @ \in {"conflict", "error"} THEN @ ELSE "pending",
                   !.timer = @ \/ ~buf.conflicted,
                   !.ls = buf.doc]
    /\ UNCHANGED <<file, copies, wire, cached, fetch, dropped, events>>

\* 250 ms later, what is in the ref then goes under the key of the document
\* that was typed into.
Store ==
    /\ buf.ls # Nowhere
    /\ copies' = [copies EXCEPT ![buf.ls] = buf.raw]
    /\ buf' = [buf EXCEPT !.ls = Nowhere]
    /\ UNCHANGED <<file, wire, cached, fetch, typed, dropped, events>>

\* Mutant: what was typed while the save was under way counts as saved.
Unchanged(t) == TRUE

\* s.raw === raw, after the await.
Settled(t) == t.raw = t.saving.raw

\* The rest of persist, on an answer; a flush that a navigation waited for
\* then lets it proceed, whatever the answer.
Finished(t) ==
    LET u == [t EXCEPT !.saving = NoSave]
    IN IF t.leave = Nowhere
       THEN buf' = u /\ UNCHANGED wire
       ELSE /\ buf' = Opened(u, t.leave)
            /\ wire' = wire \cup Flushed(u, t.leave)

Saved ==
    /\ buf.saving.answer = "ok"
    /\ Finished([buf EXCEPT !.base = buf.saving.raw,
                    !.dirty = @ /\ ~Settled(buf), !.marked = @ /\ ~Settled(buf),
                    !.sync = IF Settled(buf) THEN "saved" ELSE "pending",
                    !.timer = @ \/ ~Settled(buf),
                    !.over = IF Settled(buf) THEN "no"
                              ELSE IF @ = "no" THEN buf.saving.over ELSE @])
    /\ copies' = IF Settled(buf) THEN [copies EXCEPT ![buf.saving.doc] = {}] ELSE copies
    /\ fetch' = IF buf.leave # Nowhere \/ buf.doc = buf.saving.doc THEN {} ELSE fetch
    /\ UNCHANGED <<file, cached, typed, dropped, events>>

\* Mutant: a failure that is no conflict stops the autosave too.
Stopped(t) == [t EXCEPT !.sync = "error"]

\* A failure that is no conflict, the network's or the server's: try later.
Retrying(t) == [t EXCEPT !.sync = "error", !.timer = TRUE]

\* A conflict stops the autosave.
Refused ==
    /\ buf.saving.answer \in {"stale", "error"}
    /\ Finished(IF buf.saving.answer = "stale"
                THEN [buf EXCEPT !.conflicted = TRUE, !.sync = "conflict"]
                ELSE Retrying(buf))
    /\ fetch' = IF buf.leave # Nowhere THEN {} ELSE fetch
    /\ UNCHANGED <<file, copies, cached, typed, dropped, events>>

(* ------------------------------------------------- navigation and conflicts *)

\* To another document: what is pending is flushed first, and a flush that
\* finds a save under way returns at once; after an error or a conflict the
\* user is asked, and goes.
Open(d) ==
    /\ events < MaxEvents /\ d # buf.doc /\ buf.leave = Nowhere
    /\ events' = events + 1
    /\ IF buf.sync \in {"pending", "saving"} /\ MayPersist(buf)
       THEN /\ buf' = Persisting([buf EXCEPT !.leave = d, !.timer = FALSE])
            /\ wire' = wire \cup Saving(buf)
            /\ UNCHANGED fetch
       ELSE /\ buf' = Opened([buf EXCEPT !.timer = @ /\ buf.sync \notin {"pending", "saving"}], d)
            /\ wire' = wire \cup Flushed(buf, d)
            /\ fetch' = {}
    /\ UNCHANGED <<file, copies, cached, typed, dropped>>

\* The tab is hidden: what is not saved is sent as it is.
Hide ==
    /\ events < MaxEvents /\ Hiding(buf)
    /\ events' = events + 1
    /\ wire' = wire \cup Flushed(buf, buf.doc)
    /\ UNCHANGED <<file, copies, buf, cached, fetch, typed, dropped>>

\* The page is reloaded, or the browser dies, which sends nothing, and opens
\* the document again.  Requests under way may still arrive; nobody waits for
\* them.
Reload(dies) ==
    /\ events < MaxEvents
    /\ events' = events + 1
    /\ buf' = [Blank EXCEPT !.doc = buf.doc]
    /\ wire' = {[r EXCEPT !.kept = TRUE] : r \in wire}
                   \cup IF dies THEN {} ELSE Flushed(buf, buf.doc)
    /\ dropped' = IF buf.ls = Nowhere THEN dropped
                  ELSE dropped \cup (buf.raw \ (Docs \cup copies[buf.ls]))
    /\ cached' = [d \in Docs |-> {}] /\ fetch' = {}
    /\ UNCHANGED <<file, copies, typed>>

\* resolveConflict("theirs"): the text is given up, and fetched again.
TakeTheirs ==
    /\ buf.sync = "conflict" /\ buf.own = Nowhere
    /\ buf' = [buf EXCEPT !.conflicted = FALSE, !.dirty = FALSE, !.shown = Nowhere,
                   !.marked = FALSE, !.sync = "clean"]
    /\ copies' = [copies EXCEPT ![buf.doc] = {}]
    /\ dropped' = dropped \cup ((buf.raw \cup copies[buf.doc]) \ Docs)
    /\ fetch' = {}
    /\ UNCHANGED <<file, wire, cached, typed, events>>

\* resolveConflict("mine"): the current sha is asked for, and saved over.
KeepMine ==
    /\ buf.sync = "conflict" /\ buf.own = Nowhere
    /\ buf' = [buf EXCEPT !.conflicted = FALSE, !.own = buf.doc]
    /\ UNCHANGED <<file, copies, wire, cached, fetch, typed, dropped, events>>

OwnSha ==
    /\ buf.own # Nowhere
    /\ LET t == [buf EXCEPT !.base = file[buf.own], !.own = Nowhere,
                            !.sync = "pending", !.over = "mine"]
       IN \/ buf' = Persisting(t) /\ wire' = wire \cup Saving(t)
          \/ buf' = [buf EXCEPT !.own = Nowhere] /\ UNCHANGED wire
    /\ UNCHANGED <<file, copies, cached, fetch, typed, dropped, events>>

(* ---------------------------------------------------- queries and the server *)

\* The open document is fetched when it is opened, when an event or a save of
\* the browser's invalidates it, or the connection returns.  An answer equal to
\* what is in the cache changes nothing and is left out.
Fetch ==
    /\ fetch = {} /\ file[buf.doc] # cached[buf.doc]
    /\ fetch' = file[buf.doc]
    /\ UNCHANGED <<file, copies, wire, buf, cached, typed, dropped, events>>

Arrive ==
    /\ fetch # {}
    /\ fetch' = {}
    /\ cached' = [cached EXCEPT ![buf.doc] = fetch]
    /\ buf' = Seeded(buf, fetch, copies[buf.doc])
    /\ UNCHANGED <<file, copies, wire, typed, dropped, events>>

\* Mutant: the sha is not compared.
Anyway(r) == TRUE

\* SaveFile's precondition.
Current(r) == r.base = file[r.doc]

Told(r, answer) == buf' = IF r.kept THEN buf ELSE [buf EXCEPT !.saving.answer = answer]

\* putFile, under the branch's mutex, and its answer.
Land(r) ==
    /\ r \in wire
    /\ wire' = wire \ {r}
    /\ IF Current(r)
       THEN /\ file' = [file EXCEPT ![r.doc] = r.text]
            /\ dropped' = dropped \cup IF r.over = "no" THEN {} ELSE file[r.doc] \ (r.text \cup Docs)
            /\ Told(r, "ok")
       ELSE Told(r, "stale") /\ UNCHANGED <<file, dropped>>
    /\ UNCHANGED <<copies, cached, fetch, typed, events>>

\* The connection breaks; the request is lost, or arrives later.
Broken(r) ==
    /\ r \in wire /\ events < MaxEvents
    /\ events' = events + 1
    /\ \/ wire' = wire \ {r}
       \/ ~r.kept /\ wire' = (wire \ {r}) \cup {[r EXCEPT !.kept = TRUE]}
    /\ Told(r, "error")
    /\ UNCHANGED <<file, copies, cached, fetch, typed, dropped>>

\* Somebody else saves on the branch, or it follows another.
SomebodyWrites(d, o) ==
    /\ o \notin dropped \cup UNION {file[e] : e \in Docs}
    /\ file' = [file EXCEPT ![d] = @ \cup {o}]
    /\ UNCHANGED <<copies, wire, buf, cached, fetch, typed, dropped, events>>

DraftNext ==
    \/ Autosave \/ Store \/ Saved \/ Refused \/ Hide
    \/ TakeTheirs \/ KeepMine \/ OwnSha
    \/ Fetch \/ Arrive
    \/ \E m \in Words : Type(m)
    \/ \E d \in Docs : Open(d)
    \/ \E dies \in BOOLEAN : Reload(dies)
    \/ \E r \in wire : Land(r) \/ Broken(r)
    \/ \E d \in Docs, o \in Others : SomebodyWrites(d, o)

DraftSpec == DraftInit /\ [][DraftNext]_editor

\* Timers run out, promises settle, and the server answers.  The user, the
\* others and reloads need never act, and nothing need arrive of the rest.
LandSave == \E r \in wire : ~r.kept /\ Land(r)
DraftStep == Autosave \/ Saved \/ Refused \/ OwnSha \/ LandSave
DraftFairness == WF_editor(DraftStep)

(* -------------------------------------------------------------- properties *)

Text == Docs \cup Words \cup Others

DraftTypeOK ==
    /\ file \in [Docs -> SUBSET Text] /\ copies \in [Docs -> SUBSET Text]
    /\ cached \in [Docs -> SUBSET Text]
    /\ typed \in [Words -> Docs \cup {Nowhere}]
    /\ dropped \subseteq Words \cup Others
    /\ buf.doc \in Docs /\ buf.raw \in SUBSET Text
    /\ buf.sync \in {"clean", "pending", "saving", "saved", "error", "conflict"}
    /\ Cardinality({r \in wire : ~r.kept}) <= 1

\* What was typed is on the server, in the editor as not yet saved, or in the
\* recovery copy, over lost and late answers, keepalives and reloads, unless the
\* user gave it up, left before the copy was written, or let a recovered text
\* or her own go over it.
TypedKept ==
    \A m \in Words \ dropped : typed[m] # Nowhere =>
        \/ m \in file[typed[m]] \cup copies[typed[m]]
        \/ m \in buf.raw /\ buf.dirty /\ buf.shown = typed[m]

\* Types, and nothing typed that is nowhere.
DraftInv == DraftTypeOK /\ TypedKept

\* What is not saved comes to be saved, or to a conflict that stops it: no
\* order of answers, timers, navigations and reloads leaves a draft that
\* nothing will ever save.
Unsettled == buf.dirty /\ ~buf.conflicted /\ buf.sync # "conflict"
DraftSettles == Unsettled ~> ~Unsettled

\* No save takes what somebody else wrote with it: over retries, keepalives,
\* refetches and reloads the sha is that of the text the draft was made from.
\* The user may choose to keep her own; and a recovered text is exempt, as the
\* copy keeps no sha and goes over whatever is there when it comes back.
NothingClobbered ==
    [][\A d \in Docs : \/ file[d] \cap Others \subseteq file'[d]
                       \/ \E r \in wire \ wire' : r.doc = d /\ r.over # "no"]_editor

\* No save puts the text of another document into a document, unless the user
\* chose to keep her own: what the recovery copy of a document holds is "a
\* stored draft" of that document.
OwnText ==
    [][\A d \in Docs : d \in file[d] =>
          \/ d \in file'[d]
          \/ \E r \in wire \ wire' : r.doc = d /\ r.over = "mine"]_editor
=============================================================================
