------------------------------ MODULE Pipeline ------------------------------
(***************************************************************************)
(* The stages of an alignment recipe, run over one unit: fan-out over what *)
(* an earlier stage produced, evidence checked as items arrive, items      *)
(* annotated in batches, the selection of source files a stage may read,   *)
(* the checkpoint and the product assembled from the stages' output        *)
(* (server/internal/api/pipeline.go, drift.go; recipe/recipe.go, glob.go). *)
(*                                                                         *)
(* DriftRun counts stages; here a stage has its items.  An item is a       *)
(* record of the fields the engine reads; a pattern is the file it names;  *)
(* one reference source.  A model call is one step.  Prompts, narration    *)
(* and the JSON repair (a reply that does not parse is asked for once      *)
(* more and then is an error) are left out.  An edit of the recipe between *)
(* two runs is DriftRun's.                                                 *)
(***************************************************************************)
EXTENDS Integers, Sequences, FiniteSets, SequencesExt, TLC

CONSTANTS
    Recipes,  \* recipes a run may use
    Reply,    \* what the model may reply to a stage: sequences of Content
    Remarks,  \* what it may reply to a stage that annotates
    File,     \* files a source may have; patterns and evidence name them
    Doc,      \* documents the project may have
    MaxCalls, \* ai.max_calls_per_run
    MaxRuns,  \* bound: runs that work on the unit, each resuming the last
    Nothing   \* a field that is not there

VARIABLES
    rec,    \* the recipe
    docs,   \* snapshot of the documents this run took
    tree,   \* and of the source's files
    live,   \* produced: the items of the stages passed, in order
    state,  \* rc.state, the checkpoint in memory
    saved,  \* stage_state_json, the checkpoint in the store
    shared, \* stages whose live items are the maps of state: those rehydrated
    cursor, \* [pc, at: item or batch of the stage, part: its output so far]
    calls,  \* ai_calls granted to this run
    runs,
    matched,\* ghost: [stage, at, doc, by]: the document stage by gave to an item
    result  \* requirements, or findings, in order

pipeline == <<rec, docs, tree, live, state, saved, shared, cursor, calls,
              runs, matched, result>>

(* ------------------------------------------------------------------ recipe *)

\* Validate: what recipe r must be to run at all.  Stages are numbered, and
\* over |-> 0 is the unit.  annotates |-> 0: what the stage runs over.
Target(st) == IF st.annotates # 0 THEN st.annotates ELSE st.over

Valid(r) ==
    /\ r.stages # << >>
    /\ \A i \in DOMAIN r.stages : LET st == r.stages[i] IN
           /\ st.over < i
           /\ st.produces = "annotations" => Target(st) \in 1..i
           /\ st.batch > 0 => st.over # 0
    /\ r.output \in {"extraction", "findings"}
    /\ r.output = "findings" =>
           \E i \in DOMAIN r.stages : r.stages[i].produces = "findings"

\* Recipes were validated when they were loaded; replies are lists.
ASSUME PipelineAssumption ==
    /\ \A r \in Recipes :
           /\ Valid(r) /\ r.stages \in Seq(ToSet(r.stages))
           /\ \A st \in ToSet(r.stages) :
                  {st.over, st.annotates, st.batch} \subseteq Nat /\ st.max \in Int
    /\ \A reply \in Reply \cup Remarks : reply \in Seq(ToSet(reply))
    /\ MaxCalls \in Nat /\ MaxRuns \in Nat \ {0}

\* FileFilter.merge: a half that the stage names replaces the recipe's.
Over(f, own) ==
    [include  |-> IF own.include # {} THEN own.include ELSE f.include,
     exclude  |-> IF own.exclude # {} THEN own.exclude ELSE f.exclude,
     describe |-> IF own.describe # "" THEN own.describe ELSE f.describe]

Globbed(f, files) ==
    {p \in files \ f.exclude : f.include = {} \/ p \in f.include}

(* ------------------------------------------------------------------- items *)

\* verifyEvidence
Sound(c) == c.quote \in tree

\* A fresh item of the reply content c.  parent: the index of what it came
\* from, 0 for none.  area: __group.  Ghosts: proved, the quote that was found in
\* the source; requoted, whether a comment wrote another over it.
Item(c, parent, area) ==
    [name |-> c.name, quote |-> c.quote, doc |-> c.doc, cover |-> c.cover,
     said |-> c.said, parent |-> parent, area |-> area,
     proved |-> IF Sound(c) THEN c.quote ELSE Nothing, requoted |-> FALSE]

Proved(it) == it.proved # Nothing

UpTo(st, s) == IF st.max > 0 /\ Len(s) > st.max THEN SubSeq(s, 1, st.max) ELSE s

\* The elements of s at the positions in S, in their order: SelectSeq, in a form
\* that a proof can count in.
Picked(s, S) ==
    [k \in 1..Cardinality(S) |->
        s[CHOOSE i \in S : Cardinality({j \in S : j <= i}) = k]]

\* Mutant: the evidence of a stage is checked only when its items need a name.
KeptNamed(st, items) ==
    UpTo(st, Picked(items, {i \in DOMAIN items :
                                /\ st.verify /\ st.require => Proved(items[i])
                                /\ st.require => items[i].name # ""}))

\* keep
Kept(st, items) ==
    UpTo(st, Picked(items, {i \in DOMAIN items : /\ st.verify => Proved(items[i])
                                                 /\ st.require => items[i].name # ""}))

\* unwrapItems, then wrapItems when the checkpoint is read: a copy of the maps,
\* with __parent among the fields where there is one.
Copied(items) ==
    [i \in DOMAIN items |-> IF items[i].parent > 0 THEN items[i]
                            ELSE [items[i] EXCEPT !.parent = 0]]

\* What a comment writes into an item: the fields it has, here a quote, a
\* document and a coverage; the document only if there is one, and no coverage
\* without a document.
Commented(it, c) ==
    LET doc   == IF c.doc # Nothing THEN c.doc ELSE it.doc
        cover == IF c.cover # Nothing THEN c.cover ELSE it.cover
        lost  == doc # Nothing /\ doc \notin docs
    IN [it EXCEPT !.quote = IF c.quote # Nothing THEN c.quote ELSE @,
                  !.doc   = IF lost THEN "" ELSE doc,
                  !.cover = IF lost /\ cover # Nothing THEN "none" ELSE cover]

\* An item with its comments, in the order they came.  A quote that a comment
\* wrote is not looked up.
WithComments(it, comments) ==
    LET now == FoldLeft(Commented, it, comments)
    IN [it EXCEPT !.quote = now.quote, !.doc = now.doc, !.cover = now.cover,
                  !.requoted = @ \/ now.quote # it.quote]

\* A batch answered.  A comment whose index is not in the batch is ignored.
Annotated(items, start, end, reply) ==
    LET Of(i) == Picked(reply, {k \in DOMAIN reply : reply[k].index = i - start + 1})
    IN [i \in DOMAIN items |->
           IF i \in start..end THEN WithComments(items[i], Of(i)) ELSE items[i]]

(* ----------------------------------------------------------------- product *)

LastOf(r, kind) ==
    LET at == {i \in DOMAIN r.stages : r.stages[i].produces = kind}
    IN IF at = {} THEN 0 ELSE CHOOSE i \in at : \A j \in at : j <= i

\* Mutant: what the annotating stage accepted is not checked again.
CoveredAsSaid(it) ==
    IF it.cover = "full" /\ it.doc \notin {Nothing, ""} THEN it.doc ELSE Nothing

\* toRequirement, and what runRecipeExtraction makes of it: no coverage
\* without a document, no document that is not there.  Partial coverage is
\* treated like full.
Covered(it) ==
    IF it.cover = "full" /\ it.doc \in docs THEN it.doc ELSE Nothing

\* recipeGroups: one row for each requirement, under the name of its parent.
Heading(st, it) ==
    IF st.over # 0 /\ it.parent \in DOMAIN live[st.over]
    THEN live[st.over][it.parent].name ELSE ""

\* Rows are of items whose statement is not empty.
Stated(items) == Picked(items, {i \in DOMAIN items : items[i].said})

Requirements ==
    LET n == LastOf(rec, "items")
        items == IF n = 0 THEN << >> ELSE Stated(live[n])
    IN [i \in DOMAIN items |->
           [item |-> items[i], heading |-> Heading(rec.stages[n], items[i]),
            doc |-> Covered(items[i])]]

\* runRecipeFindings: the anchor is the item's name, and the fingerprint; an
\* item without one is dropped, of two with the same the first stays.
Anchored(items) ==
    Picked(items, {i \in DOMAIN items :
                       /\ items[i].name # ""
                       /\ \A j \in 1..(i - 1) : items[j].name # items[i].name})

Findings ==
    LET items == Anchored(live[LastOf(rec, "findings")])
    IN [i \in DOMAIN items |-> [item |-> items[i], heading |-> "", doc |-> Nothing]]

(* ---------------------------------------------------------------- the unit *)

NoState  == [stages |-> << >>, files |-> << >>]
AtStage  == [pc |-> "stage", at |-> 0, part |-> << >>]
Ended(p) == [pc |-> p, at |-> 0, part |-> << >>]

Fresh ==
    /\ rec' \in Recipes
    /\ docs' \in SUBSET Doc /\ tree' \in SUBSET File
    /\ live' = << >> /\ state' = NoState /\ saved' = NoState /\ shared' = 0
    /\ cursor' = AtStage /\ calls' = 0 /\ runs' = 1
    /\ matched' = {} /\ result' = << >>

PipelineInit ==
    /\ rec \in Recipes
    /\ docs \in SUBSET Doc /\ tree \in SUBSET File
    /\ live = << >> /\ state = NoState /\ saved = NoState /\ shared = 0
    /\ cursor = AtStage /\ calls = 0 /\ runs = 1
    /\ matched = {} /\ result = << >>

Turn      == Len(live) + 1
More      == Turn \in DOMAIN rec.stages
Stage     == rec.stages[Turn]
Filter    == Over(rec.files, Stage.files)
Comments  == Stage.produces = "annotations" /\ Stage.over # 0
Upstream  == IF Stage.over = 0 THEN << >> ELSE live[Stage.over]
\* A stage that annotates itself finds none of its own items yet.
Annotates == IF Target(Stage) \in DOMAIN live THEN live[Target(Stage)] ELSE << >>
BatchEnd  == IF Stage.batch = 0 \/ cursor.at + Stage.batch - 1 > Len(Annotates)
             THEN Len(Annotates) ELSE cursor.at + Stage.batch - 1

\* A stage that the checkpoint holds is not run again.
Rehydrate ==
    /\ cursor.pc = "stage" /\ More /\ Turn \in DOMAIN state.stages
    /\ live' = Append(live, state.stages[Turn])
    /\ shared' = Turn
    /\ UNCHANGED <<rec, docs, tree, state, saved, cursor, calls, runs, matched,
                   result>>

StartStage ==
    /\ cursor.pc = "stage" /\ More /\ Turn \notin DOMAIN state.stages
    /\ cursor' = IF \/ Stage.over # 0 /\ Upstream = << >>
                    \/ Comments /\ Annotates = << >>
                 THEN Ended("end")
                 ELSE [pc |-> "ask", at |-> 1, part |-> << >>]
    /\ UNCHANGED <<rec, docs, tree, live, state, saved, shared, calls, runs,
                   matched, result>>

\* After item or batch at: the next one, or the end of the stage.
Onward(part) ==
    LET next == IF Comments THEN BatchEnd + 1 ELSE cursor.at + 1
        last == IF Comments THEN Len(Annotates) ELSE Len(Upstream)
    IN IF next <= last
       THEN [pc |-> "ask", at |-> next, part |-> part]
       ELSE [pc |-> "end", at |-> 0, part |-> part]

\* A call failed, or was refused.  A batch of comments, and an item of a stage
\* with on_error: skip, is passed over whichever it was; else the ceiling stops
\* the run, and a failed unit is over.
Trouble(how) ==
    /\ cursor' = IF Comments \/ (Stage.over # 0 /\ Stage.skip)
                 THEN Onward(cursor.part) ELSE Ended(how)
    /\ saved'  = IF cursor'.pc = "failed" THEN NoState ELSE saved
    /\ UNCHANGED <<rec, docs, tree, live, shared, runs, matched, result>>

\* spend: a call beyond the ceiling is not made.
Granted(k) == calls + k <= MaxCalls

Charge ==
    /\ cursor.pc = "ask"
    /\ \/ /\ Granted(1)
          /\ calls' = calls + 1 /\ cursor' = [cursor EXCEPT !.pc = "tools"]
          /\ UNCHANGED <<rec, docs, tree, live, saved, shared, runs, matched,
                         result>>
       \/ ~Granted(1) /\ Trouble("capped") /\ UNCHANGED calls
    /\ UNCHANGED state

Chosen == Filter.describe = "" \/ Globbed(Filter, tree) = {}
          \/ Filter.describe \in DOMAIN state.files

\* selectFiles: a call of its own, whose reply counts where it names files it
\* was shown.  The selection is kept by the description, for this unit.  What a
\* stage then reads is left out: evidence is looked up in the whole source.
SelectFiles ==
    /\ cursor.pc = "tools" /\ ~Chosen
    /\ \/ /\ Granted(1) /\ calls' = calls + 1
          /\ \/ \E named \in SUBSET File :
                    /\ state' = [state EXCEPT !.files =
                           (Filter.describe :> (named \cap Globbed(Filter, tree))) @@ @]
                    /\ UNCHANGED <<rec, docs, tree, live, saved, shared, cursor,
                                   runs, matched, result>>
             \/ Trouble("failed") /\ UNCHANGED state
       \/ ~Granted(1) /\ Trouble("capped") /\ UNCHANGED <<calls, state>>

\* The reply of a stage that makes items or findings.
Answer(reply) ==
    /\ cursor.pc = "tools" /\ Chosen /\ ~Comments
    /\ LET up    == IF Stage.over = 0 THEN 0 ELSE cursor.at
           area  == IF up = 0 THEN "" ELSE Upstream[up].name
           items == [i \in DOMAIN reply |-> Item(reply[i], up, area)]
       IN cursor' = Onward(cursor.part \o Kept(Stage, items))
    /\ UNCHANGED <<rec, docs, tree, live, state, saved, shared, calls, runs,
                   matched, result>>

\* The reply of a stage that annotates: its comments go into the live items,
\* and into the checkpoint where those are its maps.
Remark(reply) ==
    /\ cursor.pc = "tools" /\ Chosen /\ Comments
    /\ LET to    == Target(Stage)
           items == Annotated(live[to], cursor.at, BatchEnd, reply)
           named == {<<cursor.at + c.index - 1, c.doc>> : c \in
                        {d \in ToSet(reply) : d.index \in 1..(BatchEnd - cursor.at + 1)
                                              /\ d.doc \in docs}}
       IN /\ live'    = [live EXCEPT ![to] = items]
          /\ state'   = IF to <= shared
                        THEN [state EXCEPT !.stages[to] = items] ELSE state
          /\ matched' = {m \in matched : m.stage # to \/ items[m.at].doc = m.doc}
                        \cup {[stage |-> to, at |-> p[1], doc |-> p[2], by |-> Turn] :
                              p \in {q \in named : items[q[1]].doc = q[2]}}
    /\ cursor' = Onward(cursor.part)
    /\ UNCHANGED <<rec, docs, tree, saved, shared, calls, runs, result>>

CallFails ==
    /\ cursor.pc = "tools" /\ Chosen
    /\ Trouble("failed")
    /\ UNCHANGED <<state, calls>>

\* The end of a stage: its items are copied into the checkpoint, which is
\* saved, is not, or is too large and is cleared.
EndStage ==
    /\ cursor.pc = "end"
    /\ live'   = Append(live, cursor.part)
    /\ state'  = [state EXCEPT !.stages = Append(@, Copied(cursor.part))]
    /\ saved' \in {state', saved, NoState}
    /\ cursor' = AtStage
    /\ UNCHANGED <<rec, docs, tree, shared, calls, runs, matched, result>>

\* Every stage passed: the product, and the checkpoint is dropped.
Finish ==
    /\ cursor.pc = "stage" /\ ~More
    /\ result' = IF rec.output = "extraction" THEN Requirements ELSE Findings
    /\ saved'  = NoState
    /\ cursor' = Ended("done")
    /\ UNCHANGED <<rec, docs, tree, live, state, shared, calls, runs, matched>>

\* The run is cancelled, or the server dies.
Stop ==
    /\ cursor.pc \in {"stage", "ask", "tools", "end"}
    /\ cursor' = Ended("stopped")
    /\ UNCHANGED <<rec, docs, tree, live, state, saved, shared, calls, runs,
                   matched, result>>

\* Another run picks the unit up: it reads the project and the source anew,
\* and inherits the checkpoint.
Resume ==
    /\ cursor.pc \in {"stopped", "capped"} /\ runs < MaxRuns
    /\ runs' = runs + 1 /\ calls' = 0
    /\ docs' \in SUBSET Doc /\ tree' \in SUBSET File
    /\ state' = saved /\ live' = << >> /\ shared' = 0
    /\ matched' = {m \in matched : m.by \in DOMAIN saved.stages}
    /\ cursor' = AtStage
    /\ UNCHANGED <<rec, saved, result>>

\* A new run over the same unit.
Rerun == cursor.pc \in {"done", "failed", "stopped", "capped"} /\ Fresh

PipelineNext ==
    \/ Rehydrate \/ StartStage \/ Charge \/ SelectFiles
    \/ \E reply \in Reply : Answer(reply)
    \/ \E reply \in Remarks : Remark(reply)
    \/ CallFails \/ EndStage \/ Finish \/ Stop \/ Resume \/ Rerun

PipelineSpec == PipelineInit /\ [][PipelineNext]_pipeline

(* -------------------------------------------------------------- properties *)

Steps == {"stage", "ask", "tools", "end", "done", "failed", "stopped", "capped"}

\* The state has its types: the live stages begin with those read from the
\* checkpoint, and the checkpoint in memory ends where the live stages do
\* unless they are still being read from it.
PipelineTypeOK ==
    /\ rec \in Recipes /\ Valid(rec)
    /\ docs \subseteq Doc /\ tree \subseteq File
    /\ cursor.pc \in Steps
    /\ calls \in 0..MaxCalls /\ runs \in 1..MaxRuns
    /\ shared <= Len(live)
    /\ Len(live) <= Len(state.stages) \/ cursor.pc = "failed"
    /\ Len(saved.stages) <= Len(state.stages) \/ cursor.pc = "done"
    /\ \A i \in DOMAIN live : Len(live[i]) = Len(state.stages[i])

\* Nothing leaves the unit that a stage asked evidence for and that came without
\* evidence found in the source, whichever of the unit's runs asked; and what it
\* quotes is that evidence, unless a later stage annotated it with another quote,
\* which nothing looks up (runContext.keep, verifyEvidence, annotate).
AskedIsChecked ==
    \A i \in DOMAIN result :
        LET kind == IF rec.output = "extraction" THEN "items" ELSE "findings"
            it   == result[i].item
        IN rec.stages[LastOf(rec, kind)].verify =>
               Proved(it) /\ (it.quote = it.proved \/ it.requoted)

\* A requirement is filed under the area it was extracted from, also when the
\* areas or the requirements come from a checkpoint (recipeGroups, wrapItems).
GroupsAgree ==
    rec.output = "extraction" =>
        \A i \in DOMAIN result :
            result[i].item.area # "" => result[i].heading = result[i].item.area

\* Types, no result that came without evidence, and none in a wrong place.
PipelineInv == PipelineTypeOK /\ AskedIsChecked /\ GroupsAgree

\* A requirement reported as covered names a document that the project has
\* now, whatever snapshot the match was made on (runRecipeExtraction).
CoverageIsReal ==
    \A i \in DOMAIN result : result[i].doc # Nothing => result[i].doc \in docs

\* A document that a completed stage matched to a requirement is reported with
\* it, by the run that resumed it too: what the checkpoint holds of a stage is
\* its output (store/drift.go, StageStateJSON).
ResumeKeepsMatches ==
    cursor.pc = "done" /\ rec.output = "extraction" =>
        \A m \in matched :
            m.stage = LastOf(rec, "items") => live[m.stage][m.at].doc = m.doc
=============================================================================
