------------------------------ MODULE MCEngine ------------------------------
(* Small instances, for TLC, of what works on documents: Pipeline, Moves,  *)
(* Assistant, Glob and Draft, side by side.  They share no state, so a      *)
(* behaviour moves one of them.                                            *)
EXTENDS Pipeline, Moves, Assistant, Glob, Draft

CONSTANT Parts

VARIABLE part

engine == <<part, pipeline, moves, assistant, glob, editor>>

(* ---------------------------------------------------------------- Pipeline *)

Everything == [include |-> {}, exclude |-> {}, describe |-> ""]

Items(over, require, verify, skip, max) ==
    [over |-> over, produces |-> "items", annotates |-> 0, skip |-> skip, verify |-> verify,
     require |-> require, max |-> max, batch |-> 0, files |-> Everything]

\* Survey, extract per area, match in batches of two.
Extract ==
    [output |-> "extraction", files |-> Everything,
     stages |-> <<Items(0, TRUE, FALSE, FALSE, 2),
                  Items(1, FALSE, TRUE, TRUE, 0),
                  [Items(2, FALSE, FALSE, FALSE, 0) EXCEPT !.produces = "annotations",
                                                           !.batch = 2]>>]

\* One stage over the files a description selects among those included.
Gaps ==
    [output |-> "findings", files |-> [Everything EXCEPT !.include = {"f"}],
     stages |-> <<[Items(0, TRUE, TRUE, FALSE, 0) EXCEPT
                      !.produces = "findings", !.files = [Everything EXCEPT !.describe = "x"]]>>]

TwoRecipes == {Extract, Gaps}

Says(name, quote, doc, cover) ==
    [name |-> name, quote |-> quote, doc |-> doc, cover |-> cover, said |-> TRUE]

Login == Says("a", "f", Nothing, Nothing)
Audit == Says("b", "g", Nothing, Nothing)
Ghost == Says("", "f", "ghost", "full")

Replies == {<<>>, <<Login>>, <<Audit>>, <<Audit, Login>>, <<Ghost, Login>>}

MatchOf(i, d, q) == [index |-> i, doc |-> d, cover |-> "full", quote |-> q]

\* One remark or none: a document for either item, one nobody has, another quote.
Matches ==
    {<<>>, <<MatchOf(1, "d", Nothing)>>, <<MatchOf(2, "d", Nothing)>>,
     <<MatchOf(1, "ghost", Nothing)>>, <<MatchOf(1, Nothing, "h")>>}

(* ------------------------------------------------------------------- Moves *)

Paths   == {<<"a">>, <<"d", "b">>, <<"d", "c">>, <<"e", "f", "b">>, <<"e", "f", "c">>}
AtFirst == {<<"a">>, <<"d", "b">>, <<"d", "c">>}
Folders == {<<"d">>, <<"e", "f">>}

Refs ==
    {[place |-> "body", slash |-> FALSE, segs |-> s] :
         s \in {<<"b">>, <<"..", "d", "c">>}}
    \cup {[place |-> "body", slash |-> TRUE, segs |-> <<"d", "b">>]}
    \cup {[place |-> "front", slash |-> FALSE, segs |-> s] :
              s \in {<<"d", "b">>, <<"..", "a">>}}

\* One reference, or two to one document.
RefSets ==
    {{}} \cup {{r} : r \in Refs}
    \cup {{r, q} : r \in {x \in Refs : x.place = "front"}, q \in {x \in Refs : x.slash}}

(* -------------------------------------------------------------------- Glob *)

UpTo3(S) == UNION {[1..n -> S] : n \in 1..3}

Pieces    == {<<>>} \cup UpTo3(Char)
SegmentNames == UpTo3({"a", "b"})
Patterns  == UpTo3({<<"a">>, <<"b">>, <<"a", "*">>, <<"*", "*">>, <<>>})
FilePaths == UpTo3({<<"a">>, <<"b">>, <<"a", "b">>})

(* ------------------------------------------------------------- composition *)

\* Bound: one document refers to others, or two do from their bodies.
FewRefs ==
    LET linked == {p \in First : files[p].refs # {}}
    IN \/ Cardinality(linked) <= 1
       \/ /\ Cardinality(linked) = 2
          /\ \A p \in linked : \A r \in files[p].refs : r.place = "body"

\* A component that does not move rests in one of its initial states.
EngineInit ==
    /\ part \in Parts
    /\ part = "pipeline" \/ (rec = Extract /\ docs = {} /\ tree = {})
    /\ part = "moves"
       \/ files = [p \in Path |-> IF p \in First THEN [refs |-> {}, text |-> "t"] ELSE None]
    /\ part = "glob"
       \/ (walk = Walking(<<>>, <<"a">>) /\ rule = [pattern |-> <<<<>>>>, path |-> <<>>])
    /\ part = "draft" \/ buf = [Blank EXCEPT !.doc = CHOOSE d \in Docs : TRUE]
    /\ PipelineInit /\ MovesInit /\ AssistantInit /\ GlobInit /\ DraftInit
    /\ FewRefs

EngineNext ==
    /\ \/ /\ part = "pipeline" /\ PipelineNext
          /\ UNCHANGED <<moves, assistant, glob, editor>>
       \/ /\ part = "moves" /\ MovesNext
          /\ UNCHANGED <<pipeline, assistant, glob, editor>>
       \/ /\ part = "assistant" /\ AssistantNext
          /\ UNCHANGED <<pipeline, moves, glob, editor>>
       \/ /\ part = "glob" /\ GlobNext
          /\ UNCHANGED <<pipeline, moves, assistant, editor>>
       \/ /\ part = "draft" /\ DraftNext
          /\ UNCHANGED <<pipeline, moves, assistant, glob>>
    /\ UNCHANGED part

EngineSpec == EngineInit /\ [][EngineNext]_engine
=============================================================================
