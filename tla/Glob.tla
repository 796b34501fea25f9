-------------------------------- MODULE Glob --------------------------------
(***************************************************************************)
(* The matching of file filters (server/internal/recipe/glob.go): the      *)
(* two-pointer walk that matches one segment, step by step, and the        *)
(* recursion that matches a path, both against what the comments say the   *)
(* patterns mean.  A segment is a sequence of characters; a pattern is its *)
(* segments, a trailing slash leaving an empty one at the end.             *)
(***************************************************************************)
EXTENDS Integers, Sequences, SequencesExt

CONSTANTS
    Char,     \* characters, "*" and "?" among them
    Piece,    \* pattern segments to walk
    Name,     \* path segments; none holds a "*"
    Pattern,  \* patterns
    FilePath  \* paths

\* A pattern and a path that were split have a segment at least.
ASSUME GlobAssumption ==
    /\ {"*", "?"} \subseteq Char
    /\ Piece \cup Name \subseteq Seq(Char)
    /\ \A s \in Name : \A i \in DOMAIN s : s[i] # "*"
    /\ Pattern \cup FilePath \subseteq Seq(Seq(Char)) \ {<<>>}

VARIABLES
    walk,     \* matchSegment: its arguments and locals
    rule      \* match: its arguments, [pattern, path]

glob == <<walk, rule>>

AnyDepth == <<"*", "*">>

(* ------------------------------------------------------ what patterns mean *)

\* s can be cut into n pieces such that piece i is from..to.
Cut(n, len, Fits(_, _, _)) ==
    \E f \in [0..n -> 0..len] :
        /\ f[0] = 0 /\ f[n] = len
        /\ \A i \in 1..n : f[i - 1] <= f[i] /\ Fits(i, f[i - 1], f[i])

\* "*" any run of characters within one segment, "?" exactly one.
Spelled(pat, s) ==
    Cut(Len(pat), Len(s), LAMBDA i, a, b :
            pat[i] = "*" \/ (b = a + 1 /\ pat[i] \in {"?", s[b]}))

\* "**" any number of whole segments.
Covers(pat, path) ==
    Cut(Len(pat), Len(path), LAMBDA i, a, b :
            pat[i] = AnyDepth \/ (b = a + 1 /\ Spelled(pat[i], path[b])))

\* A pattern without a slash matches the basename, and one that ends in a
\* slash whatever is under the folder (and a file of that name).
Means(pat, path) ==
    /\ pat # <<<<>>>>
    /\ IF Len(pat) = 1 THEN Spelled(pat[1], Last(path))
       ELSE IF Last(pat) = <<>>
       THEN \E k \in 0..Len(path) : Covers(Front(pat), SubSeq(path, 1, k))
       ELSE Covers(pat, path)

(* ------------------------------------------------------------ match, in code *)

\* matchSegments: where the suffixes of the path begin that the segments of the
\* pattern from the i-th match.
MatchSegments(pat, path) ==
    LET From[i \in 1..(Len(pat) + 1)] ==
        IF i > Len(pat) THEN {Len(path) + 1}
        ELSE {j \in 1..(Len(path) + 1) :
                 IF pat[i] = AnyDepth
                 THEN i = Len(pat) \/ \E k \in j..(Len(path) + 1) : k \in From[i + 1]
                 ELSE j <= Len(path) /\ Spelled(pat[i], path[j]) /\ j + 1 \in From[i + 1]}
    IN 1 \in From[1]

Normal(pat) ==
    IF Len(pat) = 1 THEN <<AnyDepth>> \o pat
    ELSE IF Last(pat) = <<>> THEN Append(Front(pat), AnyDepth) ELSE pat

Match(pat, path) == pat # <<<<>>>> /\ MatchSegments(Normal(pat), path)

(* -------------------------------------------------------- matchSegment, walk *)

Walking(pat, s) ==
    [pat |-> pat, s |-> s, pi |-> 1, si |-> 1, star |-> 0, mark |-> 0, verdict |-> "none"]

GlobInit ==
    \/ /\ walk \in {Walking(pat, s) : pat \in Piece, s \in Name}
       /\ rule = [pattern |-> <<<<>>>>, path |-> <<>>]
    \/ /\ walk = [Walking(<<>>, <<>>) EXCEPT !.verdict = "match"]
       /\ rule \in [pattern : Pattern, path : FilePath]

Walks == walk.verdict = "none" /\ walk.si <= Len(walk.s)

\* What the pattern has next, which is nothing at its end.
Ahead(chars) == walk.pi <= Len(walk.pat) /\ walk.pat[walk.pi] \in chars

Agrees == Ahead({"?", walk.s[walk.si]})
AtStar == ~Agrees /\ Ahead({"*"})
Stuck  == ~Agrees /\ ~Ahead({"*"})

Step ==
    /\ Walks /\ Agrees
    /\ walk' = [walk EXCEPT !.pi = @ + 1, !.si = @ + 1]
    /\ UNCHANGED rule

Star ==
    /\ Walks /\ AtStar
    /\ walk' = [walk EXCEPT !.star = walk.pi, !.mark = walk.si, !.pi = @ + 1]
    /\ UNCHANGED rule

\* Mutant: the last "*" swallows up to where the walk stands.
Swallowed == walk.si + 1

\* The last "*" swallows one more character than it did.
Swallows == walk.mark + 1

Backtrack ==
    /\ Walks /\ Stuck /\ walk.star > 0
    /\ walk' = [walk EXCEPT !.pi = walk.star + 1, !.mark = Swallows, !.si = Swallows]
    /\ UNCHANGED rule

Mismatch ==
    /\ Walks /\ Stuck /\ walk.star = 0
    /\ walk' = [walk EXCEPT !.verdict = "differs"]
    /\ UNCHANGED rule

\* The rest of the pattern is stars.
EndWalk ==
    /\ walk.verdict = "none" /\ walk.si > Len(walk.s)
    /\ walk' = [walk EXCEPT !.verdict =
           IF \A i \in walk.pi..Len(walk.pat) : walk.pat[i] = "*" THEN "match" ELSE "differs"]
    /\ UNCHANGED rule

GlobNext == Step \/ Star \/ Backtrack \/ Mismatch \/ EndWalk

GlobSpec == GlobInit /\ [][GlobNext]_glob

\* A filter keeps the files its patterns mean: the walk with its one level of
\* backtracking finds a match in a segment exactly when there is one, and the
\* recursion finds one in a path.
FiltersMean ==
    /\ walk.verdict # "none" => (walk.verdict = "match") = Spelled(walk.pat, walk.s)
    /\ Match(rule.pattern, rule.path) = Means(rule.pattern, rule.path)
=============================================================================
