------------------------------- MODULE MCGitx -------------------------------
(* Small instances of Gitx for TLC.                                        *)
EXTENDS Gitx, TLC

CONSTANTS a1, a2

\* One actor that handles every kind of request, one at a time.
OneServer == [a \in {a1} |-> Kinds]
\* A merge against the background sync loop.
MergeAndSync == [a \in {a1, a2} |-> IF a = a1 THEN {"merge"} ELSE {"sync"}]
\* Opening the workspace while main follows the remote.
OpenWorkspace == [a \in {a1} |-> {"workspace", "pull"}]

Symmetry == Permutations(Content) \cup Permutations(Path)
=============================================================================
