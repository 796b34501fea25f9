----------------------------- MODULE MCFinding -----------------------------
(* Small instances of Finding for TLC: a requirement missing beside a     *)
(* document, a gap of a source, and a recipe for each.                    *)
EXTENDS Finding

CONSTANTS f1, f2, d1, d2, d3, a1, a2, t1, t2

TwoDocs  == [f \in Fp |-> IF f = f1 THEN d1 ELSE None]
TwoKinds == [f \in Fp |-> IF f = f1 THEN "new-requirement" ELSE "coverage-gap"]

DriftRecipe == [kinds |-> {"new-requirement"}, perSource |-> FALSE,
                output |-> "findings"]
GapsRecipe  == [kinds |-> {"coverage-gap"}, perSource |-> TRUE,
                output |-> "findings"]
\* Audits the same documents for something else.
OtherRecipe == [kinds |-> {"contradiction"}, perSource |-> FALSE,
                output |-> "findings"]
ExtractRecipe == [kinds |-> {}, perSource |-> TRUE, output |-> "extraction"]
Symmetry == Permutations(Actor)
Recipes == {DriftRecipe, GapsRecipe, OtherRecipe, ExtractRecipe}
=============================================================================
