----------------------------- MODULE MCServices -----------------------------
(* Small instances of Access, Registry, Clones and SourceCache for TLC,     *)
(* side by side: they share no state, so a behaviour moves one of them.    *)
EXTENDS Access, Registry, Clones, SourceCache, TLC

CONSTANTS Parts, a, b

VARIABLE part

services == <<part, access, registry, clones, sources>>

\* Two accounts whose names make the same slug.
Emails == [u \in User |-> IF u = 1 THEN "x" ELSE "y"]
Slugs == [u \in User |-> "s"]
SuffixedSlugs == [u \in User |-> IF u = 1 THEN "s-1" ELSE "s-2"]

\* The requests of the four components are named alike.
Symmetry == Permutations({a, b})

\* A component that does not move rests in one of its initial states.
ServicesInit ==
    /\ part \in Parts
    /\ part = "registry" \/ (auth = "local" /\ yaml = CHOOSE y \in Yaml : TRUE)
    /\ AccessInit /\ RegistryInit /\ ClonesInit /\ SourceInit
    /\ part = "sources" \/ \A s \in Source : heads[s] = <<CHOOSE c \in Commit : TRUE>>

ServicesNext ==
    /\ \/ part = "access"   /\ AccessNext   /\ UNCHANGED <<registry, clones, sources>>
       \/ part = "registry" /\ RegistryNext /\ UNCHANGED <<access, clones, sources>>
       \/ part = "clones"   /\ ClonesNext   /\ UNCHANGED <<access, registry, sources>>
       \/ part = "sources"  /\ SourceNext   /\ UNCHANGED <<access, registry, clones>>
    /\ UNCHANGED part

ServicesSpec == ServicesInit /\ [][ServicesNext]_services
=============================================================================
