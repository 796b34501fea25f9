---------------------------- MODULE SourceCache ----------------------------
(***************************************************************************)
(* The cache of reference-source snapshots the assistant's requests share  *)
(* (server/internal/api/speccy.go sourceSnapshot, srcCache).  A source is  *)
(* read only: each fetch forces its branch to wherever the remote's is by  *)
(* then, an earlier commit too (gitx/repo.go).  The head is read first and *)
(* the content after, object by object, each by the name of the branch, so *)
(* the branch may have moved before any of them.  An object is told only   *)
(* by the commit it was read at.                                           *)
(***************************************************************************)
EXTENDS Integers, Sequences, SequencesExt

CONSTANTS
    Source,   \* names of reference sources
    Reader,   \* requests that read one
    Commit,   \* commits a source's branch may be at
    Objects,  \* what a snapshot reads by the branch's name: the listing, each file
    CacheMax, \* srcCacheMax
    MaxShifts \* bound: moves of the branches, all together

ASSUME ObjectsAssumption == Objects \in Nat

VARIABLES
    heads,    \* [Source -> its heads in turn: the last is where the branch is,
              \*  those before are ghosts]
    kept,     \* the cache, oldest first: [source, sha, content]
    reader,   \* [Reader -> where it is, and its locals]
    shifts    \* moves so far

sources == <<heads, kept, reader, shifts>>

\* began (ghost) counts the heads the source had had when the request came; sha is
\* the head it read; got has the commit each object was read at.
NoRead == [pc |-> "idle", source |-> "", sha |-> "", got |-> <<>>, began |-> 0]

SourceInit ==
    /\ \E c \in Commit : heads = [s \in Source |-> <<c>>]
    /\ kept = <<>>
    /\ reader = [r \in Reader |-> NoRead]
    /\ shifts = 0

\* Where the branch is.
Now(s) == heads[s][Len(heads[s])]

\* Mutant: a snapshot is looked up by the source alone.
HitsBySource(source, sha) == {e \in ToSet(kept) : e.source = source}

\* srcCache.get, by source and head.
Hits(source, sha) == {e \in ToSet(kept) : e.source = source /\ e.sha = sha}

\* srcCache.put: what is there stays; beyond the limit the oldest goes.
Put(e) ==
    IF Hits(e.source, e.sha) # {} THEN kept
    ELSE IF Len(kept) < CacheMax THEN Append(kept, e) ELSE Append(Tail(kept), e)

Request(r, s) ==
    /\ reader[r].pc = "idle"
    /\ reader' = [reader EXCEPT ![r] = [NoRead EXCEPT !.pc = "head", !.source = s,
                                                      !.began = Len(heads[s])]]
    /\ UNCHANGED <<heads, kept, shifts>>

\* Repo.Head; it may fail, and the source is left out of the answer.
ReadHead(r) ==
    /\ reader[r].pc = "head"
    /\ \/ reader' = [reader EXCEPT ![r] = NoRead]
       \/ reader' = [reader EXCEPT ![r].pc = "look", ![r].sha = Now(reader[r].source)]
    /\ UNCHANGED <<heads, kept, shifts>>

LookUp(r) ==
    /\ reader[r].pc = "look"
    /\ LET hits == Hits(reader[r].source, reader[r].sha) IN
       \/ hits = {} /\ reader' = [reader EXCEPT ![r].pc = "snapshot"]
       \/ \E e \in hits : reader' = [reader EXCEPT ![r].pc = "done", ![r].got = e.content]
    /\ UNCHANGED <<heads, kept, shifts>>

\* Repo.Snapshot asks for the listing, and for each file it names, of the branch:
\* each object as the branch has it by then.  Git may fail at any of them.
Snapshot(r) ==
    /\ reader[r].pc = "snapshot"
    /\ \/ reader' = [reader EXCEPT ![r] = NoRead]
       \/ /\ Len(reader[r].got) < Objects
          /\ reader' = [reader EXCEPT ![r].got = Append(@, Now(reader[r].source))]
       \/ Len(reader[r].got) = Objects /\ reader' = [reader EXCEPT ![r].pc = "put"]
    /\ UNCHANGED <<heads, kept, shifts>>

PutSnapshot(r) ==
    /\ reader[r].pc = "put"
    /\ kept' = Put([source |-> reader[r].source, sha |-> reader[r].sha, content |-> reader[r].got])
    /\ reader' = [reader EXCEPT ![r].pc = "done"]
    /\ UNCHANGED <<heads, shifts>>

Served(r) ==
    /\ reader[r].pc = "done"
    /\ reader' = [reader EXCEPT ![r] = NoRead]
    /\ UNCHANGED <<heads, kept, shifts>>

\* A fetch forces the branch to where the remote's is: on, aside, or back.
Moves(s) ==
    /\ shifts < MaxShifts
    /\ \E c \in Commit \ {Now(s)} : heads' = [heads EXCEPT ![s] = Append(@, c)]
    /\ shifts' = shifts + 1
    /\ UNCHANGED <<kept, reader>>

SourceNext ==
    \/ \E r \in Reader : \/ \E s \in Source : Request(r, s)
                         \/ ReadHead(r) \/ LookUp(r) \/ Snapshot(r) \/ PutSnapshot(r) \/ Served(r)
    \/ \E s \in Source : Moves(s)

SourceSpec == SourceInit /\ [][SourceNext]_sources

\* Of a history: the heads from the n-th on, those from the first time the branch was
\* at c on, and whether it was at c more than once.
HeadsSince(h, n) == {h[i] : i \in n..Len(h)}
HeadsFrom(h, c)  == {h[i] : i \in {k \in 1..Len(h) : \E j \in 1..k : h[j] = c}}
CameBack(h, c)   == \E i, j \in 1..Len(h) : i # j /\ h[i] = c /\ h[j] = c

\* Everything a request answers from is at a head the source had since the request
\* came, from the cache or not: a moved branch is a miss and not stale content
\* (speccy.go:440).  That fails only where a branch went back to a head it had left,
\* and there the answer is at no head before the first time it was there.
SourceIsFresh ==
    \A r \in Reader :
        reader[r].pc = "done" =>
            LET h == heads[reader[r].source] IN
            \A k \in DOMAIN reader[r].got :
                \/ reader[r].got[k] \in HeadsSince(h, reader[r].began)
                \/ /\ CameBack(h, reader[r].sha)
                   /\ reader[r].got[k] \in HeadsFrom(h, reader[r].sha)
=============================================================================
