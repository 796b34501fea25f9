---------------------------- MODULE MCBackground ----------------------------
(* Small instances, for TLC, of what goes on unattended: DriftRun, SignIn's *)
(* pruning loop, Importer and the autosave of Draft, side by side.  They    *)
(* share no state, so a behaviour moves one of them, under its own fairness.*)
EXTENDS DriftRun, SignIn, Importer, Draft

CONSTANTS Parts, v1

VARIABLE part

background == <<part, vars, signin, importer, editor>>

\* A component that does not move rests in one of its initial states.
BackgroundInit ==
    /\ part \in Parts
    /\ part = "signin" \/ mode = "local"
    /\ part = "importer" \/ space = [p \in Page |-> 0]
    /\ part = "draft" \/ buf = [Blank EXCEPT !.doc = CHOOSE d \in Docs : TRUE]
    /\ Init /\ SignInInit /\ ImporterInit /\ DraftInit

BackgroundNext ==
    /\ \/ part = "runs"     /\ Next         /\ UNCHANGED <<signin, importer, editor>>
       \/ part = "signin"   /\ SignInNext   /\ UNCHANGED <<vars, importer, editor>>
       \/ part = "importer" /\ ImporterNext /\ UNCHANGED <<vars, signin, editor>>
       \/ part = "draft"    /\ DraftNext    /\ UNCHANGED <<vars, signin, importer>>
    /\ UNCHANGED part

\* The fairness of each component, while it moves.
BackgroundFairness ==
    /\ WF_vars(part = "runs" /\ WorkerStep)
    /\ \A q \in Request : WF_vars(part = "runs" /\ (Create(q) \/ CreateFails(q)))
    /\ \A a \in Tab : WF_signin(part = "signin" /\ Statement(a))
    /\ WF_signin(part = "signin" /\ Tick) /\ WF_signin(part = "signin" /\ PruneIdle)
    /\ \A j \in Syncer : WF_importer(part = "importer" /\ SyncStep(j))
    /\ WF_importer(part = "importer" /\ StartSync(Loop))
    /\ \A n \in 0..Cardinality(Page) :
           SF_importer(part = "importer" /\ sync[Loop].start = n /\ ReadPages(Loop))
    /\ SF_importer(part = "importer" /\ SnapshotMirror(Loop))
    /\ WF_editor(part = "draft" /\ DraftStep)

BackgroundSpec == BackgroundInit /\ [][BackgroundNext]_background /\ BackgroundFairness
=============================================================================
