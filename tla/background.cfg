SPECIFICATION BackgroundSpec
CONSTANTS
    Parts = {"runs", "signin", "importer", "draft"}
    v1 = v1
    Unit = {1, 2}
    Configured = {1, 2}
    Version = {v1}
    Stages = 2
    Lenient = {2}
    Ceiling = 2
    Request = {1, 2}
    NoRequest = 0
    MaxRuns = 2
    MaxCrashes = 2
    TTL = 2
    MinIdle = 1
    Session = {1}
    Tab = {"a", "b"}
    Gone = Gone
    Page = {1, 2}
    Limit = 1
    Syncer = {"loop", "request"}
    Loop = "loop"
    MaxEdits = 1
    Docs = {"a", "b"}
    Words = {"m"}
    Others = {"o"}
    Nowhere = Nowhere
    MaxEvents = 1
INVARIANTS IInv DoneIsExact ResumeLosesNothing SignInInv ImporterInv
PROPERTIES ImplementsLedger RunsEnd VaultDrains MirrorCatchesUp DraftSettles
CHECK_DEADLOCK FALSE
