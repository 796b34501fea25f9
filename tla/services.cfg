SPECIFICATION ServicesSpec
CONSTANTS
    Parts = {"access", "registry", "clones", "sources"}
    a = a
    b = b
    User = {1, 2}
    Email <- Emails
    Slug <- Slugs
    Suffixed <- SuffixedSlugs
    Repo = {"r"}
    Admins = {"y"}
    Default = 0
    ForgeRole = {1}
    Granted = {2}
    Slot = {a, b}
    Nobody = Nobody
    Id = {"p", "q"}
    Admin = {"ann"}
    Call = {a, b}
    Def = {"q"}
    MaxKeys = 2
    None = None
    IdleAfter = 1
    Retention = 2
    Tabs = {a, b}
    Janitor = Janitor
    NoOne = NoOne
    MaxBusy = 2
    Source = {"code", "wiki"}
    Reader = {a, b}
    Commit = {"k", "l"}
    Objects = 2
    CacheMax = 2
    MaxShifts = 2
SYMMETRY Symmetry
INVARIANTS AccessInv RevokedStaysOut OneWorkspaceEach RegistryInv ConfigFollowsYaml ClonesInv SourceIsFresh
PROPERTY WorkOutlivesIdleness
