------------------------------ MODULE Registry ------------------------------
(***************************************************************************)
(* Which projects and repositories a deployment has: the YAML, its mirror  *)
(* in the store, the projects administrators add and delete at run time,   *)
(* the repositories the git managers have registered, and share links      *)
(* (server/internal/api/admin.go, access.go, pat.go, share.go;             *)
(* store/projects.go, repos.go, shares.go; gitx/repo.go, fleet.go;         *)
(* cmd/specquill/main.go).                                                 *)
(*                                                                         *)
(* Granularity: one statement of the store, or one critical section of a   *)
(* manager's mutex, per step.  The start of the process is one step: the   *)
(* data directory is locked and nothing is served before it ends.  What a  *)
(* clone holds is Clones; here it succeeds or fails.                       *)
(***************************************************************************)
EXTENDS Integers, FiniteSets

CONSTANTS
    Id,      \* the namespace projects, repositories and sources share
    Admin,   \* users; with personal tokens each has a manager of his own
    Call,    \* requests in flight
    Def,     \* sources the documents of a project define in its own config
    MaxKeys, \* bound: keys of one id a manager's order may hold
    None

RepoRow == [mode : {"rw", "ro"}, by : {"config", "api"}]

ASSUME RegistryAssumption ==
    /\ Def \subseteq Id
    /\ MaxKeys \in Nat \ {0}
    /\ None \notin Admin \cup RepoRow

VARIABLES
    auth,     \* "local": one manager, cloned at start; "forge": one per user
    yaml,     \* the YAML file: [Id -> "project", "source" or "none"]
    loaded,   \* what it said when the process started
    projects, \* projects: [Id -> managed_by, or "none"]
    repos,    \* repos: [Id -> [mode, by], or None]
    table,    \* Manager.repos: [manager -> [Id -> mode, or "none"]]
    keys,     \* Manager.order: [manager -> [Id -> how often it is listed]]
    shares,   \* share_links: [Id -> who minted the link, or None]
    call,     \* [Call -> where the request is, and its locals]
    added,    \* ghost: projects added in the app that no YAML has named since
    sourced   \* ghost: ids that some YAML gave to a source

stored == <<projects, repos>>
live == <<table, keys>>
registry == <<auth, yaml, loaded, stored, live, shares, call, added, sourced>>

\* Server.gitm: the shared manager, or the caller's own.
Shared == CHOOSE u \in Admin : TRUE
Mgr(u) == IF auth = "local" THEN Shared ELSE u

ModeOf(kind) == IF kind = "project" THEN "rw" ELSE "ro"

NoCall == [pc |-> "idle", user |-> None, id |-> None, mode |-> "none"]
CallState ==
    [pc : {"idle", "check", "add", "clone", "row", "project", "delete", "remove",
           "register", "enter"},
     user : Admin \cup {None}, id : Id \cup {None}, mode : {"rw", "ro", "none"}]

-----------------------------------------------------------------------------
(* Start                                                                   *)

\* validate: there is a project, and with personal tokens there are no sources.
Valid(file) ==
    /\ \E i \in Id : file[i] = "project"
    /\ auth = "forge" => \A i \in Id : file[i] # "source"
Yaml == {f \in [Id -> {"project", "source", "none"}] : Valid(f)}

\* SyncRepos: what the YAML declares is upserted, and keeps its managed_by;
\* config rows it no longer declares are deleted.
SyncRepos(file) ==
    [i \in Id |->
        IF file[i] # "none"
        THEN [mode |-> ModeOf(file[i]), by |-> IF repos[i] = None THEN "config" ELSE repos[i].by]
        ELSE IF repos[i] # None /\ repos[i].by = "config" THEN None ELSE repos[i]]

\* SyncProjects: config rows are made to match, api rows are left alone.
SyncProjects(file) ==
    [i \in Id |->
        IF file[i] = "project" THEN "config"
        ELSE IF projects[i] = "config" THEN "none" ELSE projects[i]]

\* NewManager and NewUserManager register what the YAML declares.  A shared
\* manager also gets the repositories added in the app, if they clone.
Registered(file, rows, cloned) ==
    [i \in Id |->
        IF file[i] # "none" THEN ModeOf(file[i])
        ELSE IF auth = "local" /\ rows[i] # None /\ rows[i].by = "api" /\ i \in cloned
        THEN rows[i].mode ELSE "none"]

Start(file, rows, cloned) ==
    /\ loaded' = file
    /\ table' = [u \in Admin |-> Registered(file, rows, cloned)]
    /\ keys' = [u \in Admin |-> [i \in Id |-> IF table'[u][i] = "none" THEN 0 ELSE 1]]
    /\ call' = [a \in Call |-> NoCall]

RegistryInit ==
    /\ auth \in {"local", "forge"}
    /\ yaml \in Yaml
    /\ loaded = yaml
    /\ projects = [i \in Id |-> IF yaml[i] = "project" THEN "config" ELSE "none"]
    /\ repos = [i \in Id |-> IF yaml[i] = "none" THEN None
                             ELSE [mode |-> ModeOf(yaml[i]), by |-> "config"]]
    /\ table = [u \in Admin |-> Registered(yaml, repos, {})]
    /\ keys = [u \in Admin |-> [i \in Id |-> IF yaml[i] = "none" THEN 0 ELSE 1]]
    /\ shares = [i \in Id |-> None]
    /\ call = [a \in Call |-> NoCall]
    /\ added = {}
    /\ sourced = {i \in Id : yaml[i] = "source"}

\* The process dies and starts again, possibly with another YAML.
Boot(cloned) ==
    /\ repos' = SyncRepos(yaml)
    /\ projects' = SyncProjects(yaml)
    /\ Start(yaml, repos', cloned)
    /\ added' = added \ {i \in Id : yaml[i] = "project"}
    /\ sourced' = sourced \cup {i \in Id : yaml[i] = "source"}
    /\ UNCHANGED <<auth, yaml, shares>>

EditYaml(file) ==
    /\ yaml' = file
    /\ UNCHANGED <<auth, loaded, stored, live, shares, call, added, sourced>>

-----------------------------------------------------------------------------
(* The manager                                                             *)

Ask(a, u, i, pc, mode) ==
    /\ call[a].pc = "idle"
    /\ call' = [call EXCEPT ![a] = [pc |-> pc, user |-> u, id |-> i, mode |-> mode]]
Step(a, pc) == call' = [call EXCEPT ![a].pc = pc]
Done(a) == call' = [call EXCEPT ![a] = NoCall]
Known(a) == table[Mgr(call[a].user)][call[a].id] # "none"

\* Manager.add: a new object under the key, and the key in the order.
AddRepo(a, mode) ==
    LET m == Mgr(call[a].user) i == call[a].id IN
    /\ keys[m][i] < MaxKeys
    /\ table' = [table EXCEPT ![m][i] = mode]
    /\ keys' = [keys EXCEPT ![m][i] = @ + 1]

RemoveKey(a) ==
    LET m == Mgr(call[a].user) i == call[a].id IN
    /\ table' = [table EXCEPT ![m][i] = "none"]
    /\ keys' = [keys EXCEPT ![m][i] = @ - 1]

\* Manager.RemoveRepo: the object, and one occurrence of its key.
RemoveRepo(a) ==
    IF Known(a) THEN RemoveKey(a) ELSE UNCHANGED live

-----------------------------------------------------------------------------
(* POST /api/projects                                                      *)

\* createProject refuses the id of a project; that of a source passes.
StartProject(a, u, i) ==
    /\ projects[i] = "none"
    /\ Ask(a, u, i, "check", "rw")
    /\ UNCHANGED <<auth, yaml, loaded, stored, live, shares, added, sourced>>

\* Manager.AddRepo asks whether the id is registered, and then registers it.
CheckRepo(a) ==
    /\ call[a].pc = "check"
    /\ Step(a, IF Known(a) THEN "row" ELSE "add")
    /\ UNCHANGED <<auth, yaml, loaded, stored, live, shares, added, sourced>>

EnterRepo(a) ==
    /\ call[a].pc = "add"
    /\ AddRepo(a, "rw")
    /\ Step(a, "clone")
    /\ UNCHANGED <<auth, yaml, loaded, stored, shares, added, sourced>>

CloneRepo(a) ==
    /\ call[a].pc = "clone"
    /\ \/ Step(a, "row") /\ UNCHANGED live
       \/ RemoveRepo(a) /\ Done(a)
    /\ UNCHANGED <<auth, yaml, loaded, stored, shares, added, sourced>>

InsertProject(a) ==
    LET i == call[a].id IN
    /\ projects' = IF projects[i] = "none" THEN [projects EXCEPT ![i] = "api"] ELSE projects
    /\ added' = IF projects[i] = "none" THEN added \cup {i} ELSE added

UpsertRepo(a) ==
    LET i == call[a].id IN
    repos' = [repos EXCEPT ![i] =
        [mode |-> "rw", by |-> IF @ = None THEN "api" ELSE @.by]]

ProjectFirst(a) == InsertProject(a) /\ UNCHANGED repos
RepoFirst(a) == UpsertRepo(a) /\ UNCHANGED <<projects, added>>
FirstRow(a) == RepoFirst(a)

UpsertRepoRow(a) ==
    /\ call[a].pc = "row"
    /\ FirstRow(a)
    /\ Step(a, "project")
    /\ UNCHANGED <<auth, yaml, loaded, live, shares, sourced>>

\* The key of projects decides between two requests that create one id.
AddProject(a) ==
    /\ call[a].pc = "project"
    /\ InsertProject(a)
    /\ Done(a)
    /\ UNCHANGED <<auth, yaml, loaded, repos, live, shares, sourced>>

-----------------------------------------------------------------------------
(* DELETE /api/projects/{id}                                               *)

AnyRow(i) == projects[i] # "none"
Deletable(i) == projects[i] = "api"

StartDelete(a, u, i) ==
    /\ Deletable(i)
    /\ Ask(a, u, i, "delete", "rw")
    /\ UNCHANGED <<auth, yaml, loaded, stored, live, shares, added, sourced>>

DeleteProject(a) ==
    /\ call[a].pc = "delete"
    /\ projects' = [projects EXCEPT ![call[a].id] = "none"]
    /\ added' = added \ {call[a].id}
    /\ Step(a, "remove")
    /\ UNCHANGED <<auth, yaml, loaded, repos, live, shares, sourced>>

\* Only the caller's own manager forgets it, and its repos row stays.
Unregister(a) ==
    /\ call[a].pc = "remove"
    /\ RemoveRepo(a)
    /\ Done(a)
    /\ UNCHANGED <<auth, yaml, loaded, stored, shares, added, sourced>>

-----------------------------------------------------------------------------
(* Requests of one user, with personal tokens                              *)

\* resolveProject: a project this manager has not heard of is registered from
\* its repos row.
ResolveProject(a, u, i) ==
    /\ auth = "forge" /\ projects[i] # "none" /\ table[u][i] = "none"
    /\ repos[i] # None
    /\ Ask(a, u, i, "register", repos[i].mode)
    /\ UNCHANGED <<auth, yaml, loaded, stored, live, shares, added, sourced>>

\* registerUserSources: the sources that a readable project's config defines.
ResolveSource(a, u, i) ==
    /\ auth = "forge" /\ i \in Def
    /\ \E p \in Id : projects[p] # "none" /\ table[u][p] = "rw"
    /\ table[u][i] = "none"
    /\ Ask(a, u, i, "register", "ro")
    /\ UNCHANGED <<auth, yaml, loaded, stored, live, shares, added, sourced>>

\* Manager.RegisterRepo: again a check, and then the registration.
RegisterCheck(a) ==
    /\ call[a].pc = "register"
    /\ IF Known(a) THEN Done(a) ELSE Step(a, "enter")
    /\ UNCHANGED <<auth, yaml, loaded, stored, live, shares, added, sourced>>

RegisterEnter(a) ==
    /\ call[a].pc = "enter"
    /\ AddRepo(a, call[a].mode)
    /\ Done(a)
    /\ UNCHANGED <<auth, yaml, loaded, stored, shares, added, sourced>>

-----------------------------------------------------------------------------
(* Share links                                                             *)

\* projectByID: a project, or a writable repository of that id.
Shareable(m, i) ==
    \/ projects[i] # "none" /\ table[m][i] # "none"
    \/ projects[i] = "none" /\ table[m][i] = "rw"

CreateShare(u, i) ==
    /\ Shareable(Mgr(u), i)
    /\ shares' = [shares EXCEPT ![i] = u]
    /\ UNCHANGED <<auth, yaml, loaded, stored, live, call, added, sourced>>

DeleteShare(u, i) ==
    /\ Shareable(Mgr(u), i) /\ shares[i] # None
    /\ shares' = [shares EXCEPT ![i] = None]
    /\ UNCHANGED <<auth, yaml, loaded, stored, live, call, added, sourced>>

RegistryNext ==
    \/ \E f \in Yaml : EditYaml(f)
    \/ \E c \in SUBSET Id : Boot(c)
    \/ \E u \in Admin, i \in Id : CreateShare(u, i) \/ DeleteShare(u, i)
    \/ \E a \in Call, u \in Admin, i \in Id :
        \/ StartProject(a, u, i) \/ StartDelete(a, u, i)
        \/ ResolveProject(a, u, i) \/ ResolveSource(a, u, i)
    \/ \E a \in Call :
        \/ CheckRepo(a) \/ EnterRepo(a) \/ CloneRepo(a)
        \/ UpsertRepoRow(a) \/ AddProject(a)
        \/ DeleteProject(a) \/ Unregister(a)
        \/ RegisterCheck(a) \/ RegisterEnter(a)

RegistrySpec == RegistryInit /\ [][RegistryNext]_registry

-----------------------------------------------------------------------------
(* Properties                                                              *)

\* Every variable has its type.
RegistryTypeOK ==
    /\ auth \in {"local", "forge"}
    /\ yaml \in Yaml /\ loaded \in Yaml
    /\ projects \in [Id -> {"config", "api", "none"}]
    /\ repos \in [Id -> RepoRow \cup {None}]
    /\ table \in [Admin -> [Id -> {"rw", "ro", "none"}]]
    /\ keys \in [Admin -> [Id -> 0..MaxKeys]]
    /\ shares \in [Id -> Admin \cup {None}]
    /\ call \in [Call -> CallState]
    /\ added \subseteq Id /\ sourced \subseteq Id

\* The projects of the YAML the process started with, and no others, are
\* managed by it: nothing done in the app adds to them or takes one away, not
\* even a request that raced another or was cut short.
ConfigFollowsYaml ==
    \A i \in Id : projects[i] = "config" <=> loaded[i] = "project"

\* A project added in the app stays until it is deleted in the app, over any
\* restarts and edits of the YAML that do not name it.
AddedStays == \A i \in added : projects[i] = "api"

\* A project has its repository's row, on which grants hang and from which the
\* managers of other users and of later processes register it: also when the
\* process died while it was created.  Only an id that the YAML once gave to a
\* source can lose the row.
ProjectHasRepo ==
    \A i \in Id \ sourced : projects[i] # "none" => repos[i] # None

\* Types, a repository for every project that was stored with one, and no
\* project of the app taken by a start.
RegistryInv == RegistryTypeOK /\ ProjectHasRepo /\ AddedStays
=============================================================================
