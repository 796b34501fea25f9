-------------------------- MODULE DeploymentProofs --------------------------
(* What a deployment serves: its projects and repositories follow the YAML  *)
(* and what administrators add, for any ids, users and requests in flight,  *)
(* and a mirror of an imported space misses none of its pages, for any      *)
(* pages, syncs and edits.                                                  *)
EXTENDS Registry, Importer, FiniteSetTheorems, TLAPS

(* The registry *)

\* What a request under way names exists; a registration has a mode, a project
\* about to be stored has its repository's row, and one about to be deleted is
\* none of the YAML's.
CallOK(c) ==
    /\ c.pc # "idle" => c.user \in Admin /\ c.id \in Id
    /\ c.pc \in {"register", "enter"} => c.mode # "none"
    /\ c.pc = "project" => repos[c.id] # None
    /\ c.pc = "delete" => projects[c.id] # "config"

CallsOK == \A a \in Call : CallOK(call[a])

\* What a manager has registered is in its order.
KeyedOK == \A u \in Admin, i \in Id : table[u][i] # "none" => keys[u][i] > 0

\* The rows of repositories that only a project brought belong to the YAML's
\* projects: a start that deletes such a row deletes the project too.
RowsOK ==
    \A i \in Id \ sourced :
        repos[i] # None /\ repos[i].by = "config" => projects[i] = "config"

RegistryIInv ==
    /\ RegistryTypeOK /\ CallsOK /\ KeyedOK
    /\ ConfigFollowsYaml /\ AddedStays /\ RowsOK /\ ProjectHasRepo

-----------------------------------------------------------------------------
(* Types and locals of the registry                                        *)

\* A manager is some user's.
LEMMA MgrOf == \A u \in Admin : Mgr(u) \in Admin
  BY DEF Mgr, Shared

\* What the YAML declares has a mode, and a row of its own.
LEMMA ModeIs ==
  /\ \A kind : ModeOf(kind) \in {"rw", "ro"}
  /\ None \notin RepoRow
  /\ \A m \in {"rw", "ro"}, b \in {"config", "api"} :
        LET r == [mode |-> m, by |-> b] IN r \in RepoRow /\ r.mode = m /\ r.by = b
  BY RegistryAssumption DEF RegistryAssumption, ModeOf, RepoRow

\* Which files are valid depends on the way users sign in, which stays.
LEMMA YamlStays == auth' = auth => Yaml' = Yaml
  BY DEF Yaml, Valid

\* A request that is not there has its type.
LEMMA NoCallOK == NoCall \in CallState /\ NoCall.pc = "idle"
  BY DEF NoCall, CallState

\* The other requests are where they were.
OtherCalls(a) == \A b \in Call : b # a => call'[b] = call[b]

\* A request that begins has what it was asked.
LEMMA AskIs ==
  ASSUME call \in [Call -> CallState], NEW a \in Call, NEW u \in Admin, NEW i \in Id,
         NEW pc \in {"check", "delete", "register"}, NEW mode \in {"rw", "ro"},
         Ask(a, u, i, pc, mode)
  PROVE  /\ call' \in [Call -> CallState] /\ OtherCalls(a)
         /\ call'[a].pc = pc /\ call'[a].user = u /\ call'[a].id = i /\ call'[a].mode = mode
<1> DEFINE new == [pc |-> pc, user |-> u, id |-> i, mode |-> mode]
<1>1. new \in CallState /\ new.pc = pc /\ new.user = u /\ new.id = i /\ new.mode = mode
  BY DEF CallState
<1>2. call' = [call EXCEPT ![a] = new]
  BY DEF Ask
<1> HIDE DEF new
<1> QED  BY <1>1, <1>2 DEF OtherCalls

Pcs == {"idle", "check", "add", "clone", "row", "project", "delete", "remove",
        "register", "enter"}

\* A request that goes on keeps what it was asked.
LEMMA StepIs ==
  ASSUME call \in [Call -> CallState], NEW a \in Call, NEW pc \in Pcs, Step(a, pc)
  PROVE  /\ call' \in [Call -> CallState] /\ OtherCalls(a)
         /\ call'[a].pc = pc /\ call'[a].user = call[a].user /\ call'[a].id = call[a].id
         /\ call'[a].mode = call[a].mode
<1> DEFINE new == [call[a] EXCEPT !.pc = pc]
<1>1. call[a] \in CallState
  OBVIOUS
<1>2. /\ new \in CallState /\ new.pc = pc /\ new.user = call[a].user
      /\ new.id = call[a].id /\ new.mode = call[a].mode
  BY <1>1 DEF CallState, Pcs
<1>3. call' = [call EXCEPT ![a] = new]
  BY DEF Step
<1> HIDE DEF new
<1> QED  BY <1>2, <1>3 DEF OtherCalls

\* A request that is over leaves nothing.
LEMMA DoneIs ==
  ASSUME call \in [Call -> CallState], NEW a \in Call, Done(a)
  PROVE  call' \in [Call -> CallState] /\ OtherCalls(a) /\ call'[a].pc = "idle"
  BY NoCallOK DEF Done, OtherCalls

-----------------------------------------------------------------------------
(* What each step does to the requests                                     *)

\* A request takes a step and is about what it was about, if it goes on; where
\* it comes to a registration it has a mode.
Moves(a) ==
    /\ call' \in [Call -> CallState] /\ OtherCalls(a)
    /\ call'[a].pc # "idle" => call'[a].user \in Admin /\ call'[a].id \in Id
    /\ call'[a].pc \in {"register", "enter"} => call'[a].mode # "none"
    /\ call'[a].pc = "project" => call[a].pc = "row" /\ call'[a].id = call[a].id
    /\ call'[a].pc = "delete" => projects[call'[a].id] = "api" /\ projects' = projects

\* Where requests are between their steps.
Between == RegistryTypeOK /\ CallsOK

\* Requests that begin.
LEMMA StartMoves ==
  ASSUME Between, NEW a \in Call, NEW u \in Admin, NEW i \in Id,
         \/ StartProject(a, u, i) \/ StartDelete(a, u, i)
         \/ ResolveProject(a, u, i) \/ ResolveSource(a, u, i)
  PROVE  /\ Moves(a) /\ call'[a].pc # "project"
         /\ UNCHANGED <<auth, yaml, loaded, stored, live, shares, added, sourced>>
<1> USE DEF Between, Moves, RegistryTypeOK
<1>1. CASE StartProject(a, u, i)
  BY <1>1, AskIs DEF StartProject
<1>2. CASE StartDelete(a, u, i)
  BY <1>2, AskIs DEF StartDelete, Deletable, stored
<1>3. CASE ResolveProject(a, u, i)
  <2>1. repos[i] \in RepoRow
    BY <1>3 DEF ResolveProject
  <2>2. repos[i].mode \in {"rw", "ro"}
    BY <2>1 DEF RepoRow
  <2> QED  BY <1>3, <2>2, AskIs DEF ResolveProject
<1>4. CASE ResolveSource(a, u, i)
  BY <1>4, AskIs DEF ResolveSource
<1> QED  BY <1>1, <1>2, <1>3, <1>4

\* Requests that go on.
Goes(a) ==
    \/ CheckRepo(a) \/ EnterRepo(a) \/ CloneRepo(a)
    \/ UpsertRepoRow(a) \/ AddProject(a)
    \/ DeleteProject(a) \/ Unregister(a)
    \/ RegisterCheck(a) \/ RegisterEnter(a)

\* A request that goes on was there, and about an id of some user.
LEMMA GoesMoves ==
  ASSUME Between, NEW a \in Call, Goes(a)
  PROVE  Moves(a) /\ call[a].user \in Admin /\ call[a].id \in Id
<1>1. call \in [Call -> CallState] /\ CallOK(call[a])
  BY DEF Between, CallsOK, RegistryTypeOK
<1>2. call[a].pc # "idle"
  BY DEF Goes, CheckRepo, EnterRepo, CloneRepo, UpsertRepoRow, AddProject, DeleteProject,
         Unregister, RegisterCheck, RegisterEnter
<1>3. call[a].user \in Admin /\ call[a].id \in Id
  BY <1>1, <1>2 DEF CallOK
<1>4. CASE Done(a)
  <2>1. call' \in [Call -> CallState] /\ OtherCalls(a) /\ call'[a].pc = "idle"
    BY <1>1, <1>4, DoneIs
  <2> QED  BY <1>3, <2>1 DEF Moves
<1>5. ASSUME NEW pc \in {"add", "clone", "row", "remove"}, Step(a, pc)
      PROVE  Moves(a)
  <2>1. pc \in Pcs
    BY DEF Pcs
  <2> QED  BY <1>1, <1>3, <1>5, <2>1, StepIs DEF Moves
<1>6. CASE call[a].pc = "row" /\ Step(a, "project")
  <2>1. "project" \in Pcs
    BY DEF Pcs
  <2> QED  BY <1>1, <1>3, <1>6, <2>1, StepIs DEF Moves
<1>7. CASE call[a].pc = "register" /\ Step(a, "enter")
  <2>1. "enter" \in Pcs
    BY DEF Pcs
  <2>2. call[a].mode # "none"
    BY <1>1, <1>7 DEF CallOK
  <2> QED  BY <1>1, <1>3, <1>7, <2>1, <2>2, StepIs DEF Moves
<1> QED
  <2>1. Moves(a)
    BY <1>4, <1>5, <1>6, <1>7
       DEF Goes, CheckRepo, EnterRepo, CloneRepo, UpsertRepoRow, AddProject, DeleteProject,
           Unregister, RegisterCheck, RegisterEnter
  <2> QED  BY <1>3, <2>1
-----------------------------------------------------------------------------
(* What each step does to managers and rows                                *)

\* A manager registers an id, or forgets one.
LEMMA AddIs ==
  ASSUME RegistryTypeOK, KeyedOK, NEW a \in Call, call[a].user \in Admin, call[a].id \in Id,
         NEW mode \in {"rw", "ro"}, AddRepo(a, mode)
  PROVE  /\ table' \in [Admin -> [Id -> {"rw", "ro", "none"}]]
         /\ keys' \in [Admin -> [Id -> 0..MaxKeys]] /\ KeyedOK'
<1> DEFINE m == Mgr(call[a].user)
           i == call[a].id
<1>1. m \in Admin /\ i \in Id
  BY MgrOf
<1>2. /\ table \in [Admin -> [Id -> {"rw", "ro", "none"}]]
      /\ keys \in [Admin -> [Id -> 0..MaxKeys]] /\ MaxKeys \in Nat
  BY RegistryAssumption DEF RegistryTypeOK, RegistryAssumption
<1>3. /\ keys[m][i] < MaxKeys
      /\ table' = [table EXCEPT ![m][i] = mode]
      /\ keys' = [keys EXCEPT ![m][i] = keys[m][i] + 1]
  BY DEF AddRepo
<1> HIDE DEF m, i
<1>4. keys[m][i] \in 0..MaxKeys /\ keys[m][i] + 1 \in 0..MaxKeys /\ keys[m][i] + 1 > 0
  BY <1>1, <1>2, <1>3
<1>5. keys' \in [Admin -> [Id -> 0..MaxKeys]]
  BY <1>1, <1>2, <1>3, <1>4
<1>6. table' \in [Admin -> [Id -> {"rw", "ro", "none"}]]
  BY <1>1, <1>2, <1>3
<1>7. ASSUME NEW u \in Admin, NEW j \in Id, table'[u][j] # "none"
      PROVE  keys'[u][j] > 0
  <2>1. CASE u = m /\ j = i
    BY <1>1, <1>2, <1>3, <1>4, <2>1
  <2>2. CASE ~(u = m /\ j = i)
    <3>1. table'[u][j] = table[u][j] /\ keys'[u][j] = keys[u][j]
      BY <1>1, <1>2, <1>3, <2>2
    <3> QED  BY <1>7, <3>1 DEF KeyedOK
  <2> QED  BY <2>1, <2>2
<1> QED  BY <1>5, <1>6, <1>7 DEF KeyedOK

\* A manager that forgets an id had it in its order.
LEMMA RemoveIs ==
  ASSUME RegistryTypeOK, KeyedOK, NEW a \in Call, call[a].user \in Admin, call[a].id \in Id,
         RemoveRepo(a)
  PROVE  /\ table' \in [Admin -> [Id -> {"rw", "ro", "none"}]]
         /\ keys' \in [Admin -> [Id -> 0..MaxKeys]] /\ KeyedOK'
<1> DEFINE m == Mgr(call[a].user)
           i == call[a].id
<1>1. m \in Admin /\ i \in Id
  BY MgrOf
<1>2. /\ table \in [Admin -> [Id -> {"rw", "ro", "none"}]]
      /\ keys \in [Admin -> [Id -> 0..MaxKeys]] /\ MaxKeys \in Nat
  BY RegistryAssumption DEF RegistryTypeOK, RegistryAssumption
<1>3. CASE ~Known(a)
  BY <1>2, <1>3 DEF RemoveRepo, live, KeyedOK
<1>4. CASE Known(a)
  <2>1. /\ table[m][i] # "none"
        /\ table' = [table EXCEPT ![m][i] = "none"]
        /\ keys' = [keys EXCEPT ![m][i] = keys[m][i] - 1]
    BY <1>4 DEF RemoveRepo, RemoveKey, Known
  <2> HIDE DEF m, i
  <2>2. keys[m][i] > 0
    BY <1>1, <2>1 DEF KeyedOK
  <2>3. keys[m][i] \in 0..MaxKeys /\ keys[m][i] - 1 \in 0..MaxKeys
    BY <1>1, <1>2, <2>2
  <2>4. keys' \in [Admin -> [Id -> 0..MaxKeys]]
    BY <1>1, <1>2, <2>1, <2>3
  <2>5. table' \in [Admin -> [Id -> {"rw", "ro", "none"}]]
    BY <1>1, <1>2, <2>1
  <2>6. ASSUME NEW u \in Admin, NEW j \in Id, table'[u][j] # "none"
        PROVE  keys'[u][j] > 0
    <3>1. ~(u = m /\ j = i)
      BY <1>1, <1>2, <2>1, <2>6
    <3>2. table'[u][j] = table[u][j] /\ keys'[u][j] = keys[u][j]
      BY <1>1, <1>2, <2>1, <3>1
    <3> QED  BY <2>6, <3>2 DEF KeyedOK
  <2> QED  BY <2>4, <2>5, <2>6 DEF KeyedOK
<1> QED  BY <1>3, <1>4

\* Whatever a request does, managers keep what they registered in their order.
LEMMA GoesLive ==
  ASSUME RegistryTypeOK, CallsOK, KeyedOK, NEW a \in Call, Goes(a)
  PROVE  /\ table' \in [Admin -> [Id -> {"rw", "ro", "none"}]]
         /\ keys' \in [Admin -> [Id -> 0..MaxKeys]] /\ KeyedOK'
<1>1. call[a].user \in Admin /\ call[a].id \in Id
  BY GoesMoves DEF Between
<1>2. call[a] \in CallState /\ CallOK(call[a])
  BY DEF RegistryTypeOK, CallsOK
<1>3. CASE EnterRepo(a)
  BY <1>1, <1>3, AddIs DEF EnterRepo
<1>4. CASE RegisterEnter(a)
  <2>1. call[a].mode \in {"rw", "ro"}
    BY <1>2, <1>4 DEF RegisterEnter, CallOK, CallState
  <2> QED  BY <1>1, <1>4, <2>1, AddIs DEF RegisterEnter
<1>5. CASE Unregister(a) \/ RemoveRepo(a)
  BY <1>1, <1>5, RemoveIs DEF Unregister
<1>6. CASE UNCHANGED <<table, keys>>
  BY <1>6 DEF RegistryTypeOK, KeyedOK
<1>7. CASE CheckRepo(a) \/ UpsertRepoRow(a) \/ AddProject(a) \/ DeleteProject(a) \/ RegisterCheck(a)
  BY <1>6, <1>7 DEF CheckRepo, UpsertRepoRow, AddProject, DeleteProject, RegisterCheck, live
<1>8. CASE CloneRepo(a)
  BY <1>5, <1>6, <1>8 DEF CloneRepo, live
<1> QED  BY <1>3, <1>4, <1>5, <1>7, <1>8 DEF Goes

-----------------------------------------------------------------------------
(* A request takes a step                                                  *)

\* What is stored after a step of a request: rows are upserted, a project is
\* added or, if it is not the YAML's, deleted.
Stores(a) ==
    \/ UNCHANGED <<stored, added>>
    \/ call[a].pc = "row" /\ UpsertRepo(a) /\ UNCHANGED <<projects, added>>
    \/ call[a].pc = "project" /\ InsertProject(a) /\ UNCHANGED repos
    \/ /\ call[a].pc = "delete"
       /\ projects' = [projects EXCEPT ![call[a].id] = "none"]
       /\ added' = added \ {call[a].id}
       /\ UNCHANGED repos

\* A step of a request is one of these, and touches neither the YAML nor links.
LEMMA GoesStores ==
  ASSUME NEW a \in Call, Goes(a)
  PROVE  /\ Stores(a) /\ UNCHANGED <<auth, yaml, loaded, shares, sourced>>
         /\ call[a].pc = "row" => UpsertRepo(a)
  BY DEF Goes, Stores, CheckRepo, EnterRepo, CloneRepo, UpsertRepoRow, FirstRow, RepoFirst,
         AddProject, DeleteProject, Unregister, RegisterCheck, RegisterEnter, stored

\* An upserted row is there, keeps who manages it, and is the app's if new.
LEMMA UpsertIs ==
  ASSUME RegistryTypeOK, NEW a \in Call, call[a].id \in Id, UpsertRepo(a)
  PROVE  /\ repos' \in [Id -> RepoRow \cup {None}]
         /\ repos'[call[a].id] # None
         /\ \A i \in Id : repos[i] # None => repos'[i] # None
         /\ \A i \in Id : repos'[i] # None /\ repos'[i].by = "config" =>
                repos[i] # None /\ repos[i].by = "config"
<1> DEFINE i == call[a].id
           by == IF repos[i] = None THEN "api" ELSE repos[i].by
           new == [mode |-> "rw", by |-> by]
<1>1. repos \in [Id -> RepoRow \cup {None}] /\ i \in Id
  BY DEF RegistryTypeOK
<1>2. by \in {"config", "api"} /\ (by = "config" => repos[i] # None /\ repos[i].by = "config")
  <2>1. CASE repos[i] = None
    BY <2>1
  <2>2. CASE repos[i] # None
    BY <1>1, <2>2 DEF RepoRow
  <2> QED  BY <2>1, <2>2
<1>3. repos' = [repos EXCEPT ![i] = new]
  BY DEF UpsertRepo
<1> HIDE DEF by
<1>4. new \in RepoRow /\ new.by = by /\ new # None
  BY <1>2, ModeIs
<1> HIDE DEF i, new
<1> QED  BY <1>1, <1>2, <1>3, <1>4 DEF i

\* The calls of others know what they knew, whatever a request stores: rows of
\* repositories only go at a start, and none of the YAML's projects comes.
LEMMA StoresKeepCalls ==
  ASSUME RegistryTypeOK, CallsOK, NEW a \in Call, Goes(a)
  PROVE  CallsOK'
<1>1. /\ Moves(a) /\ call[a].user \in Admin /\ call[a].id \in Id /\ Stores(a)
      /\ call[a].pc = "row" => UpsertRepo(a)
  BY GoesMoves, GoesStores DEF Between
<1>2. /\ \A i \in Id : repos[i] # None => repos'[i] # None
      /\ call[a].pc = "row" => repos'[call[a].id] # None
  BY <1>1, UpsertIs DEF Stores, stored
<1>3. \A i \in Id : projects'[i] = "config" => projects[i] = "config"
  BY <1>1 DEF Stores, stored, InsertProject, RegistryTypeOK
<1>4. ASSUME NEW b \in Call
      PROVE  CallOK(call[b])'
  <2>1. CASE b = a
    BY <1>1, <1>2, <1>3, <2>1 DEF Moves, CallOK
  <2>2. CASE b # a
    <3>1. call'[b] = call[b] /\ CallOK(call[b])
      BY <1>1, <2>2 DEF Moves, OtherCalls, CallsOK
    <3>2. CASE call[b].pc = "idle"
      BY <3>1, <3>2 DEF CallOK
    <3>3. CASE call[b].pc # "idle"
      BY <1>2, <1>3, <3>1, <3>3 DEF CallOK
    <3> QED  BY <3>2, <3>3
  <2> QED  BY <2>1, <2>2
<1> QED  BY <1>4 DEF CallsOK

\* What a request stores is what its YAML and its administrators would have.
LEMMA StoresKeep ==
  ASSUME RegistryIInv, NEW a \in Call, Goes(a)
  PROVE  /\ projects' \in [Id -> {"config", "api", "none"}]
         /\ repos' \in [Id -> RepoRow \cup {None}] /\ added' \subseteq Id
         /\ ConfigFollowsYaml' /\ AddedStays' /\ RowsOK' /\ ProjectHasRepo'
<1>1. /\ call[a].id \in Id /\ Stores(a) /\ loaded' = loaded /\ sourced' = sourced
      /\ CallOK(call[a])
      /\ projects \in [Id -> {"config", "api", "none"}]
      /\ repos \in [Id -> RepoRow \cup {None}] /\ added \subseteq Id
  BY GoesMoves, GoesStores DEF Between, RegistryIInv, CallsOK, RegistryTypeOK
<1> USE DEF RegistryIInv
<1>2. CASE UNCHANGED <<stored, added>>
  BY <1>1, <1>2 DEF stored, ConfigFollowsYaml, AddedStays, RowsOK, ProjectHasRepo
<1>3. CASE UpsertRepo(a) /\ UNCHANGED <<projects, added>>
  <2>1. /\ repos' \in [Id -> RepoRow \cup {None}]
        /\ \A i \in Id : repos[i] # None => repos'[i] # None
        /\ \A i \in Id : repos'[i] # None /\ repos'[i].by = "config" =>
               repos[i] # None /\ repos[i].by = "config"
    BY <1>1, <1>3, UpsertIs
  <2> QED  BY <1>1, <1>3, <2>1 DEF ConfigFollowsYaml, AddedStays, RowsOK, ProjectHasRepo
<1>4. CASE call[a].pc = "project" /\ InsertProject(a) /\ UNCHANGED repos
  <2> DEFINE i == call[a].id
  <2>1. CASE projects[i] # "none"
    BY <1>1, <1>4, <2>1 DEF InsertProject, ConfigFollowsYaml, AddedStays, RowsOK, ProjectHasRepo
  <2>2. CASE projects[i] = "none"
    <3>1. /\ projects' = [projects EXCEPT ![i] = "api"] /\ added' = added \cup {i}
          /\ repos[i] # None /\ i \in Id
      BY <1>1, <1>4, <2>2 DEF InsertProject, CallOK
    <3> HIDE DEF i
    <3>2. projects'[i] = "api" /\ \A j \in Id : j # i => projects'[j] = projects[j]
      BY <1>1, <3>1
    <3>3. ConfigFollowsYaml' /\ AddedStays'
      BY <1>1, <2>2, <3>1, <3>2 DEF ConfigFollowsYaml, AddedStays
    <3>4. RowsOK' /\ ProjectHasRepo'
      BY <1>1, <1>4, <2>2, <3>1, <3>2 DEF RowsOK, ProjectHasRepo
    <3> QED  BY <1>1, <1>4, <3>1, <3>3, <3>4
  <2> QED  BY <2>1, <2>2
<1>5. CASE /\ call[a].pc = "delete"
           /\ projects' = [projects EXCEPT ![call[a].id] = "none"]
           /\ added' = added \ {call[a].id}
           /\ UNCHANGED repos
  <2> DEFINE i == call[a].id
  <2>1. projects[i] # "config" /\ i \in Id
    BY <1>1, <1>5 DEF CallOK
  <2>2. projects'[i] = "none" /\ \A j \in Id : j # i => projects'[j] = projects[j]
    BY <1>1, <1>5
  <2>3. ConfigFollowsYaml' /\ AddedStays'
    BY <1>1, <1>5, <2>1, <2>2 DEF ConfigFollowsYaml, AddedStays
  <2>4. RowsOK' /\ ProjectHasRepo'
    BY <1>1, <1>5, <2>1, <2>2 DEF RowsOK, ProjectHasRepo
  <2> QED  BY <1>1, <1>5, <2>3, <2>4
<1> QED  BY <1>1, <1>2, <1>3, <1>4, <1>5 DEF Stores

-----------------------------------------------------------------------------
(* A start                                                                 *)

\* What a start leaves in the store is what its YAML says, beside what was
\* added in the app; it leaves no request under way.
LEMMA BootKeeps ==
  ASSUME RegistryIInv, NEW c \in SUBSET Id, Boot(c)
  PROVE  RegistryIInv'
<1> USE DEF RegistryIInv
<1>1. /\ auth \in {"local", "forge"} /\ yaml \in Yaml
      /\ yaml \in [Id -> {"project", "source", "none"}]
      /\ projects \in [Id -> {"config", "api", "none"}]
      /\ repos \in [Id -> RepoRow \cup {None}]
      /\ shares \in [Id -> Admin \cup {None}]
      /\ added \subseteq Id /\ sourced \subseteq Id
  BY DEF RegistryTypeOK, Yaml
<1>2. /\ auth' = auth /\ yaml' = yaml /\ shares' = shares /\ loaded' = yaml
      /\ projects' = SyncProjects(yaml) /\ repos' = SyncRepos(yaml)
      /\ table' = [u \in Admin |-> Registered(yaml, repos', c)]
      /\ keys' = [u \in Admin |-> [i \in Id |-> IF table'[u][i] = "none" THEN 0 ELSE 1]]
      /\ call' = [a \in Call |-> NoCall]
      /\ added' = added \ {i \in Id : yaml[i] = "project"}
      /\ sourced' = sourced \cup {i \in Id : yaml[i] = "source"}
  BY DEF Boot, Start
<1>3. /\ projects' \in [Id -> {"config", "api", "none"}]
      /\ \A i \in Id : projects'[i] =
             IF yaml[i] = "project" THEN "config"
             ELSE IF projects[i] = "config" THEN "none" ELSE projects[i]
  BY <1>1, <1>2 DEF SyncProjects
<1>4. \A i \in Id : repos'[i] =
         IF yaml[i] # "none"
         THEN [mode |-> ModeOf(yaml[i]), by |-> IF repos[i] = None THEN "config" ELSE repos[i].by]
         ELSE IF repos[i] # None /\ repos[i].by = "config" THEN None ELSE repos[i]
  BY <1>2 DEF SyncRepos
<1>5. ASSUME NEW i \in Id
      PROVE  /\ repos'[i] \in RepoRow \cup {None}
             /\ yaml[i] # "none" => repos'[i] # None
             /\ yaml[i] = "none" /\ repos'[i] # None =>
                   repos'[i] = repos[i] /\ repos[i].by # "config"
             /\ repos[i] # None /\ repos[i].by # "config" => repos'[i] # None
  <2>1. repos[i] \in RepoRow \cup {None}
    BY <1>1
  <2>2. CASE yaml[i] # "none"
    <3> DEFINE by == IF repos[i] = None THEN "config" ELSE repos[i].by
    <3>1. by \in {"config", "api"}
      BY <2>1 DEF RepoRow
    <3>2. repos'[i] = [mode |-> ModeOf(yaml[i]), by |-> by]
      BY <1>4, <2>2
    <3> HIDE DEF by
    <3>3. ModeOf(yaml[i]) \in {"rw", "ro"}
      BY ModeIs
    <3>4. repos'[i] \in RepoRow /\ repos'[i] # None
      BY <3>1, <3>2, <3>3, ModeIs
    <3> QED  BY <2>2, <3>4
  <2>3. CASE yaml[i] = "none"
    BY <1>4, <2>1, <2>3
  <2> QED  BY <2>2, <2>3
<1>6. repos' \in [Id -> RepoRow \cup {None}]
  <2>1. repos' = [i \in Id |-> repos'[i]]
    BY <1>2 DEF SyncRepos
  <2> QED  BY <1>5, <2>1
<1>7. \A i \in Id : Registered(yaml, repos', c)[i] \in {"rw", "ro", "none"}
  BY <1>6, ModeIs DEF Registered, RepoRow
<1>8. table' \in [Admin -> [Id -> {"rw", "ro", "none"}]]
  <2>1. Registered(yaml, repos', c) \in [Id -> {"rw", "ro", "none"}]
    BY <1>7 DEF Registered
  <2> QED  BY <1>2, <2>1
<1>9. keys' \in [Admin -> [Id -> 0..MaxKeys]] /\ KeyedOK'
  <2>1. 0 \in 0..MaxKeys /\ 1 \in 0..MaxKeys
    BY RegistryAssumption DEF RegistryAssumption
  <2>2. \A u \in Admin, i \in Id : keys'[u][i] = IF table'[u][i] = "none" THEN 0 ELSE 1
    BY <1>2
  <2>3. keys' \in [Admin -> [Id -> 0..MaxKeys]]
    BY <1>2, <2>1
  <2> QED  BY <2>2, <2>3 DEF KeyedOK
<1>10. call' \in [Call -> CallState] /\ CallsOK'
  <2>1. \A a \in Call : call'[a] = NoCall
    BY <1>2
  <2>2. call' \in [Call -> CallState]
    BY <1>2, NoCallOK
  <2> QED  BY <2>1, <2>2, NoCallOK DEF CallsOK, CallOK
<1>11. RegistryTypeOK'
  <2>1. added' \subseteq Id /\ sourced' \subseteq Id
    BY <1>1, <1>2
  <2>2. auth' \in {"local", "forge"} /\ yaml' \in Yaml /\ loaded' \in Yaml
    BY <1>1, <1>2
  <2>3. shares' \in [Id -> Admin \cup {None}]
    BY <1>1, <1>2
  <2> QED  BY <1>2, <1>3, <1>6, <1>8, <1>9, <1>10, <2>1, <2>2, <2>3, YamlStays DEF RegistryTypeOK
<1>12. ConfigFollowsYaml' /\ AddedStays'
  BY <1>1, <1>2, <1>3 DEF ConfigFollowsYaml, AddedStays
<1>13. RowsOK'
  <2>1. ASSUME NEW i \in Id, i \notin sourced', repos'[i] # None, repos'[i].by = "config"
        PROVE  projects'[i] = "config"
    <3>1. yaml[i] # "source"
      BY <1>2, <2>1
    <3>2. yaml[i] = "project"
      BY <1>1, <1>5, <2>1, <3>1
    <3> QED  BY <1>3, <3>2
  <2> QED  BY <2>1 DEF RowsOK
<1>14. ProjectHasRepo'
  <2>1. ASSUME NEW i \in Id, i \notin sourced', projects'[i] # "none"
        PROVE  repos'[i] # None
    <3>1. CASE yaml[i] # "none"
      BY <1>5, <3>1
    <3>2. CASE yaml[i] = "none"
      <4>1. projects[i] # "none" /\ projects[i] # "config"
        BY <1>3, <2>1, <3>2
      <4>2. i \notin sourced
        BY <1>2, <2>1
      <4>3. repos[i] # None /\ repos[i].by # "config"
        BY <4>1, <4>2 DEF ProjectHasRepo, RowsOK
      <4> QED  BY <1>5, <4>3
    <3> QED  BY <3>1, <3>2
  <2> QED  BY <2>1 DEF ProjectHasRepo
<1> QED  BY <1>9, <1>10, <1>11, <1>12, <1>13, <1>14

-----------------------------------------------------------------------------
(* Theorems of the registry                                                *)

\* A start finds the invariant: every project and source has its row.
LEMMA InitRegistry == RegistryInit => RegistryIInv
<1> SUFFICES ASSUME RegistryInit PROVE RegistryIInv
  OBVIOUS
<1>1. /\ auth \in {"local", "forge"} /\ yaml \in Yaml /\ loaded = yaml
      /\ yaml \in [Id -> {"project", "source", "none"}]
      /\ projects = [i \in Id |-> IF yaml[i] = "project" THEN "config" ELSE "none"]
      /\ shares = [i \in Id |-> None] /\ added = {}
      /\ sourced = {i \in Id : yaml[i] = "source"}
  BY DEF RegistryInit, Yaml
<1>2. /\ repos \in [Id -> RepoRow \cup {None}]
      /\ \A i \in Id : yaml[i] # "none" => repos[i] # None
      /\ \A i \in Id : yaml[i] = "none" => repos[i] = None
  <2>1. \A i \in Id :
           [mode |-> ModeOf(yaml[i]), by |-> "config"] \in RepoRow
    BY ModeIs
  <2>2. repos = [i \in Id |-> IF yaml[i] = "none" THEN None
                             ELSE [mode |-> ModeOf(yaml[i]), by |-> "config"]]
    BY DEF RegistryInit
  <2>3. None \notin RepoRow
    BY ModeIs
  <2> QED  BY <2>1, <2>2, <2>3
<1>3. table \in [Admin -> [Id -> {"rw", "ro", "none"}]]
      /\ \A u \in Admin, i \in Id : table[u][i] # "none" => yaml[i] # "none"
  <2>1. table = [u \in Admin |-> Registered(yaml, repos, {})]
    BY DEF RegistryInit
  <2>2. /\ Registered(yaml, repos, {}) \in [Id -> {"rw", "ro", "none"}]
        /\ \A i \in Id : Registered(yaml, repos, {})[i] # "none" => yaml[i] # "none"
    BY <1>2, ModeIs DEF Registered
  <2> QED  BY <2>1, <2>2
<1>4. keys \in [Admin -> [Id -> 0..MaxKeys]] /\ KeyedOK
  <2>1. 0 \in 0..MaxKeys /\ 1 \in 0..MaxKeys
    BY RegistryAssumption DEF RegistryAssumption
  <2>2. keys = [u \in Admin |-> [i \in Id |-> IF yaml[i] = "none" THEN 0 ELSE 1]]
    BY DEF RegistryInit
  <2> QED  BY <1>3, <2>1, <2>2 DEF KeyedOK
<1>5. call \in [Call -> CallState] /\ CallsOK
  BY NoCallOK DEF RegistryInit, CallsOK, CallOK
<1>6. RegistryTypeOK
  BY <1>1, <1>2, <1>3, <1>4, <1>5 DEF RegistryTypeOK
<1>7. ConfigFollowsYaml /\ AddedStays
  BY <1>1 DEF ConfigFollowsYaml, AddedStays
<1>8. RowsOK /\ ProjectHasRepo
  BY <1>1, <1>2 DEF RowsOK, ProjectHasRepo
<1> QED  BY <1>4, <1>5, <1>6, <1>7, <1>8 DEF RegistryIInv

\* The file and the links may change, and no other part of the invariant then.
LEMMA EditKeepsRegistry ==
  ASSUME RegistryIInv, yaml' \in Yaml, shares' \in [Id -> Admin \cup {None}],
         UNCHANGED <<auth, loaded, projects, repos, table, keys, call, added, sourced>>
  PROVE  RegistryIInv'
<1> USE DEF RegistryIInv
<1>1. RegistryTypeOK'
  BY YamlStays DEF RegistryTypeOK
<1>2. CallsOK'
  BY DEF CallsOK, CallOK
<1>3. KeyedOK' /\ ConfigFollowsYaml' /\ AddedStays' /\ RowsOK' /\ ProjectHasRepo'
  BY DEF KeyedOK, ConfigFollowsYaml, AddedStays, RowsOK, ProjectHasRepo
<1> QED  BY <1>1, <1>2, <1>3

\* No step of a request, of an administrator or of the process disturbs it.
LEMMA StepRegistry == RegistryIInv /\ [RegistryNext]_registry => RegistryIInv'
<1> SUFFICES ASSUME RegistryIInv, [RegistryNext]_registry PROVE RegistryIInv'
  OBVIOUS
<1> USE DEF RegistryIInv
<1>1. CASE \E f \in Yaml : EditYaml(f)
  BY <1>1, EditKeepsRegistry DEF EditYaml, stored, live, RegistryTypeOK
<1>2. CASE \E c \in SUBSET Id : Boot(c)
  BY <1>2, BootKeeps
<1>3. CASE \E u \in Admin, i \in Id : CreateShare(u, i) \/ DeleteShare(u, i)
  <2>1. shares' \in [Id -> Admin \cup {None}]
    BY <1>3 DEF CreateShare, DeleteShare, RegistryTypeOK
  <2>2. UNCHANGED <<auth, yaml, loaded, projects, repos, table, keys, call, added, sourced>>
    BY <1>3 DEF CreateShare, DeleteShare, stored, live
  <2> QED  BY <2>1, <2>2, EditKeepsRegistry DEF RegistryTypeOK
<1>4. CASE \E a \in Call, u \in Admin, i \in Id :
        \/ StartProject(a, u, i) \/ StartDelete(a, u, i)
        \/ ResolveProject(a, u, i) \/ ResolveSource(a, u, i)
  <2>1. PICK a \in Call :
          /\ Moves(a) /\ call'[a].pc # "project"
          /\ UNCHANGED <<auth, yaml, loaded, stored, live, shares, added, sourced>>
    BY <1>4, StartMoves DEF Between
  <2>2. RegistryTypeOK'
    BY <2>1, YamlStays DEF RegistryTypeOK, Moves, stored, live
  <2>3. CallsOK'
    <3>1. ASSUME NEW b \in Call
          PROVE  CallOK(call[b])'
      <4>1. repos' = repos /\ projects' = projects
        BY <2>1 DEF stored
      <4>2. CASE b = a
        BY <2>1, <4>1, <4>2 DEF Moves, CallOK, CallsOK
      <4>3. CASE b # a
        BY <2>1, <4>1, <4>3 DEF Moves, OtherCalls, CallOK, CallsOK
      <4> QED  BY <4>2, <4>3
    <3> QED  BY <3>1 DEF CallsOK
  <2> QED  BY <2>1, <2>2, <2>3 DEF KeyedOK, stored, live,
              ConfigFollowsYaml, AddedStays, RowsOK, ProjectHasRepo
<1>5. CASE \E a \in Call : Goes(a)
  <2>1. PICK a \in Call : Goes(a)
    BY <1>5
  <2>2. Moves(a) /\ UNCHANGED <<auth, yaml, loaded, shares, sourced>>
    BY <2>1, GoesMoves, GoesStores DEF Between
  <2>3. /\ table' \in [Admin -> [Id -> {"rw", "ro", "none"}]]
        /\ keys' \in [Admin -> [Id -> 0..MaxKeys]] /\ KeyedOK'
    BY <2>1, GoesLive
  <2>4. /\ projects' \in [Id -> {"config", "api", "none"}]
        /\ repos' \in [Id -> RepoRow \cup {None}] /\ added' \subseteq Id
        /\ ConfigFollowsYaml' /\ AddedStays' /\ RowsOK' /\ ProjectHasRepo'
    BY <2>1, StoresKeep
  <2>5. CallsOK'
    BY <2>1, StoresKeepCalls
  <2>6. RegistryTypeOK'
    BY <2>2, <2>3, <2>4, YamlStays DEF RegistryTypeOK, Moves
  <2> QED  BY <2>3, <2>4, <2>5, <2>6
<1>6. CASE UNCHANGED registry
  BY <1>6, EditKeepsRegistry DEF registry, stored, live, RegistryTypeOK
<1> QED  BY <1>1, <1>2, <1>3, <1>4, <1>5, <1>6 DEF RegistryNext, Goes

\* The inductive invariant of the registry: types, what a request knows of the
\* id it is about, and whom each row of projects and repositories belongs to.
THEOREM RegistryInvariance == RegistrySpec => []RegistryIInv
  BY InitRegistry, StepRegistry, PTL DEF RegistrySpec

\* Every stored project has its repository's row, and one added in the app
\* stays until it is deleted in the app, whatever requests interleave, wherever
\* the process dies and whatever the YAML says next (SyncRepos, SyncProjects).
THEOREM RegistryKept == RegistrySpec => []RegistryInv
<1>1. RegistryIInv => RegistryInv
  BY DEF RegistryIInv, RegistryInv
<1> QED  BY <1>1, RegistryInvariance, PTL

\* The projects the YAML manages are those of the YAML the process started
\* with: nothing done in the app adds one or takes one away (SyncProjects).
THEOREM FollowsYaml == RegistrySpec => []ConfigFollowsYaml
<1>1. RegistryIInv => ConfigFollowsYaml
  BY DEF RegistryIInv
<1> QED  BY <1>1, RegistryInvariance, PTL

-----------------------------------------------------------------------------
(* The importer                                                            *)

\* The position of a page in the listing.
Before(p) == Cardinality({q \in Present : q < p})

File == Page \X (1..2) \X Nat

SyncState == [pc : {"idle", "read", "failed", "snapshot", "record"}, start : Nat,
              files : SUBSET File, there : SUBSET Page, shrunk : BOOLEAN]

Found(files, p) == \E f \in files : f[1] = p

\* An import has every page before the position it reads on from that was there
\* all the time, and all of those once it has read the last position: unless a
\* page went meanwhile, pages only move to later positions.
SyncOK(s) ==
    /\ IsFiniteSet(s.files)
    /\ s.pc = "read" => s.there \subseteq Present
    /\ s.pc = "read" /\ ~s.shrunk =>
          \A p \in s.there : Before(p) < s.start => Found(s.files, p)
    /\ s.pc = "snapshot" /\ ~s.shrunk => \A p \in s.there : Found(s.files, p)

ImporterIInv ==
    /\ ImporterTypeOK /\ sync \in [Syncer -> SyncState]
    /\ \A j \in Syncer : SyncOK(sync[j])
    /\ MirrorComplete

-----------------------------------------------------------------------------
(* Positions                                                               *)

\* A space lists finitely many pages, by number.
LEMMA Listing ==
  /\ IsFiniteSet(Present) /\ Present \subseteq Page /\ Present \subseteq Int
  /\ Limit \in Nat /\ Limit > 0
<1>1. Page \subseteq Nat /\ IsFiniteSet(Page) /\ Limit \in Nat \ {0}
  BY ImporterAssumption DEF ImporterAssumption
<1>2. Present \subseteq Page
  BY DEF Present
<1>3. IsFiniteSet(Present)
  BY <1>1, <1>2, FS_Subset
<1>4. Present \subseteq Int
  BY <1>1, <1>2
<1> QED  BY <1>1, <1>2, <1>3, <1>4

\* A page has a number of pages before it, and fewer than a later one.
LEMMA Positions ==
  /\ \A p \in Present : Before(p) \in Nat /\ Before(p) < Cardinality(Present)
  /\ \A p, q \in Present : p < q => Before(p) < Before(q)
  /\ \A p \in Int : Before(p) \in Nat
<1> DEFINE Smaller(p) == {q \in Present : q < p}
<1>1. \A p \in Int : /\ IsFiniteSet(Smaller(p)) /\ Cardinality(Smaller(p)) \in Nat
                      /\ Smaller(p) \subseteq Present
  BY Listing, FS_Subset, FS_CardinalityType
<1>2. ASSUME NEW p \in Present
      PROVE  Cardinality(Smaller(p)) < Cardinality(Present)
  <2>1. Smaller(p) # Present
    BY Listing
  <2> QED  BY <1>1, <2>1, Listing, FS_Subset, FS_CardinalityType
<1>3. ASSUME NEW p \in Present, NEW q \in Present, p < q
      PROVE  Cardinality(Smaller(p)) < Cardinality(Smaller(q))
  <2>1. p \in Int /\ q \in Int /\ Smaller(p) \subseteq Int
    BY Listing
  <2>2. Smaller(p) \subseteq Smaller(q)
    BY <1>3, <2>1
  <2>3. p \in Smaller(q) /\ p \notin Smaller(p)
    BY <1>3, <2>1
  <2> HIDE DEF Smaller
  <2>4. Smaller(p) \in SUBSET Smaller(q) /\ Smaller(p) # Smaller(q)
    BY <2>2, <2>3
  <2> QED  BY <1>1, <2>1, <2>4, FS_Subset
<1> QED  BY <1>1, <1>2, <1>3, Listing DEF Before

\* What is read is what is at the positions asked for.
LEMMA BatchIs ==
  \A n \in Nat : Batch(n) = {p \in Present : Before(p) >= n /\ Before(p) < n + Limit}
  BY DEF Batch, Before

\* A read that leaves a page at a later position is full.
LEMMA FullBatch ==
  ASSUME NEW n \in Nat, NEW p \in Present, Before(p) >= n + Limit
  PROVE  Cardinality(Batch(n)) >= Limit
<1> DEFINE m == Cardinality(Present)
           rank == [q \in Present |-> Before(q)]
           asked == n..(n + Limit - 1)
           pos == [q \in Batch(n) |-> Before(q)]
<1>1. m \in Nat /\ Limit \in Nat /\ Limit > 0
  BY Listing, FS_CardinalityType
<1>2. IsFiniteSet(0..(m - 1)) /\ Cardinality(0..(m - 1)) = m
  <2> HIDE DEF m
  <2>1. 0 \in Int /\ m - 1 \in Int
    BY <1>1
  <2>2. /\ IsFiniteSet(0..(m - 1))
        /\ Cardinality(0..(m - 1)) = IF 0 > m - 1 THEN 0 ELSE (m - 1) - 0 + 1
    BY <2>1, FS_Interval
  <2> QED  BY <1>1, <2>2
<1>3. rank \in [Present -> 0..(m - 1)]
  BY <1>1, Positions
<1>4. \A q, r \in Present : rank[q] = rank[r] => q = r
  <2> SUFFICES ASSUME NEW q \in Present, NEW r \in Present, q # r
               PROVE  rank[q] # rank[r]
    OBVIOUS
  <2>1. q < r \/ r < q
    BY Listing
  <2> QED  BY <2>1, Positions
<1>5. rank \in Injection(Present, 0..(m - 1))
  BY <1>3, <1>4 DEF Injection, IsInjective
<1>6. rank \in Surjection(Present, 0..(m - 1))
  BY <1>2, <1>5, FS_Injection
<1>7. ASSUME NEW k \in asked
      PROVE  \E q \in Batch(n) : pos[q] = k
  <2>1. k \in 0..(m - 1)
    BY <1>1, Positions
  <2>2. PICK q \in Present : rank[q] = k
    BY <1>6, <2>1 DEF Surjection
  <2>3. q \in Batch(n)
    BY <1>1, <2>2, BatchIs
  <2> QED  BY <2>2, <2>3
<1>8. pos \in [Batch(n) -> asked]
  BY <1>1, BatchIs, Positions
<1>9. pos \in Surjection(Batch(n), asked)
  BY <1>7, <1>8 DEF Surjection
<1>10. IsFiniteSet(Batch(n)) /\ Cardinality(Batch(n)) \in Nat
  BY Listing, BatchIs, FS_Subset, FS_CardinalityType
<1>11. Cardinality(asked) = Limit
  BY <1>1, FS_Interval
<1>12. Cardinality(asked) <= Cardinality(Batch(n))
  BY <1>9, <1>10, FS_Surjection
<1> QED  BY <1>1, <1>10, <1>11, <1>12

-----------------------------------------------------------------------------
(* What an import holds                                                    *)

\* An import that is not there holds nothing.
LEMMA NoSyncOK == NoSync \in SyncState /\ NoSync.pc = "idle" /\ SyncOK(NoSync)
<1>1. /\ NoSync \in SyncState /\ NoSync.pc = "idle" /\ NoSync.files = {}
  BY DEF NoSync, SyncState
<1> QED  BY <1>1, FS_EmptySet DEF SyncOK

\* Names of files count how often a page was read before.
LEMMA StoredIs ==
  ASSUME ImporterTypeOK, NEW files \in SUBSET File, IsFiniteSet(files), NEW p \in Present
  PROVE  Stored(files, p) \in File /\ Stored(files, p)[1] = p
<1>1. p \in Page /\ space[p] \in 1..2
  BY DEF Present, ImporterTypeOK
<1>2. Cardinality({f \in files : f[1] = p}) \in Nat
  BY FS_Subset, FS_CardinalityType
<1> QED  BY <1>1, <1>2 DEF Stored, File

\* A read adds a file for each page it found, and these are finitely many.
LEMMA ReadIs ==
  ASSUME ImporterTypeOK, NEW s \in SyncState, SyncOK(s),
         NEW files, files = s.files \cup {Stored(s.files, p) : p \in Batch(s.start)}
  PROVE  /\ files \in SUBSET File /\ IsFiniteSet(files)
         /\ \A p : Found(s.files, p) => Found(files, p)
         /\ \A p \in Batch(s.start) : Found(files, p)
<1>1. s.start \in Nat /\ s.files \in SUBSET File /\ IsFiniteSet(s.files)
  BY DEF SyncState, SyncOK
<1> DEFINE batch == Batch(s.start)
           new == {Stored(s.files, p) : p \in batch}
           as == [p \in batch |-> Stored(s.files, p)]
<1>2. batch \in SUBSET Present /\ IsFiniteSet(batch)
  BY <1>1, BatchIs, Listing, FS_Subset
<1>3. as \in Surjection(batch, new)
  BY DEF Surjection
<1>4. IsFiniteSet(new)
  BY <1>2, <1>3, FS_Surjection
<1>5. new \in SUBSET File
  BY <1>1, <1>2, StoredIs
<1>6. IsFiniteSet(files)
  BY <1>1, <1>4, FS_Union
<1>7. \A p \in batch : Found(files, p)
  BY <1>1, <1>2, StoredIs DEF Found
<1> QED  BY <1>1, <1>5, <1>6, <1>7 DEF Found

\* While no page goes, pages move to later positions only.
LEMMA LaterPositions ==
  ASSUME NEW p \in Int, Present \subseteq Present', IsFiniteSet(Present')
  PROVE  Before(p) <= Before(p)'
<1>1. {q \in Present : q < p} \subseteq {q \in Present' : q < p}
  OBVIOUS
<1>2. IsFiniteSet({q \in Present' : q < p})
  BY FS_Subset
<1> QED  BY <1>1, <1>2, FS_Subset DEF Before

-----------------------------------------------------------------------------
(* Steps of the importer                                                   *)

\* The other imports hold what they held.
OtherSyncs(j) == \A k \in Syncer : k # j => sync'[k] = sync[k]

\* A step of an import that leaves the space as it is.
LEMMA SyncKeeps ==
  ASSUME ImporterIInv, NEW j \in Syncer, UNCHANGED <<space, edits>>,
         sync' \in [Syncer -> SyncState], OtherSyncs(j), SyncOK(sync'[j]),
         mirror' \subseteq File, whole' \subseteq Page, MirrorComplete',
         status'.result \in {"never", "ok", "error"}
  PROVE  ImporterIInv'
<1>1. Present' = Present /\ \A p : Before(p)' = Before(p)
  BY DEF Present, Before
<1>2. ASSUME NEW k \in Syncer
      PROVE  SyncOK(sync[k])'
  <2>1. SyncOK(sync'[k])
    BY DEF OtherSyncs, ImporterIInv
  <2> QED  BY <1>1, <2>1 DEF SyncOK
<1>3. ImporterTypeOK'
  BY DEF ImporterIInv, ImporterTypeOK, SyncState, File
<1> QED  BY <1>2, <1>3 DEF ImporterIInv

\* An edit of the space keeps what imports hold: what it takes away they no
\* longer have to find.
LEMMA SpaceKeeps ==
  ASSUME ImporterIInv, NEW p \in Page, NEW v \in 0..2, Edit(p, v)
  PROVE  ImporterIInv'
<1>1. /\ space \in [Page -> 0..2] /\ space' = [space EXCEPT ![p] = v]
      /\ edits' \in 0..MaxEdits /\ sync \in [Syncer -> SyncState]
      /\ UNCHANGED <<mirror, status, whole>>
  <2>1. MaxEdits \in Nat /\ edits \in 0..MaxEdits /\ edits < MaxEdits /\ edits' = edits + 1
    BY ImporterAssumption DEF Edit, ImporterIInv, ImporterTypeOK, ImporterAssumption
  <2>2. edits' \in 0..MaxEdits
    BY <2>1
  <2> QED  BY <2>2 DEF Edit, ImporterIInv, ImporterTypeOK
<1>2. /\ \A q \in Page : q # p => (q \in Present' <=> q \in Present)
      /\ v # 0 => Present \subseteq Present'
  BY <1>1 DEF Present
<1>3. IsFiniteSet(Present')
  <2>1. Present' \in SUBSET Page
    BY DEF Present
  <2> QED  BY <2>1, ImporterAssumption, FS_Subset DEF ImporterAssumption
<1>4. ASSUME NEW j \in Syncer
      PROVE  sync'[j] \in SyncState /\ SyncOK(sync[j])'
  <2>1. sync[j] \in SyncState /\ SyncOK(sync[j])
    BY <1>1 DEF ImporterIInv
  <2>2. CASE sync[j].pc # "read"
    <3>1. sync'[j] = sync[j]
      BY <2>2 DEF Edit
    <3> QED  BY <2>1, <2>2, <3>1 DEF SyncOK
  <2>3. CASE sync[j].pc = "read" /\ v # 0
    <3>1. sync'[j] = sync[j]
      BY <2>3 DEF Edit
    <3>2. \A q \in Int : Before(q) <= Before(q)'
      BY <1>2, <1>3, <2>3, LaterPositions
    <3>3. \A q \in Int : Before(q) \in Nat /\ Before(q)' \in Nat
      BY <1>3, Positions, FS_Subset, FS_CardinalityType DEF Before
    <3>4. sync[j].there \subseteq Present /\ sync[j].start \in Nat
      BY <2>1, <2>3 DEF SyncOK, SyncState
    <3>5. ASSUME NEW q \in sync[j].there, Before(q)' < sync[j].start
          PROVE  Before(q) < sync[j].start
      <4>1. q \in Int
        BY <3>4, Listing
      <4>2. Before(q) <= Before(q)' /\ Before(q) \in Nat /\ Before(q)' \in Nat
        BY <3>2, <3>3, <4>1
      <4> QED  BY <3>4, <3>5, <4>2
    <3> QED  BY <1>2, <2>1, <2>3, <3>1, <3>4, <3>5 DEF SyncOK
  <2>4. CASE sync[j].pc = "read" /\ v = 0
    <3> DEFINE new == [sync[j] EXCEPT !.there = @ \ {p}, !.shrunk = TRUE]
    <3>1. sync'[j] = new
      BY <2>4 DEF Edit
    <3>2. /\ new \in SyncState /\ new.pc = "read" /\ new.files = sync[j].files
          /\ new.there = sync[j].there \ {p} /\ new.shrunk
      BY <2>1, <2>4 DEF SyncState
    <3> HIDE DEF new
    <3>3. new.there \subseteq Present'
      BY <1>2, <2>1, <2>4, <3>2 DEF SyncOK, SyncState
    <3> QED  BY <2>1, <3>1, <3>2, <3>3 DEF SyncOK
  <2> QED  BY <2>2, <2>3, <2>4
<1>5. sync' \in [Syncer -> SyncState]
  <2>1. sync' = [j \in Syncer |-> sync'[j]]
    BY DEF Edit
  <2> QED  BY <1>4, <2>1
<1>6. space' \in [Page -> 0..2]
  BY <1>1
<1>7. ImporterTypeOK' /\ MirrorComplete'
  BY <1>1, <1>5, <1>6 DEF ImporterIInv, ImporterTypeOK, SyncState, MirrorComplete
<1> QED  BY <1>4, <1>5, <1>7 DEF ImporterIInv

\* A step of an import, or its end, leaves an import that holds what it should
\* and a mirror that misses nothing (ReadPages, SnapshotMirror).
LEMMA ImportKeeps ==
  ASSUME ImporterIInv, NEW j \in Syncer,
         StartSync(j) \/ SyncStep(j) \/ ReadFails(j)
  PROVE  ImporterIInv'
<1>1. /\ sync \in [Syncer -> SyncState] /\ sync[j] \in SyncState /\ SyncOK(sync[j])
      /\ mirror \subseteq File /\ whole \subseteq Page /\ MirrorComplete
      /\ status.result \in {"never", "ok", "error"} /\ ImporterTypeOK
  BY DEF ImporterIInv, ImporterTypeOK, File
<1>2. CASE StartSync(j)
  <2> DEFINE new == [NoSync EXCEPT !.pc = "read", !.there = Present]
  <2>1. /\ sync' = [sync EXCEPT ![j] = new]
        /\ UNCHANGED <<space, edits, mirror, status, whole>>
    BY <1>2 DEF StartSync
  <2>2. /\ new \in SyncState /\ new.pc = "read" /\ new.there = Present
        /\ new.start = 0 /\ new.files = {}
    BY Listing DEF NoSync, SyncState
  <2> HIDE DEF new
  <2>3. SyncOK(new)
    <3>1. \A p \in Present : ~(Before(p) < 0)
      BY Positions
    <3> QED  BY <2>2, <3>1, FS_EmptySet DEF SyncOK
  <2>4. sync' \in [Syncer -> SyncState] /\ OtherSyncs(j) /\ sync'[j] = new
    BY <1>1, <2>1, <2>2 DEF OtherSyncs
  <2>5. MirrorComplete'
    BY <1>1, <2>1 DEF MirrorComplete
  <2> QED  BY <1>1, <2>1, <2>3, <2>4, <2>5, SyncKeeps
<1>3. CASE ReadPages(j)
  <2> DEFINE s == sync[j]
             batch == Batch(s.start)
             files == s.files \cup {Stored(s.files, p) : p \in batch}
             pc == IF ~LastPage(Cardinality(batch)) THEN "read"
                   ELSE IF files = {} THEN "failed" ELSE "snapshot"
             new == [s EXCEPT !.files = files, !.start = @ + Limit, !.pc = pc]
  <2>1. /\ s.pc = "read" /\ sync' = [sync EXCEPT ![j] = new]
        /\ UNCHANGED <<space, edits, mirror, status, whole>>
    BY <1>3 DEF ReadPages
  <2>2. /\ files \in SUBSET File /\ IsFiniteSet(files)
        /\ \A p : Found(s.files, p) => Found(files, p)
        /\ \A p \in batch : Found(files, p)
    BY <1>1, ReadIs
  <2>3. /\ pc \in {"read", "failed", "snapshot"}
        /\ pc = "snapshot" => Cardinality(batch) < Limit
    BY DEF LastPage
  <2>4. s.start \in Nat /\ s.start + Limit \in Nat /\ Limit \in Nat
    BY <1>1, Listing DEF SyncState
  <2> HIDE DEF batch, files, pc
  <2>5. /\ new \in SyncState /\ new.pc = pc /\ new.files = files /\ new.start = s.start + Limit
        /\ new.there = s.there /\ new.shrunk = s.shrunk
    BY <1>1, <2>2, <2>3, <2>4 DEF SyncState
  <2> HIDE DEF new
  <2>6. s.there \subseteq Present
    BY <1>1, <2>1 DEF SyncOK
  <2>7. ASSUME ~s.shrunk, NEW p \in s.there, Before(p) < s.start + Limit
        PROVE  Found(files, p)
    <3>1. CASE Before(p) < s.start
      BY <1>1, <2>1, <2>2, <2>7, <3>1 DEF SyncOK
    <3>2. CASE ~(Before(p) < s.start)
      <4>1. p \in Present /\ Before(p) \in Nat
        BY <2>6, Positions
      <4>2. p \in batch
        BY <2>4, <2>7, <3>2, <4>1, BatchIs DEF batch
      <4> QED  BY <2>2, <4>2
    <3> QED  BY <3>1, <3>2
  <2>8. ASSUME pc = "snapshot", NEW p \in s.there
        PROVE  Before(p) < s.start + Limit
    <3>1. p \in Present /\ Before(p) \in Nat
      BY <2>6, Positions
    <3>2. IsFiniteSet(batch) /\ Cardinality(batch) \in Nat
      BY <2>4, Listing, BatchIs, FS_Subset, FS_CardinalityType DEF batch
    <3>3. ~(Before(p) >= s.start + Limit)
      BY <2>3, <2>4, <2>8, <3>1, <3>2, FullBatch DEF batch
    <3> QED  BY <2>4, <3>1, <3>3
  <2>9. SyncOK(new)
    BY <2>2, <2>5, <2>6, <2>7, <2>8 DEF SyncOK
  <2>10. sync' \in [Syncer -> SyncState] /\ OtherSyncs(j) /\ sync'[j] = new
    BY <1>1, <2>1, <2>5 DEF OtherSyncs
  <2>11. MirrorComplete'
    BY <1>1, <2>1 DEF MirrorComplete
  <2> QED  BY <1>1, <2>1, <2>9, <2>10, <2>11, SyncKeeps
<1>4. CASE ReadFails(j)
  <2> DEFINE new == [NoSync EXCEPT !.pc = "failed"]
  <2>1. /\ sync' = [sync EXCEPT ![j] = new]
        /\ UNCHANGED <<space, edits, mirror, status, whole>>
    BY <1>4 DEF ReadFails
  <2>2. new \in SyncState /\ new.pc = "failed" /\ new.files = {}
    BY DEF NoSync, SyncState
  <2> HIDE DEF new
  <2>3. SyncOK(new)
    BY <2>2, FS_EmptySet DEF SyncOK
  <2>4. sync' \in [Syncer -> SyncState] /\ OtherSyncs(j) /\ sync'[j] = new
    BY <1>1, <2>1, <2>2 DEF OtherSyncs
  <2>5. MirrorComplete'
    BY <1>1, <2>1 DEF MirrorComplete
  <2> QED  BY <1>1, <2>1, <2>3, <2>4, <2>5, SyncKeeps
<1>5. CASE RecordFailure(j) \/ RecordSourceSync(j)
  <2>1. /\ sync' = [sync EXCEPT ![j] = NoSync] /\ status'.result \in {"never", "ok", "error"}
        /\ UNCHANGED <<space, edits, mirror, whole>>
    BY <1>5 DEF RecordFailure, RecordSourceSync
  <2>2. sync' \in [Syncer -> SyncState] /\ OtherSyncs(j) /\ sync'[j] = NoSync
    BY <1>1, <2>1, NoSyncOK DEF OtherSyncs
  <2>3. MirrorComplete'
    BY <1>1, <2>1 DEF MirrorComplete
  <2> QED  BY <1>1, <2>1, <2>2, <2>3, NoSyncOK, SyncKeeps
<1>6. CASE SnapshotMirror(j)
  <2> DEFINE new == [sync[j] EXCEPT !.pc = "record"]
  <2>1. /\ sync[j].pc = "snapshot" /\ sync' = [sync EXCEPT ![j] = new]
        /\ UNCHANGED <<space, edits, status>>
    BY <1>6 DEF SnapshotMirror
  <2>2. new \in SyncState /\ new.pc = "record" /\ new.files = sync[j].files
    BY <1>1 DEF SyncState
  <2> HIDE DEF new
  <2>3. SyncOK(new)
    BY <1>1, <2>2 DEF SyncOK
  <2>4. sync' \in [Syncer -> SyncState] /\ OtherSyncs(j) /\ sync'[j] = new
    BY <1>1, <2>1, <2>2 DEF OtherSyncs
  <2>5. mirror' \subseteq File /\ whole' \subseteq Page /\ MirrorComplete'
    <3>1. CASE SameTree(sync[j].files)
      BY <1>1, <1>6, <3>1 DEF SnapshotMirror, MirrorComplete
    <3>2. CASE ~SameTree(sync[j].files)
      <4>1. /\ mirror' = sync[j].files
            /\ whole' = IF sync[j].shrunk THEN {} ELSE sync[j].there
        BY <1>6, <3>2 DEF SnapshotMirror
      <4>2. sync[j].files \subseteq File /\ sync[j].there \subseteq Page
        BY <1>1 DEF SyncState
      <4>3. ~sync[j].shrunk => \A p \in sync[j].there : Found(sync[j].files, p)
        BY <1>1, <2>1 DEF SyncOK
      <4> QED  BY <4>1, <4>2, <4>3 DEF MirrorComplete, Found
    <3> QED  BY <3>1, <3>2
  <2> QED  BY <1>1, <2>1, <2>3, <2>4, <2>5, SyncKeeps
<1> QED  BY <1>2, <1>3, <1>4, <1>5, <1>6 DEF SyncStep

-----------------------------------------------------------------------------
(* Theorems of the importer                                                *)

\* The inductive invariant of imports and their mirror: what an import that
\* lost no page has found, by the position it reads on from.
THEOREM ImporterInvariance == ImporterSpec => []ImporterIInv
<1>1. ImporterInit => ImporterIInv
  <2> SUFFICES ASSUME ImporterInit PROVE ImporterIInv
    OBVIOUS
  <2>1. sync \in [Syncer -> SyncState] /\ \A j \in Syncer : SyncOK(sync[j])
    BY NoSyncOK DEF ImporterInit
  <2>2. /\ space \in [Page -> 0..2] /\ edits \in 0..MaxEdits /\ mirror = {} /\ whole = {}
        /\ status.result \in {"never", "ok", "error"}
    BY ImporterAssumption DEF ImporterInit, ImporterAssumption
  <2> QED  BY <2>1, <2>2 DEF ImporterIInv, ImporterTypeOK, SyncState, MirrorComplete
<1>2. ImporterIInv /\ [ImporterNext]_importer => ImporterIInv'
  <2> SUFFICES ASSUME ImporterIInv, [ImporterNext]_importer PROVE ImporterIInv'
    OBVIOUS
  <2>1. CASE \E p \in Page, v \in 0..2 : Edit(p, v)
    BY <2>1, SpaceKeeps
  <2>2. CASE \E j \in Syncer : StartSync(j) \/ SyncStep(j) \/ ReadFails(j)
    BY <2>2, ImportKeeps
  <2>3. CASE StopServer \/ UNCHANGED importer
    <3>1. UNCHANGED <<space, edits, mirror, status, whole>>
      BY <2>3 DEF StopServer, importer
    <3>2. sync' \in [Syncer -> SyncState] /\ \A j \in Syncer : sync'[j] \in {NoSync, sync[j]}
      BY <2>3, NoSyncOK DEF StopServer, importer, ImporterIInv
    <3>3. Present' = Present /\ \A p : Before(p)' = Before(p)
      BY <3>1 DEF Present, Before
    <3>4. \A j \in Syncer : SyncOK(sync'[j])
      BY <3>2, NoSyncOK DEF ImporterIInv
    <3>5. \A j \in Syncer : SyncOK(sync[j])'
      BY <3>3, <3>4 DEF SyncOK
    <3>6. ImporterTypeOK' /\ MirrorComplete'
      BY <3>1, <3>2 DEF ImporterIInv, ImporterTypeOK, SyncState, MirrorComplete
    <3> QED  BY <3>2, <3>5, <3>6 DEF ImporterIInv
  <2> QED  BY <2>1, <2>2, <2>3 DEF ImporterNext
<1> QED  BY <1>1, <1>2, PTL DEF ImporterSpec

\* The mirror misses no page that was there for the whole of its import, for
\* any page size and any edits between its reads, unless a page was deleted
\* meanwhile (importConfluence).
THEOREM ImporterKept == ImporterSpec => []ImporterInv
<1>1. ImporterIInv => ImporterInv
  BY DEF ImporterIInv, ImporterInv
<1> QED  BY <1>1, ImporterInvariance, PTL
=============================================================================
