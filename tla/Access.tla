------------------------------- MODULE Access -------------------------------
(***************************************************************************)
(* Who may do what: accounts and their deployment role, the grants and     *)
(* invites of a repository, the effective role a request is served with,   *)
(* and the workspace branch each user claims                               *)
(* (server/internal/api/auth.go, access.go, roles.go, grants.go,           *)
(* workspace.go; authz/role.go; store/store.go, grants.go, repos.go,       *)
(* workspace.go).                                                          *)
(*                                                                         *)
(* Granularity: one statement of the store per step, except that the       *)
(* transaction of ClaimGrantInvites is one step.  Sessions and tokens are  *)
(* SignIn; here a request is one that was authenticated.                   *)
(***************************************************************************)
EXTENDS Integers, FiniteSets

CONSTANTS
    User,      \* accounts, numbered in the order of their ids
    Email,     \* [User -> address]
    Slug,      \* [User -> workspaceSlug]
    Suffixed,  \* [User -> the slug with the account's id appended]
    Repo,
    Admins,    \* auth.admin_emails
    Default,   \* auth.default_role on the ladder: 0 for none, 3 maintainer
    ForgeRole, \* roles the forge may report for a token
    Granted,   \* roles an admin grants
    Slot,      \* requests in flight
    Nobody     \* no account, no branch

ASSUME AccessAssumption ==
    /\ User \subseteq Nat
    /\ Default \in 0..4 /\ ForgeRole \subseteq 1..4 /\ Granted \subseteq 1..3
    /\ Nobody \notin User

VARIABLES
    roles,    \* users: [User -> deployment role, or Nobody for no account]
    grants,   \* repo_grants: [Repo, User -> role, 0 for none]
    invites,  \* repo_grant_invites: [Repo, address -> role, 0 for none]
    claims,   \* workspace_branches: [Repo, User -> branch or Nobody]
    op,       \* [Slot -> where the request is, and its locals]
    asked,    \* [Repo, address -> roles admins gave and did not take back]
    pending,  \* invites written since their address last signed in
    revoked,  \* grants an admin revoked while no invite was pending
    answered  \* branches workspace requests answered with

rights == <<grants, invites, asked, pending, revoked>>
access == <<roles, rights, claims, op, answered>>

Address == {Email[u] : u \in User}
Branch == {Slug[u] : u \in User} \cup {Suffixed[u] : u \in User}

\* deploy: the caller's deployment role.  role: what the request is about to
\* write, or the effective role it is served with.
NoOp == [pc |-> "idle", user |-> Nobody, repo |-> Nobody, email |-> Nobody,
         deploy |-> 0, role |-> 0]
Op == [pc : {"idle", "upsert", "role", "claim", "enroll", "effective", "serve",
             "lookup", "grant", "invite", "insert", "suffix"},
       user : User \cup {Nobody}, repo : Repo \cup {Nobody},
       email : Address \cup {Nobody}, deploy : 0..4, role : 0..4]

AccessInit ==
    /\ roles = [u \in User |-> Nobody]
    /\ grants = [k \in Repo \X User |-> 0]
    /\ invites = [k \in Repo \X Address |-> 0]
    /\ claims = [k \in Repo \X User |-> Nobody]
    /\ op = [a \in Slot |-> NoOp]
    /\ asked = [k \in Repo \X Address |-> {}]
    /\ pending = {} /\ revoked = {} /\ answered = {}

Begin(a, rec) ==
    /\ op[a].pc = "idle"
    /\ op' = [op EXCEPT ![a] = rec]
Enter(a, pc) == op' = [op EXCEPT ![a].pc = pc]
Leave(a) == op' = [op EXCEPT ![a] = NoOp]

-----------------------------------------------------------------------------
(* Sign-in                                                                 *)

\* authPatLogin: the forge accepted the token and named a role for its owner.
StartPatLogin(a, u, f) ==
    /\ Begin(a, [NoOp EXCEPT !.pc = "upsert", !.user = u, !.role = f])
    /\ UNCHANGED <<roles, rights, claims, answered>>

UpsertUser(a) ==
    /\ op[a].pc = "upsert"
    /\ roles' = [roles EXCEPT ![op[a].user] = IF @ = Nobody THEN 0 ELSE @]
    /\ Enter(a, "role")
    /\ UNCHANGED <<rights, claims, answered>>

\* The forge is the source of truth: its role replaces the stored one.
SetUserRole(a) ==
    /\ op[a].pc = "role"
    /\ roles' = [roles EXCEPT ![op[a].user] = op[a].role]
    /\ Enter(a, "claim")
    /\ UNCHANGED <<rights, claims, answered>>

\* specquill user add, and the password login of such an account.
AddLocalUser(u) ==
    /\ roles[u] = Nobody
    /\ roles' = [roles EXCEPT ![u] = 0]
    /\ UNCHANGED <<rights, claims, op, answered>>

StartLocalLogin(a, u) ==
    /\ roles[u] # Nobody
    /\ Begin(a, [NoOp EXCEPT !.pc = "claim", !.user = u])
    /\ UNCHANGED <<roles, rights, claims, answered>>

Mine(u) == {k \in DOMAIN invites : k[2] = Email[u] /\ invites[k] # 0}
NoneOf(u) == {}
OfItsRepos(u) == {k \in DOMAIN invites : \E m \in Mine(u) : k[1] = m[1]}

\* The invites a sign-in deletes once it has turned them into grants.
Claimed(u) == Mine(u)

\* ClaimGrantInvites: a grant the user already has is kept as it is.
ClaimGrantInvites(a) ==
    LET u == op[a].user IN
    /\ op[a].pc = "claim"
    /\ grants' = [k \in DOMAIN grants |->
           IF k[2] = u /\ grants[k] = 0 /\ <<k[1], Email[u]>> \in Mine(u)
           THEN invites[<<k[1], Email[u]>>] ELSE grants[k]]
    /\ invites' = [k \in DOMAIN invites |->
           IF k \in Claimed(u) THEN 0 ELSE invites[k]]
    /\ pending' = {k \in pending : k[2] # Email[u]}
    /\ Leave(a)
    /\ UNCHANGED <<roles, claims, asked, revoked, answered>>

\* claimInvites is best effort: its failure is logged and the login goes on.
ClaimFails(a) ==
    /\ op[a].pc = "claim"
    /\ Leave(a)
    /\ UNCHANGED <<roles, rights, claims, answered>>

-----------------------------------------------------------------------------
(* Requests on a repository                                                *)

\* requireAuth reads the account with its role as it is now.
StartRepoRequest(a, u, r) ==
    /\ roles[u] # Nobody
    /\ Begin(a, [NoOp EXCEPT !.pc = "enroll", !.user = u, !.repo = r,
                             !.deploy = roles[u]])
    /\ UNCHANGED <<roles, rights, claims, answered>>

\* deployRole: only an empty role enrols, and EnsureUserRole leaves a role
\* that was set since it was read.
Enroll(a) ==
    LET u == op[a].user
        admin == Email[u] \in Admins
        role == IF admin THEN 4 ELSE IF op[a].deploy # 0 THEN op[a].deploy ELSE Default
    IN
    /\ op[a].pc = "enroll"
    /\ op' = [op EXCEPT ![a].pc = "effective", ![a].deploy = role]
    /\ roles' = [roles EXCEPT ![u] =
           IF admin /\ op[a].deploy # 4 THEN 4 ELSE IF @ = 0 THEN role ELSE @]
    /\ UNCHANGED <<rights, claims, answered>>

\* The higher rung of the ladder.
Higher(x, y) == IF x > y THEN x ELSE y

RepoGrantRole(r, u) == grants[<<r, u>>]

\* effectiveRepoRole: admins need no grant, others have the better of both.
Effective(a) ==
    /\ op[a].pc = "effective"
    /\ op' = [op EXCEPT ![a].pc = "serve",
           ![a].role = IF op[a].deploy = 4 THEN 4
                       ELSE Higher(op[a].deploy, RepoGrantRole(op[a].repo, op[a].user))]
    /\ UNCHANGED <<roles, rights, claims, answered>>

\* repoH needs a viewer.  Every handler but one is elsewhere (Gitx, Finding).
Refuse(a) ==
    /\ op[a].pc = "serve" /\ op[a].role < 1
    /\ Leave(a)
    /\ UNCHANGED <<roles, rights, claims, answered>>

\* postWorkspace, which writableH admits editors to: the branch claimed before,
\* or else the first step of a claim.
Workspace(a) ==
    LET k == <<op[a].repo, op[a].user>> IN
    /\ op[a].pc = "serve" /\ op[a].role >= 2
    /\ IF claims[k] # Nobody
       THEN Leave(a) /\ answered' = answered \cup {<<k[1], k[2], claims[k]>>}
       ELSE Enter(a, "insert") /\ UNCHANGED answered
    /\ UNCHANGED <<roles, rights, claims>>

Read(a) ==
    /\ op[a].pc = "serve" /\ op[a].role \in 1..4
    /\ Leave(a)
    /\ UNCHANGED <<roles, rights, claims, answered>>

\* The key and the uniqueness of workspace_branches.
OnePerUser(k, b) == claims[k] = Nobody
Free(k, b) ==
    /\ claims[k] = Nobody
    /\ \A u \in User : claims[<<k[1], u>>] # b

Claim(a, b, otherwise) ==
    LET k == <<op[a].repo, op[a].user>> IN
    IF Free(k, b)
    THEN /\ claims' = [claims EXCEPT ![k] = b]
         /\ answered' = answered \cup {<<k[1], k[2], b>>}
         /\ Leave(a)
    ELSE otherwise /\ UNCHANGED <<claims, answered>>

InsertClaim(a) ==
    /\ op[a].pc = "insert"
    /\ Claim(a, Slug[op[a].user], Enter(a, "suffix"))
    /\ UNCHANGED <<roles, rights>>

\* Any failure of the first name is taken for a name somebody else has.
InsertSuffixed(a) ==
    /\ op[a].pc = "suffix"
    /\ Claim(a, Suffixed[op[a].user], Leave(a))
    /\ UNCHANGED <<roles, rights>>

-----------------------------------------------------------------------------
(* Grants, by an admin                                                     *)

StartGrant(a, r, e, ro) ==
    /\ Begin(a, [NoOp EXCEPT !.pc = "lookup", !.repo = r, !.email = e, !.role = ro])
    /\ UNCHANGED <<roles, rights, claims, answered>>

Accounts(e) == {u \in User : Email[u] = e /\ roles[u] # Nobody}
Oldest(S) == {u \in S : \A v \in S : u <= v}

\* createGrant looks the address up, then writes a grant or an invite.
Lookup(a) ==
    LET found == Accounts(op[a].email) IN
    /\ op[a].pc = "lookup"
    /\ \E u \in IF found = {} THEN {Nobody} ELSE Oldest(found) :
           op' = [op EXCEPT ![a].pc = IF found = {} THEN "invite" ELSE "grant",
                            ![a].user = u]
    /\ UNCHANGED <<roles, rights, claims, answered>>

Give(a) ==
    LET k == <<op[a].repo, op[a].email>> IN
    /\ asked' = [asked EXCEPT ![k] = @ \cup {op[a].role}]
    /\ revoked' = {x \in revoked : <<x[1], Email[x[2]]>> # k}
    /\ Leave(a)

UpsertRepoGrant(a) ==
    /\ op[a].pc = "grant"
    /\ grants' = [grants EXCEPT ![<<op[a].repo, op[a].user>>] = op[a].role]
    /\ Give(a)
    /\ UNCHANGED <<roles, invites, claims, pending, answered>>

AddGrantInvite(a) ==
    /\ op[a].pc = "invite"
    /\ invites' = [invites EXCEPT ![<<op[a].repo, op[a].email>>] = op[a].role]
    /\ Give(a)
    /\ pending' = pending \cup {<<op[a].repo, op[a].email>>}
    /\ UNCHANGED <<roles, grants, claims, answered>>

\* The roles an address has on a repository, by grant and by invite.
Held(g, i, r, e) ==
    ({i[<<r, e>>]} \cup {g[<<r, u>>] : u \in {v \in User : Email[v] = e}}) \ {0}

WithoutGrant(r, u)  == [grants EXCEPT ![<<r, u>>] = 0]
WithoutInvite(r, e) == [invites EXCEPT ![<<r, e>>] = 0]

DeleteRepoGrant(r, u) ==
    LET e == Email[u] IN
    /\ grants[<<r, u>>] # 0
    /\ grants' = WithoutGrant(r, u)
    /\ asked' = [asked EXCEPT ![<<r, e>>] = Held(grants', invites, r, e)]
    /\ revoked' = IF <<r, e>> \in pending THEN revoked ELSE revoked \cup {<<r, u>>}
    /\ UNCHANGED <<roles, invites, claims, op, pending, answered>>

DeleteGrantInvite(r, e) ==
    /\ invites[<<r, e>>] # 0
    /\ invites' = WithoutInvite(r, e)
    /\ asked' = [asked EXCEPT ![<<r, e>>] = Held(grants, invites', r, e)]
    /\ pending' = pending \ {<<r, e>>}
    /\ UNCHANGED <<roles, grants, claims, op, revoked, answered>>

\* The process dies; every table survives.
AccessRestart ==
    /\ op' = [a \in Slot |-> NoOp]
    /\ UNCHANGED <<roles, rights, claims, answered>>

AccessNext ==
    \/ \E a \in Slot, u \in User :
        \/ \E f \in ForgeRole : StartPatLogin(a, u, f)
        \/ StartLocalLogin(a, u)
        \/ \E r \in Repo : StartRepoRequest(a, u, r)
    \/ \E a \in Slot, r \in Repo, e \in Address, ro \in Granted : StartGrant(a, r, e, ro)
    \/ \E a \in Slot :
        \/ UpsertUser(a) \/ SetUserRole(a) \/ ClaimGrantInvites(a) \/ ClaimFails(a)
        \/ Enroll(a) \/ Effective(a) \/ Refuse(a) \/ Read(a)
        \/ Workspace(a) \/ InsertClaim(a) \/ InsertSuffixed(a)
        \/ Lookup(a) \/ UpsertRepoGrant(a) \/ AddGrantInvite(a)
    \/ \E u \in User : AddLocalUser(u)
    \/ \E r \in Repo, u \in User : DeleteRepoGrant(r, u)
    \/ \E r \in Repo, e \in Address : DeleteGrantInvite(r, e)
    \/ AccessRestart

AccessSpec == AccessInit /\ [][AccessNext]_access

-----------------------------------------------------------------------------
(* Properties                                                              *)

\* Every variable has its type.
AccessTypeOK ==
    /\ roles \in [User -> 0..4 \cup {Nobody}]
    /\ grants \in [Repo \X User -> 0..3]
    /\ invites \in [Repo \X Address -> 0..3]
    /\ claims \in [Repo \X User -> Branch \cup {Nobody}]
    /\ op \in [Slot -> Op]
    /\ asked \in [Repo \X Address -> SUBSET (1..3)]
    /\ pending \subseteq Repo \X Address /\ revoked \subseteq Repo \X User
    /\ answered \subseteq Repo \X User \X Branch

\* What an admin was told is granted or invited is there, as a grant or as an
\* invite and with a role an admin gave, until an admin takes it back: no
\* sign-in between the lookup of the address and the write loses it.
AccessGiven ==
    \A r \in Repo, e \in Address :
        asked[<<r, e>>] # {} => Held(grants, invites, r, e) \cap asked[<<r, e>>] # {}

\* Types, and no access lost between the lookup of an address and a sign-in.
AccessInv == AccessTypeOK /\ AccessGiven

\* Once a grant is revoked, and no invite of its address is still waiting for
\* a sign-in, no sign-in brings it back: the account keeps its deployment role
\* alone until an admin gives the address access again.
RevokedStaysOut == \A x \in revoked : grants[x] = 0

\* A user is always answered with the same workspace branch, and no two users
\* with the same one, however their first requests interleave and whatever
\* their names have in common: two people never edit one worktree.
OneWorkspaceEach ==
    \A x, y \in answered : x[1] = y[1] => (x[2] = y[2] <=> x[3] = y[3])
=============================================================================
