---------------------------- MODULE AccessProofs ----------------------------
(* What administrators give, revoke and what users claim, for any accounts, *)
(* addresses, repositories, roles and requests in flight.                   *)
EXTENDS Access, TLAPS

\* What a request under way names exists, and the account a grant goes to is
\* one of the address the admin gave.
LocalOK(o) ==
    /\ o.pc \in {"upsert", "role", "claim", "enroll", "effective", "serve", "grant",
                 "insert", "suffix"} => o.user \in User
    /\ o.pc \in {"enroll", "effective", "serve", "insert", "suffix", "lookup", "grant",
                 "invite"} => o.repo \in Repo
    /\ o.pc \in {"lookup", "grant", "invite"} => o.email \in Address /\ o.role \in 1..3
    /\ o.pc = "grant" => Email[o.user] = o.email

LocalsOK == \A a \in Slot : LocalOK(op[a])

\* An address has access where it was given some, by an invite or by a grant of
\* one of its accounts ...
HasAccess(r, e) ==
    \/ invites[<<r, e>>] # 0
    \/ \E u \in User : Email[u] = e /\ grants[<<r, u>>] # 0

\* ... and never in a role that was not given: so the invite that a sign-in
\* deletes leaves a role an admin gave, if only an older.
RightsOK ==
    /\ \A k \in Repo \X Address : invites[k] # 0 => invites[k] \in asked[k]
    /\ \A r \in Repo, u \in User :
           grants[<<r, u>>] # 0 => grants[<<r, u>>] \in asked[<<r, Email[u]>>]
    /\ \A r \in Repo, e \in Address : asked[<<r, e>>] # {} => HasAccess(r, e)

\* An invite that is there waits for a sign-in, and none does for a revoked grant.
RevokedOK ==
    /\ \A k \in Repo \X Address : invites[k] # 0 => k \in pending
    /\ \A x \in revoked : grants[x] = 0 /\ invites[<<x[1], Email[x[2]]>>] = 0

\* Who was answered with a branch has it, and nobody else has.
ClaimsOK ==
    /\ \A x \in answered : claims[<<x[1], x[2]>>] = x[3] /\ x[3] # Nobody
    /\ \A r \in Repo, u, v \in User :
           claims[<<r, u>>] # Nobody /\ claims[<<r, u>>] = claims[<<r, v>>] => u = v

AccessIInv == AccessTypeOK /\ LocalsOK /\ RightsOK /\ RevokedOK /\ ClaimsOK

-----------------------------------------------------------------------------
(* Types and locals                                                        *)

\* An account has an address.
LEMMA AddressOf == \A u \in User : Email[u] \in Address
  BY DEF Address

\* Nobody in a slot is a request that names nothing.
LEMMA NoOpOK == NoOp \in Op /\ LocalOK(NoOp)
  BY DEF NoOp, Op, LocalOK

\* A request that changes only its own locals disturbs no other.
LEMMA SlotOK ==
  ASSUME op \in [Slot -> Op], LocalsOK, NEW a \in Slot, NEW rec \in Op, LocalOK(rec),
         op' = [op EXCEPT ![a] = rec]
  PROVE  op' \in [Slot -> Op] /\ LocalsOK'
  BY DEF LocalsOK, LocalOK

\* ... and none if it ends.
LEMMA LeaveOK ==
  ASSUME op \in [Slot -> Op], LocalsOK, NEW a \in Slot, Leave(a)
  PROVE  op' \in [Slot -> Op] /\ LocalsOK'
  BY NoOpOK, SlotOK DEF Leave

\* A request that goes on to a place of which it knows as much.
LEMMA EnterOK ==
  ASSUME op \in [Slot -> Op], LocalsOK, NEW a \in Slot, op[a].user \in User,
         NEW pc \in {"role", "claim", "insert", "suffix"}, Enter(a, pc),
         pc \in {"insert", "suffix"} => op[a].repo \in Repo
  PROVE  op' \in [Slot -> Op] /\ LocalsOK'
<1> DEFINE rec == [op[a] EXCEPT !.pc = pc]
<1>1. rec \in Op /\ LocalOK(rec)
  BY DEF Op, LocalOK
<1>2. op' = [op EXCEPT ![a] = rec]
  BY DEF Enter
<1> QED
  BY <1>1, <1>2, SlotOK

\* Every step keeps the types, and what each request knows.
LEMMA StepType ==
  ASSUME AccessTypeOK, LocalsOK, [AccessNext]_access
  PROVE  AccessTypeOK' /\ LocalsOK'
<1>0. op \in [Slot -> Op] /\ \A a \in Slot : op[a] \in Op /\ LocalOK(op[a])
  BY DEF AccessTypeOK, LocalsOK
<1>1. ASSUME NEW a \in Slot, NEW u \in User, NEW f \in ForgeRole, StartPatLogin(a, u, f)
      PROVE  AccessTypeOK' /\ LocalsOK'
  <2> DEFINE rec == [NoOp EXCEPT !.pc = "upsert", !.user = u, !.role = f]
  <2>0. f \in 0..4
    BY AccessAssumption DEF AccessAssumption
  <2>1. rec \in Op /\ LocalOK(rec)
    BY <2>0, NoOpOK DEF Op, LocalOK
  <2>2. op' = [op EXCEPT ![a] = rec] /\ UNCHANGED <<roles, rights, claims, answered>>
    BY <1>1 DEF StartPatLogin, Begin
  <2> HIDE DEF rec
  <2> QED  BY <1>0, <2>1, <2>2, SlotOK DEF AccessTypeOK, rights
<1>2. ASSUME NEW a \in Slot, NEW u \in User, StartLocalLogin(a, u)
      PROVE  AccessTypeOK' /\ LocalsOK'
  <2> DEFINE rec == [NoOp EXCEPT !.pc = "claim", !.user = u]
  <2>1. rec \in Op /\ LocalOK(rec)
    BY NoOpOK DEF Op, LocalOK
  <2>2. op' = [op EXCEPT ![a] = rec] /\ UNCHANGED <<roles, rights, claims, answered>>
    BY <1>2 DEF StartLocalLogin, Begin
  <2> HIDE DEF rec
  <2> QED  BY <1>0, <2>1, <2>2, SlotOK DEF AccessTypeOK, rights
<1>3. ASSUME NEW a \in Slot, NEW u \in User, NEW r \in Repo, StartRepoRequest(a, u, r)
      PROVE  AccessTypeOK' /\ LocalsOK'
  <2> DEFINE rec == [NoOp EXCEPT !.pc = "enroll", !.user = u, !.repo = r,
                            !.deploy = roles[u]]
  <2>0. roles[u] \in 0..4
    BY <1>3 DEF StartRepoRequest, AccessTypeOK
  <2>1. rec \in Op /\ LocalOK(rec)
    BY NoOpOK, <2>0 DEF Op, LocalOK
  <2>2. op' = [op EXCEPT ![a] = rec] /\ UNCHANGED <<roles, rights, claims, answered>>
    BY <1>3 DEF StartRepoRequest, Begin
  <2> HIDE DEF rec
  <2> QED  BY <1>0, <2>1, <2>2, SlotOK DEF AccessTypeOK, rights
<1>4. ASSUME NEW a \in Slot, NEW r \in Repo, NEW e \in Address, NEW ro \in Granted,
             StartGrant(a, r, e, ro)
      PROVE  AccessTypeOK' /\ LocalsOK'
  <2> DEFINE rec == [NoOp EXCEPT !.pc = "lookup", !.repo = r, !.email = e, !.role = ro]
  <2>0. ro \in 0..4 /\ ro \in 1..3
    BY AccessAssumption DEF AccessAssumption
  <2>1. rec \in Op /\ LocalOK(rec)
    <3>1. rec \in Op
      BY <2>0, NoOpOK DEF Op
    <3>2. rec.pc = "lookup" /\ rec.repo = r /\ rec.email = e /\ rec.role = ro
      BY NoOpOK DEF Op
    <3> HIDE DEF rec
    <3> QED  BY <2>0, <3>1, <3>2 DEF LocalOK
  <2>2. op' = [op EXCEPT ![a] = rec] /\ UNCHANGED <<roles, rights, claims, answered>>
    BY <1>4 DEF StartGrant, Begin
  <2> HIDE DEF rec
  <2> QED  BY <1>0, <2>1, <2>2, SlotOK DEF AccessTypeOK, rights
<1>5. ASSUME NEW a \in Slot, UpsertUser(a) PROVE AccessTypeOK' /\ LocalsOK'
  <2>1. op[a].user \in User
    BY <1>0, <1>5 DEF UpsertUser, LocalOK
  <2>2. op' \in [Slot -> Op] /\ LocalsOK'
    BY <1>0, <1>5, <2>1, EnterOK DEF UpsertUser
  <2> QED  BY <1>5, <2>1, <2>2 DEF UpsertUser, AccessTypeOK, rights
<1>6. ASSUME NEW a \in Slot, SetUserRole(a) PROVE AccessTypeOK' /\ LocalsOK'
  <2>1. op[a].user \in User /\ op[a].role \in 0..4
    BY <1>0, <1>6 DEF SetUserRole, LocalOK, Op
  <2>2. op' \in [Slot -> Op] /\ LocalsOK'
    BY <1>0, <1>6, <2>1, EnterOK DEF SetUserRole
  <2> QED  BY <1>6, <2>1, <2>2 DEF SetUserRole, AccessTypeOK, rights
<1>7. ASSUME NEW a \in Slot, ClaimGrantInvites(a) PROVE AccessTypeOK' /\ LocalsOK'
  <2>1. op' \in [Slot -> Op] /\ LocalsOK'
    BY <1>0, <1>7, LeaveOK DEF ClaimGrantInvites
  <2>2. grants' \in [Repo \X User -> 0..3]
    <3> DEFINE u == op[a].user
    <3>1. \A k \in Repo \X User : <<k[1], Email[u]>> \in Mine(u) =>
              invites[<<k[1], Email[u]>>] \in 0..3
      BY DEF Mine, AccessTypeOK
    <3>2. \A k \in Repo \X User : grants[k] \in 0..3
      BY DEF AccessTypeOK
    <3>3. DOMAIN grants = Repo \X User
      BY DEF AccessTypeOK
    <3> QED  BY <1>7, <3>1, <3>2, <3>3 DEF ClaimGrantInvites
  <2>3. invites' \in [Repo \X Address -> 0..3]
    BY <1>7 DEF ClaimGrantInvites, AccessTypeOK
  <2> QED  BY <1>7, <2>1, <2>2, <2>3 DEF ClaimGrantInvites, AccessTypeOK
<1>8. ASSUME NEW a \in Slot, Leave(a), UNCHANGED <<roles, rights, claims>>,
             answered' \subseteq Repo \X User \X Branch
      PROVE AccessTypeOK' /\ LocalsOK'
  BY <1>0, <1>8, LeaveOK DEF AccessTypeOK, rights
<1>9. ASSUME NEW a \in Slot, Enroll(a) PROVE AccessTypeOK' /\ LocalsOK'
  <2> DEFINE u == op[a].user
             role == IF Email[u] \in Admins THEN 4
                     ELSE IF op[a].deploy # 0 THEN op[a].deploy ELSE Default
             rec == [op[a] EXCEPT !.pc = "effective", !.deploy = role]
  <2>1. u \in User /\ op[a].repo \in Repo /\ op[a] \in Op
    BY <1>0, <1>9 DEF Enroll, LocalOK
  <2>2. role \in 0..4
    BY <2>1, AccessAssumption DEF AccessAssumption, Op
  <2>3. roles' = [roles EXCEPT ![u] = IF Email[u] \in Admins /\ op[a].deploy # 4 THEN 4
                                      ELSE IF @ = 0 THEN role ELSE @]
    BY <1>9 DEF Enroll
  <2>4. op' = [op EXCEPT ![a] = rec] /\ UNCHANGED <<rights, claims, answered>>
    BY <1>9 DEF Enroll
  <2> HIDE DEF role
  <2>5. rec \in Op /\ LocalOK(rec)
    BY <2>1, <2>2 DEF Op, LocalOK
  <2>6. roles' \in [User -> 0..4 \cup {Nobody}]
    BY <2>1, <2>2, <2>3 DEF AccessTypeOK
  <2> HIDE DEF rec
  <2> QED  BY <1>0, <2>4, <2>5, <2>6, SlotOK DEF AccessTypeOK, rights
<1>10. ASSUME NEW a \in Slot, Effective(a) PROVE AccessTypeOK' /\ LocalsOK'
  <2> DEFINE role == IF op[a].deploy = 4 THEN 4
                     ELSE Higher(op[a].deploy, RepoGrantRole(op[a].repo, op[a].user))
             rec == [op[a] EXCEPT !.pc = "serve", !.role = role]
  <2>1. op[a].user \in User /\ op[a].repo \in Repo /\ op[a] \in Op
    BY <1>0, <1>10 DEF Effective, LocalOK
  <2>2. grants[<<op[a].repo, op[a].user>>] \in 0..3
    BY <2>1 DEF AccessTypeOK
  <2>3. role \in 0..4
    BY <2>1, <2>2 DEF Op, Higher, RepoGrantRole
  <2>4. op' = [op EXCEPT ![a] = rec] /\ UNCHANGED <<roles, rights, claims, answered>>
    BY <1>10 DEF Effective
  <2> HIDE DEF role
  <2>5. rec \in Op /\ LocalOK(rec)
    BY <2>1, <2>3 DEF Op, LocalOK
  <2> HIDE DEF rec
  <2> QED  BY <1>0, <2>4, <2>5, SlotOK DEF AccessTypeOK, rights
<1>11. ASSUME NEW a \in Slot, Workspace(a) PROVE AccessTypeOK' /\ LocalsOK'
  <2>1. op[a].user \in User /\ op[a].repo \in Repo
    BY <1>0, <1>11 DEF Workspace, LocalOK
  <2>2. CASE Leave(a)
    <3>1. answered' \subseteq Repo \X User \X Branch
      BY <1>11, <2>1, <2>2 DEF Workspace, AccessTypeOK
    <3> QED  BY <1>8, <1>11, <2>2, <3>1 DEF Workspace
  <2>3. CASE Enter(a, "insert") /\ UNCHANGED answered
    BY <1>0, <1>11, <2>1, <2>3, EnterOK DEF Workspace, AccessTypeOK, rights
  <2> QED  BY <1>11, <2>2, <2>3 DEF Workspace
<1>12. ASSUME NEW a \in Slot, NEW b \in Branch, op[a].user \in User, op[a].repo \in Repo,
              UNCHANGED <<roles, rights>>, Leave(a),
              claims' = [claims EXCEPT ![<<op[a].repo, op[a].user>>] = b],
              answered' = answered \cup {<<op[a].repo, op[a].user, b>>}
       PROVE  AccessTypeOK' /\ LocalsOK'
  <2>1. answered' \subseteq Repo \X User \X Branch
    BY <1>12 DEF AccessTypeOK
  <2>2. claims' \in [Repo \X User -> Branch \cup {Nobody}]
    BY <1>12 DEF AccessTypeOK
  <2> QED  BY <1>0, <1>12, <2>1, <2>2, LeaveOK DEF AccessTypeOK, rights
<1>13. ASSUME NEW a \in Slot, InsertClaim(a) \/ InsertSuffixed(a) PROVE AccessTypeOK' /\ LocalsOK'
  <2>1. op[a].user \in User /\ op[a].repo \in Repo
    BY <1>0, <1>13 DEF InsertClaim, InsertSuffixed, LocalOK
  <2>2. Slug[op[a].user] \in Branch /\ Suffixed[op[a].user] \in Branch
    BY <2>1 DEF Branch
  <2>3. UNCHANGED <<roles, rights>>
    BY <1>13 DEF InsertClaim, InsertSuffixed
  <2>4. CASE UNCHANGED <<claims, answered>> /\ Leave(a)
    BY <1>8, <2>3, <2>4 DEF AccessTypeOK
  <2>5. CASE UNCHANGED <<claims, answered>> /\ Enter(a, "suffix")
    BY <1>0, <2>1, <2>3, <2>5, EnterOK DEF AccessTypeOK, rights
  <2> QED  BY <1>12, <1>13, <2>1, <2>2, <2>3, <2>4, <2>5 DEF InsertClaim, InsertSuffixed, Claim
<1>14. ASSUME NEW a \in Slot, Lookup(a) PROVE AccessTypeOK' /\ LocalsOK'
  <2> DEFINE found == Accounts(op[a].email)
  <2>1. op[a] \in Op /\ op[a].repo \in Repo /\ op[a].email \in Address /\ op[a].role \in 1..3
    BY <1>0, <1>14 DEF Lookup, LocalOK
  <2>2. PICK u \in IF found = {} THEN {Nobody} ELSE Oldest(found) :
            op' = [op EXCEPT ![a].pc = IF found = {} THEN "invite" ELSE "grant", ![a].user = u]
    BY <1>14 DEF Lookup
  <2>3. found # {} => u \in User /\ Email[u] = op[a].email
    BY DEF Accounts, Oldest
  <2>4. found = {} => u = Nobody
    OBVIOUS
  <2> DEFINE rec == [op[a] EXCEPT !.pc = IF found = {} THEN "invite" ELSE "grant", !.user = u]
  <2>5. op' = [op EXCEPT ![a] = rec] /\ UNCHANGED <<roles, rights, claims, answered>>
    BY <1>14, <2>2 DEF Lookup
  <2> HIDE DEF found
  <2>6. rec \in Op /\ LocalOK(rec)
    BY <2>1, <2>3, <2>4 DEF Op, LocalOK
  <2> HIDE DEF rec
  <2> QED  BY <1>0, <2>5, <2>6, SlotOK DEF AccessTypeOK, rights
<1>15. ASSUME NEW a \in Slot, UpsertRepoGrant(a) \/ AddGrantInvite(a)
       PROVE  AccessTypeOK' /\ LocalsOK'
  <2>1. op[a].repo \in Repo /\ op[a].email \in Address /\ op[a].role \in 1..3
    BY <1>0, <1>15 DEF UpsertRepoGrant, AddGrantInvite, LocalOK
  <2>2. op' \in [Slot -> Op] /\ LocalsOK'
    BY <1>0, <1>15, LeaveOK DEF UpsertRepoGrant, AddGrantInvite, Give
  <2> DEFINE k == <<op[a].repo, op[a].email>>
  <2>3. asked' \in [Repo \X Address -> SUBSET (1..3)] /\ revoked' \subseteq Repo \X User
    <3>1. asked' = [asked EXCEPT ![k] = @ \cup {op[a].role}]
      BY <1>15 DEF UpsertRepoGrant, AddGrantInvite, Give
    <3>2. k \in Repo \X Address /\ asked[k] \cup {op[a].role} \in SUBSET (1..3)
      BY <2>1 DEF AccessTypeOK
    <3>3. revoked' \subseteq revoked
      BY <1>15 DEF UpsertRepoGrant, AddGrantInvite, Give
    <3> QED  BY <3>1, <3>2, <3>3 DEF AccessTypeOK
  <2>4. grants' \in [Repo \X User -> 0..3]
    BY <1>0, <1>15, <2>1 DEF UpsertRepoGrant, AddGrantInvite, AccessTypeOK
  <2>5. invites' \in [Repo \X Address -> 0..3]
    <3>1. k \in Repo \X Address /\ op[a].role \in 0..3
      BY <2>1
    <3>2. UNCHANGED invites \/ invites' = [invites EXCEPT ![k] = op[a].role]
      BY <1>15 DEF UpsertRepoGrant, AddGrantInvite
    <3> HIDE DEF k
    <3> QED  BY <3>1, <3>2 DEF AccessTypeOK
  <2>6. pending' \subseteq Repo \X Address
    BY <1>15, <2>1 DEF UpsertRepoGrant, AddGrantInvite, AccessTypeOK
  <2> QED  BY <1>15, <2>2, <2>3, <2>4, <2>5, <2>6
           DEF UpsertRepoGrant, AddGrantInvite, AccessTypeOK
<1>16. ASSUME NEW u \in User, AddLocalUser(u) PROVE AccessTypeOK' /\ LocalsOK'
  BY <1>16 DEF AddLocalUser, AccessTypeOK, LocalsOK, rights
<1>17. ASSUME NEW g \in [Repo \X User -> 0..3], NEW i \in [Repo \X Address -> 0..3],
              NEW r \in Repo, NEW e \in Address
       PROVE  Held(g, i, r, e) \subseteq 1..3
  <2>1. \A u \in User : g[<<r, u>>] \in 0..3
    OBVIOUS
  <2>2. i[<<r, e>>] \in 0..3
    OBVIOUS
  <2>3. ASSUME NEW x \in Held(g, i, r, e) PROVE x \in 1..3
    <3>1. x # 0 /\ (x = i[<<r, e>>] \/ \E u \in User : x = g[<<r, u>>])
      BY <2>3 DEF Held
    <3>2. x \in 0..3
      BY <2>1, <2>2, <3>1
    <3> QED  BY <3>1, <3>2
  <2> QED  BY <2>3
<1>18. ASSUME NEW r \in Repo, NEW u \in User, DeleteRepoGrant(r, u)
       PROVE  AccessTypeOK' /\ LocalsOK'
  <2>1. grants' \in [Repo \X User -> 0..3] /\ invites \in [Repo \X Address -> 0..3]
    BY <1>18 DEF DeleteRepoGrant, WithoutGrant, AccessTypeOK
  <2>2. Held(grants', invites, r, Email[u]) \subseteq 1..3
    BY <1>17, <2>1, AddressOf
  <2>3. asked' \in [Repo \X Address -> SUBSET (1..3)] /\ revoked' \subseteq Repo \X User
    BY <1>18, <2>2 DEF DeleteRepoGrant, AccessTypeOK
  <2> QED  BY <1>18, <2>1, <2>3 DEF DeleteRepoGrant, AccessTypeOK, LocalsOK
<1>19. ASSUME NEW r \in Repo, NEW e \in Address, DeleteGrantInvite(r, e)
       PROVE  AccessTypeOK' /\ LocalsOK'
  <2>1. invites' \in [Repo \X Address -> 0..3] /\ grants \in [Repo \X User -> 0..3]
    BY <1>19 DEF DeleteGrantInvite, WithoutInvite, AccessTypeOK
  <2>2. Held(grants, invites', r, e) \subseteq 1..3
    BY <1>17, <2>1
  <2>3. asked' \in [Repo \X Address -> SUBSET (1..3)]
    BY <1>19, <2>2 DEF DeleteGrantInvite, AccessTypeOK
  <2> QED  BY <1>19, <2>1, <2>3 DEF DeleteGrantInvite, AccessTypeOK, LocalsOK
<1>20. CASE AccessRestart
  BY <1>20, NoOpOK DEF AccessRestart, AccessTypeOK, LocalsOK, rights
<1>21. CASE UNCHANGED access
  BY <1>21 DEF access, rights, AccessTypeOK, LocalsOK
<1>22. ASSUME NEW a \in Slot, ClaimFails(a) \/ Refuse(a) \/ Read(a)
       PROVE  AccessTypeOK' /\ LocalsOK'
  BY <1>8, <1>22 DEF ClaimFails, Refuse, Read, AccessTypeOK
<1> QED
  BY <1>1, <1>2, <1>3, <1>4, <1>5, <1>6, <1>7, <1>9, <1>10, <1>11, <1>13, <1>14, <1>15,
     <1>16, <1>18, <1>19, <1>20, <1>21, <1>22 DEF AccessNext

-----------------------------------------------------------------------------
(* Grants and invites                                                      *)

\* The roles an address has are its invite's and its accounts' grants.
LEMMA HeldIs ==
  ASSUME NEW g, NEW i, NEW r, NEW e
  PROVE  \A x : x \in Held(g, i, r, e) <=>
             x # 0 /\ (x = i[<<r, e>>] \/ \E u \in User : Email[u] = e /\ x = g[<<r, u>>])
  BY DEF Held

\* Only a sign-in, an administrator's write and a revocation touch the rights.
LEMMA WhoTouchesRights ==
  ASSUME [AccessNext]_access
  PROVE  \/ UNCHANGED rights
         \/ \E a \in Slot : ClaimGrantInvites(a) \/ UpsertRepoGrant(a) \/ AddGrantInvite(a)
         \/ \E r \in Repo, u \in User : DeleteRepoGrant(r, u)
         \/ \E r \in Repo, e \in Address : DeleteGrantInvite(r, e)
  BY DEF AccessNext, access, rights, StartPatLogin, StartLocalLogin, StartRepoRequest,
         StartGrant, UpsertUser, SetUserRole, ClaimFails, Enroll, Effective, Refuse, Read,
         Workspace, InsertClaim, InsertSuffixed, Lookup, AddLocalUser, AccessRestart

\* Each of them keeps RightsOK and RevokedOK.
LEMMA StepRights ==
  ASSUME AccessTypeOK, LocalsOK, RightsOK, RevokedOK, [AccessNext]_access
  PROVE  RightsOK' /\ RevokedOK'
<1>0. /\ \A k \in Repo \X User : grants[k] \in 0..3
      /\ \A k \in Repo \X Address : invites[k] \in 0..3
      /\ DOMAIN grants = Repo \X User /\ DOMAIN invites = Repo \X Address
      /\ DOMAIN asked = Repo \X Address
  BY DEF AccessTypeOK
<1>1. ASSUME NEW a \in Slot, ClaimGrantInvites(a) PROVE RightsOK' /\ RevokedOK'
  <2> DEFINE u == op[a].user
  <2>1. u \in User /\ Email[u] \in Address
    BY <1>1, AddressOf DEF LocalsOK, LocalOK, ClaimGrantInvites
  <2>2. \A r \in Repo, v \in User :
          grants'[<<r, v>>] = IF v = u /\ grants[<<r, v>>] = 0 /\ invites[<<r, Email[u]>>] # 0
                              THEN invites[<<r, Email[u]>>] ELSE grants[<<r, v>>]
    BY <1>0, <1>1, <2>1 DEF ClaimGrantInvites, Mine
  <2>3. \A r \in Repo, e \in Address :
          invites'[<<r, e>>] = IF e = Email[u] THEN 0 ELSE invites[<<r, e>>]
    BY <1>0, <1>1, <2>1 DEF ClaimGrantInvites, Claimed, Mine
  <2>4. asked' = asked /\ revoked' = revoked /\ pending' = {k \in pending : k[2] # Email[u]}
    BY <1>1 DEF ClaimGrantInvites
  <2> HIDE DEF u
  <2>5. RightsOK'
    <3>1. \A k \in Repo \X Address : invites'[k] # 0 => invites'[k] \in asked[k]
      BY <2>3 DEF RightsOK
    <3>2. ASSUME NEW r \in Repo, NEW v \in User, grants'[<<r, v>>] # 0
          PROVE  grants'[<<r, v>>] \in asked[<<r, Email[v]>>]
      <4>1. CASE grants[<<r, v>>] # 0
        BY <2>2, <4>1 DEF RightsOK
      <4>2. CASE v = u /\ invites[<<r, Email[u]>>] # 0 /\ grants[<<r, v>>] = 0
        BY <2>1, <2>2, <4>2 DEF RightsOK
      <4> QED  BY <2>2, <3>2, <4>1, <4>2
    <3>3. ASSUME NEW r \in Repo, NEW e \in Address, asked[<<r, e>>] # {}
          PROVE  HasAccess(r, e)'
      <4>1. CASE invites[<<r, e>>] # 0 /\ e # Email[u]
        BY <2>3, <4>1 DEF HasAccess
      <4>2. CASE invites[<<r, e>>] # 0 /\ e = Email[u]
        <5>1. grants'[<<r, u>>] # 0
          BY <2>1, <2>2, <4>2
        <5> QED  BY <2>1, <4>2, <5>1 DEF HasAccess
      <4>3. ASSUME NEW v \in User, Email[v] = e, grants[<<r, v>>] # 0
            PROVE  HasAccess(r, e)'
        BY <2>2, <4>3 DEF HasAccess
      <4> QED  BY <3>3, <4>1, <4>2, <4>3 DEF RightsOK, HasAccess
    <3> QED  BY <2>4, <3>1, <3>2, <3>3 DEF RightsOK
  <2>6. RevokedOK'
    <3>1. \A k \in Repo \X Address : invites'[k] # 0 => k \in pending'
      BY <2>3, <2>4 DEF RevokedOK
    <3>2. ASSUME NEW x \in revoked
          PROVE  grants'[x] = 0 /\ invites'[<<x[1], Email[x[2]]>>] = 0
      <4>1. x[1] \in Repo /\ x[2] \in User /\ x = <<x[1], x[2]>> /\ Email[x[2]] \in Address
        BY AddressOf DEF AccessTypeOK
      <4>2. grants[x] = 0 /\ invites[<<x[1], Email[x[2]]>>] = 0
        BY DEF RevokedOK
      <4>3. CASE x[2] = u
        BY <2>2, <2>3, <4>1, <4>2, <4>3
      <4>4. CASE x[2] # u
        BY ZenonT(30), <2>2, <2>3, <4>1, <4>2, <4>4
      <4> QED  BY <4>3, <4>4
    <3> QED  BY <2>4, <3>1, <3>2 DEF RevokedOK
  <2> QED  BY <2>5, <2>6
<1>2. ASSUME NEW a \in Slot, UpsertRepoGrant(a) \/ AddGrantInvite(a)
      PROVE  RightsOK' /\ RevokedOK'
  <2> DEFINE r0 == op[a].repo
             e0 == op[a].email
             ro == op[a].role
  <2>1. r0 \in Repo /\ e0 \in Address /\ ro \in 1..3 /\ ro # 0
    BY <1>2 DEF LocalsOK, LocalOK, UpsertRepoGrant, AddGrantInvite
  <2>2. \A r \in Repo, e \in Address :
          asked'[<<r, e>>] = IF r = r0 /\ e = e0 THEN asked[<<r, e>>] \cup {ro}
                             ELSE asked[<<r, e>>]
    BY <1>0, <1>2, <2>1 DEF UpsertRepoGrant, AddGrantInvite, Give
  <2> HIDE DEF r0, e0, ro
  <2>2a. \A r \in Repo, e \in Address : \A x \in asked[<<r, e>>] : x \in asked'[<<r, e>>]
    BY <2>2
  <2>2b. \A r \in Repo, e \in Address :
           ~(r = r0 /\ e = e0) => asked'[<<r, e>>] = asked[<<r, e>>]
    BY <2>2
  <2>2c. ro \in asked'[<<r0, e0>>]
    BY <2>1, <2>2
  <2>3. revoked' = {x \in revoked : <<x[1], Email[x[2]]>> # <<r0, e0>>}
    BY <1>2 DEF UpsertRepoGrant, AddGrantInvite, Give, r0, e0
  <2>4. CASE UpsertRepoGrant(a)
    <3> DEFINE u0 == op[a].user
    <3>1. u0 \in User /\ Email[u0] = e0
      BY <2>4 DEF LocalsOK, LocalOK, UpsertRepoGrant, e0
    <3>2. \A r \in Repo, v \in User :
            grants'[<<r, v>>] = IF r = r0 /\ v = u0 THEN ro ELSE grants[<<r, v>>]
      BY <1>0, <2>1, <2>4, <3>1 DEF UpsertRepoGrant, r0, e0, ro
    <3>3. invites' = invites /\ pending' = pending
      BY <2>4 DEF UpsertRepoGrant
    <3> HIDE DEF u0
    <3>4. RightsOK'
      <4>1. \A k \in Repo \X Address : invites[k] # 0 => invites[k] \in asked'[k]
        BY <2>2a DEF RightsOK
      <4>2. ASSUME NEW r \in Repo, NEW v \in User, grants'[<<r, v>>] # 0
            PROVE  grants'[<<r, v>>] \in asked'[<<r, Email[v]>>]
        <5>1. CASE r = r0 /\ v = u0
          BY <2>2c, <3>1, <3>2, <5>1
        <5>2. CASE ~(r = r0 /\ v = u0)
          BY <2>2a, <3>2, <4>2, <5>2, AddressOf DEF RightsOK
        <5> QED  BY <5>1, <5>2
      <4>3. ASSUME NEW r \in Repo, NEW e \in Address, asked'[<<r, e>>] # {}
            PROVE  HasAccess(r, e)'
        <5>1. CASE r = r0 /\ e = e0
          BY <2>1, <3>1, <3>2, <5>1 DEF HasAccess
        <5>2. CASE ~(r = r0 /\ e = e0)
          BY <2>2b, <3>1, <3>2, <3>3, <4>3, <5>2 DEF RightsOK, HasAccess
        <5> QED  BY <5>1, <5>2
      <4> QED  BY <3>3, <4>1, <4>2, <4>3 DEF RightsOK
    <3>5. RevokedOK'
      <4>1. ASSUME NEW x \in revoked' PROVE grants'[x] = 0 /\ invites[<<x[1], Email[x[2]]>>] = 0
        <5>1. x[1] \in Repo /\ x[2] \in User /\ x = <<x[1], x[2]>>
          BY <2>3, <4>1 DEF AccessTypeOK
        <5>2. ~(x[1] = r0 /\ x[2] = u0) /\ x \in revoked
          BY <2>3, <3>1, <4>1
        <5> QED  BY <3>2, <5>1, <5>2 DEF RevokedOK
      <4> QED  BY <3>3, <4>1 DEF RevokedOK
    <3> QED  BY <3>4, <3>5
  <2>5. CASE AddGrantInvite(a)
    <3>1. \A r \in Repo, e \in Address :
            invites'[<<r, e>>] = IF r = r0 /\ e = e0 THEN ro ELSE invites[<<r, e>>]
      BY <1>0, <2>1, <2>5 DEF AddGrantInvite, r0, e0, ro
    <3>2. grants' = grants /\ pending' = pending \cup {<<r0, e0>>}
      BY <2>5 DEF AddGrantInvite, r0, e0
    <3>3. RightsOK'
      <4>1. ASSUME NEW r \in Repo, NEW e \in Address, invites'[<<r, e>>] # 0
            PROVE  invites'[<<r, e>>] \in asked'[<<r, e>>]
        <5>1. CASE r = r0 /\ e = e0
          BY <2>2c, <3>1, <5>1
        <5>2. CASE ~(r = r0 /\ e = e0)
          BY <2>2a, <3>1, <4>1, <5>2 DEF RightsOK
        <5> QED  BY <5>1, <5>2
      <4>2. \A r \in Repo, v \in User :
              grants[<<r, v>>] # 0 => grants[<<r, v>>] \in asked'[<<r, Email[v]>>]
        BY <2>2a, AddressOf DEF RightsOK
      <4>3. ASSUME NEW r \in Repo, NEW e \in Address, asked'[<<r, e>>] # {}
            PROVE  HasAccess(r, e)'
        <5>1. CASE r = r0 /\ e = e0
          BY <2>1, <3>1, <5>1 DEF HasAccess
        <5>2. CASE ~(r = r0 /\ e = e0)
          BY <2>2b, <3>1, <3>2, <4>3, <5>2 DEF RightsOK, HasAccess
        <5> QED  BY <5>1, <5>2
      <4> QED  BY <3>2, <4>1, <4>2, <4>3 DEF RightsOK
    <3>4. RevokedOK'
      <4>1. ASSUME NEW x \in revoked' PROVE grants[x] = 0 /\ invites'[<<x[1], Email[x[2]]>>] = 0
        <5>1. x[1] \in Repo /\ Email[x[2]] \in Address
          BY <2>3, <4>1, AddressOf DEF AccessTypeOK
        <5>2. ~(x[1] = r0 /\ Email[x[2]] = e0) /\ x \in revoked
          BY <2>3, <4>1
        <5> QED  BY <3>1, <5>1, <5>2 DEF RevokedOK
      <4>2. \A k \in Repo \X Address : invites'[k] # 0 => k \in pending'
        BY <3>1, <3>2 DEF RevokedOK
      <4> QED  BY <3>2, <4>1, <4>2 DEF RevokedOK
    <3> QED  BY <3>3, <3>4
  <2> QED  BY <1>2, <2>4, <2>5
<1>3. ASSUME NEW r0 \in Repo, NEW u0 \in User, DeleteRepoGrant(r0, u0)
      PROVE  RightsOK' /\ RevokedOK'
  <2> DEFINE e0 == Email[u0]
  <2>1. e0 \in Address
    BY AddressOf
  <2>2. \A r \in Repo, v \in User :
          grants'[<<r, v>>] = IF r = r0 /\ v = u0 THEN 0 ELSE grants[<<r, v>>]
    BY <1>0, <1>3 DEF DeleteRepoGrant, WithoutGrant
  <2>3. invites' = invites /\ pending' = pending
    BY <1>3 DEF DeleteRepoGrant
  <2>4. \A r \in Repo, e \in Address :
          asked'[<<r, e>>] = IF r = r0 /\ e = e0 THEN Held(grants', invites, r0, e0)
                             ELSE asked[<<r, e>>]
    BY <1>0, <1>3, <2>1 DEF DeleteRepoGrant
  <2>5. revoked' = IF <<r0, e0>> \in pending THEN revoked ELSE revoked \cup {<<r0, u0>>}
    BY <1>3 DEF DeleteRepoGrant
  <2> HIDE DEF e0
  <2>6. RightsOK'
    <3>0. \A x : x \in Held(grants', invites, r0, e0) <=>
              x # 0 /\ (x = invites[<<r0, e0>>]
                         \/ \E v \in User : Email[v] = e0 /\ x = grants'[<<r0, v>>])
      BY HeldIs
    <3>1. ASSUME NEW r \in Repo, NEW e \in Address, invites[<<r, e>>] # 0
          PROVE  invites[<<r, e>>] \in asked'[<<r, e>>]
      BY <2>4, <3>0, <3>1 DEF RightsOK
    <3>2. ASSUME NEW r \in Repo, NEW v \in User, grants'[<<r, v>>] # 0
          PROVE  grants'[<<r, v>>] \in asked'[<<r, Email[v]>>]
      <4>1. CASE r = r0 /\ Email[v] = e0
        BY <2>1, <2>4, <3>0, <3>2, <4>1
      <4>2. CASE ~(r = r0 /\ Email[v] = e0)
        BY <2>2, <2>4, <3>2, <4>2, AddressOf DEF RightsOK
      <4> QED  BY <4>1, <4>2
    <3>3. ASSUME NEW r \in Repo, NEW e \in Address, asked'[<<r, e>>] # {}
          PROVE  HasAccess(r, e)'
      <4>1. CASE r = r0 /\ e = e0
        BY <2>3, <2>4, <3>0, <3>3, <4>1 DEF HasAccess
      <4>2. CASE ~(r = r0 /\ e = e0)
        BY <2>2, <2>3, <2>4, <3>3, <4>2 DEF RightsOK, HasAccess, e0
      <4> QED  BY <4>1, <4>2
    <3> QED  BY <2>3, <3>1, <3>2, <3>3 DEF RightsOK
  <2>7. RevokedOK'
    <3>1. ASSUME NEW x \in revoked' PROVE grants'[x] = 0 /\ invites[<<x[1], Email[x[2]]>>] = 0
      <4>1. CASE x \in revoked
        <5>1. x[1] \in Repo /\ x[2] \in User /\ x = <<x[1], x[2]>>
          BY <4>1 DEF AccessTypeOK
        <5> QED  BY <2>2, <4>1, <5>1 DEF RevokedOK
      <4>2. CASE x = <<r0, u0>> /\ <<r0, e0>> \notin pending
        <5>1. invites[<<r0, e0>>] = 0
          BY <2>1, <4>2 DEF RevokedOK
        <5> QED  BY <2>2, <4>2, <5>1 DEF e0
      <4> QED  BY <2>5, <3>1, <4>1, <4>2
    <3> QED  BY <2>3, <3>1 DEF RevokedOK
  <2> QED  BY <2>6, <2>7
<1>4. ASSUME NEW r0 \in Repo, NEW e0 \in Address, DeleteGrantInvite(r0, e0)
      PROVE  RightsOK' /\ RevokedOK'
  <2>1. \A r \in Repo, e \in Address :
          invites'[<<r, e>>] = IF r = r0 /\ e = e0 THEN 0 ELSE invites[<<r, e>>]
    BY <1>0, <1>4 DEF DeleteGrantInvite, WithoutInvite
  <2>2. grants' = grants /\ revoked' = revoked /\ pending' = pending \ {<<r0, e0>>}
    BY <1>4 DEF DeleteGrantInvite
  <2>3. \A r \in Repo, e \in Address :
          asked'[<<r, e>>] = IF r = r0 /\ e = e0 THEN Held(grants, invites', r0, e0)
                             ELSE asked[<<r, e>>]
    BY <1>0, <1>4 DEF DeleteGrantInvite
  <2>4. RightsOK'
    <3>0. \A x : x \in Held(grants, invites', r0, e0) <=>
              x # 0 /\ (x = invites'[<<r0, e0>>]
                         \/ \E v \in User : Email[v] = e0 /\ x = grants[<<r0, v>>])
      BY HeldIs
    <3>1. ASSUME NEW r \in Repo, NEW e \in Address, invites'[<<r, e>>] # 0
          PROVE  invites'[<<r, e>>] \in asked'[<<r, e>>]
      BY <2>1, <2>3, <3>1 DEF RightsOK
    <3>2. ASSUME NEW r \in Repo, NEW v \in User, grants[<<r, v>>] # 0
          PROVE  grants[<<r, v>>] \in asked'[<<r, Email[v]>>]
      <4>1. CASE r = r0 /\ Email[v] = e0
        BY <2>3, <3>0, <3>2, <4>1
      <4>2. CASE ~(r = r0 /\ Email[v] = e0)
        BY <2>3, <3>2, <4>2, AddressOf DEF RightsOK
      <4> QED  BY <4>1, <4>2
    <3>3. ASSUME NEW r \in Repo, NEW e \in Address, asked'[<<r, e>>] # {}
          PROVE  HasAccess(r, e)'
      <4>1. CASE r = r0 /\ e = e0
        BY SMTT(30), <2>2, <2>3, <3>0, <3>3, <4>1 DEF HasAccess
      <4>2. CASE ~(r = r0 /\ e = e0)
        BY <2>1, <2>2, <2>3, <3>3, <4>2 DEF RightsOK, HasAccess
      <4> QED  BY <4>1, <4>2
    <3> QED  BY <2>2, <3>1, <3>2, <3>3 DEF RightsOK
  <2>5. RevokedOK'
    <3>1. ASSUME NEW x \in revoked PROVE grants[x] = 0 /\ invites'[<<x[1], Email[x[2]]>>] = 0
      <4>1. x[1] \in Repo /\ Email[x[2]] \in Address
        BY AddressOf DEF AccessTypeOK
      <4> QED  BY <2>1, <4>1 DEF RevokedOK
    <3>2. \A k \in Repo \X Address : invites'[k] # 0 => k \in pending'
      BY <2>1, <2>2 DEF RevokedOK
    <3> QED  BY <2>2, <3>1, <3>2 DEF RevokedOK
  <2> QED  BY <2>4, <2>5
<1>5. CASE UNCHANGED rights
  BY <1>5 DEF rights, RightsOK, HasAccess, RevokedOK
<1> QED
  BY <1>1, <1>2, <1>3, <1>4, <1>5, WhoTouchesRights

-----------------------------------------------------------------------------
(* Workspace branches                                                      *)

\* Only the two inserts claim a branch, and only they and the look at an
\* earlier claim answer with one.
LEMMA WhoTouchesClaims ==
  ASSUME [AccessNext]_access
  PROVE  \/ UNCHANGED <<claims, answered>>
         \/ \E a \in Slot : Workspace(a) \/ InsertClaim(a) \/ InsertSuffixed(a)
  BY DEF AccessNext, access, rights, StartPatLogin, StartLocalLogin, StartRepoRequest,
         StartGrant, UpsertUser, SetUserRole, ClaimGrantInvites, ClaimFails, Enroll,
         Effective, Refuse, Read, Lookup, AddLocalUser, AccessRestart,
         UpsertRepoGrant, AddGrantInvite, Give, DeleteRepoGrant, DeleteGrantInvite

\* A claim that is made stays made, and is the only one of its branch.
LEMMA StepClaims ==
  ASSUME AccessTypeOK, LocalsOK, ClaimsOK, [AccessNext]_access
  PROVE  ClaimsOK'
<1>0. DOMAIN claims = Repo \X User
  BY DEF AccessTypeOK
<1>1. ASSUME NEW r0 \in Repo, NEW u0 \in User, NEW b, Free(<<r0, u0>>, b),
             claims' = [claims EXCEPT ![<<r0, u0>>] = b],
             answered' = answered \cup {<<r0, u0, b>>}
      PROVE  ClaimsOK'
  <2>1. claims[<<r0, u0>>] = Nobody /\ \A v \in User : claims[<<r0, v>>] # b
    BY <1>1 DEF Free
  <2>2. b # Nobody
    BY <2>1
  <2>3. \A r \in Repo, v \in User :
          claims'[<<r, v>>] = IF r = r0 /\ v = u0 THEN b ELSE claims[<<r, v>>]
    BY <1>0, <1>1
  <2>4. ASSUME NEW x \in answered' PROVE claims'[<<x[1], x[2]>>] = x[3] /\ x[3] # Nobody
    <3>1. CASE x = <<r0, u0, b>>
      BY <2>2, <2>3, <3>1
    <3>2. CASE x \in answered
      <4>1. x[1] \in Repo /\ x[2] \in User
        BY <3>2 DEF AccessTypeOK
      <4>2. claims[<<x[1], x[2]>>] = x[3] /\ x[3] # Nobody
        BY <3>2 DEF ClaimsOK
      <4> QED  BY <2>1, <2>3, <4>1, <4>2
    <3> QED  BY <1>1, <2>4, <3>1, <3>2
  <2>5. ASSUME NEW r \in Repo, NEW u \in User, NEW v \in User,
               claims'[<<r, u>>] # Nobody, claims'[<<r, u>>] = claims'[<<r, v>>]
        PROVE  u = v
    BY <2>1, <2>3, <2>5 DEF ClaimsOK
  <2> QED  BY <2>4, <2>5 DEF ClaimsOK
<1>2. ASSUME NEW a \in Slot, Workspace(a) PROVE ClaimsOK'
  <2> DEFINE k == <<op[a].repo, op[a].user>>
  <2>1. k[1] \in Repo /\ k[2] \in User /\ claims' = claims
    BY <1>2 DEF Workspace, LocalsOK, LocalOK
  <2>2. CASE claims[k] # Nobody /\ answered' = answered \cup {<<k[1], k[2], claims[k]>>}
    <3>1. ASSUME NEW x \in answered' PROVE claims[<<x[1], x[2]>>] = x[3] /\ x[3] # Nobody
      <4>1. CASE x \in answered
        BY <4>1 DEF ClaimsOK
      <4>2. CASE x = <<k[1], k[2], claims[k]>>
        BY <2>2, <4>2
      <4> QED  BY <2>2, <3>1, <4>1, <4>2
    <3> QED  BY <2>1, <3>1 DEF ClaimsOK
  <2>3. CASE UNCHANGED answered
    BY <2>1, <2>3 DEF ClaimsOK
  <2> QED  BY <1>2, <2>2, <2>3 DEF Workspace
<1>3. ASSUME NEW a \in Slot, InsertClaim(a) \/ InsertSuffixed(a) PROVE ClaimsOK'
  <2>1. op[a].repo \in Repo /\ op[a].user \in User
    BY <1>3 DEF InsertClaim, InsertSuffixed, LocalsOK, LocalOK
  <2>2. CASE UNCHANGED <<claims, answered>>
    BY <2>2 DEF ClaimsOK
  <2>3. \/ UNCHANGED <<claims, answered>>
        \/ \E b : /\ Free(<<op[a].repo, op[a].user>>, b)
                  /\ claims' = [claims EXCEPT ![<<op[a].repo, op[a].user>>] = b]
                  /\ answered' = answered \cup {<<op[a].repo, op[a].user, b>>}
    BY <1>3 DEF InsertClaim, InsertSuffixed, Claim
  <2> QED  BY <1>1, <2>1, <2>2, <2>3
<1>4. CASE UNCHANGED <<claims, answered>>
  BY <1>4 DEF ClaimsOK
<1> QED
  BY <1>2, <1>3, <1>4, WhoTouchesClaims

-----------------------------------------------------------------------------
(* The theorems                                                            *)

\* It holds before the first account.
LEMMA InitAccess == AccessInit => AccessIInv
<1> SUFFICES ASSUME AccessInit PROVE AccessIInv
  OBVIOUS
<1>1. AccessTypeOK
  BY NoOpOK DEF AccessInit, AccessTypeOK
<1>2. LocalsOK
  BY NoOpOK DEF AccessInit, LocalsOK
<1>3. RightsOK /\ RevokedOK
  BY DEF AccessInit, RightsOK, RevokedOK
<1>4. ClaimsOK
  BY DEF AccessInit, ClaimsOK
<1> QED
  BY <1>1, <1>2, <1>3, <1>4 DEF AccessIInv

\* The inductive invariant of accounts, grants, invites and claims.
THEOREM AccessInvariance == AccessSpec => []AccessIInv
<1>1. AccessIInv /\ [AccessNext]_access => AccessIInv'
  BY StepType, StepRights, StepClaims DEF AccessIInv
<1> QED
  BY InitAccess, <1>1, PTL DEF AccessSpec

\* What an admin gave is there until an admin takes it back, whatever sign-ins
\* fall between createGrant's lookup of the address and its write.
THEOREM AccessKept == AccessSpec => []AccessInv
<1>1. AccessIInv => AccessInv
  <2> SUFFICES ASSUME AccessIInv, NEW r \in Repo, NEW e \in Address, asked[<<r, e>>] # {}
               PROVE  Held(grants, invites, r, e) \cap asked[<<r, e>>] # {}
    BY DEF AccessInv, AccessIInv, AccessGiven
  <2>1. RightsOK
    BY DEF AccessIInv
  <2>2. \A x : x \in Held(grants, invites, r, e) <=>
            x # 0 /\ (x = invites[<<r, e>>]
                       \/ \E u \in User : Email[u] = e /\ x = grants[<<r, u>>])
    BY HeldIs
  <2>3. CASE invites[<<r, e>>] # 0
    BY <2>1, <2>2, <2>3 DEF RightsOK
  <2>4. ASSUME NEW u \in User, Email[u] = e, grants[<<r, u>>] # 0
        PROVE  Held(grants, invites, r, e) \cap asked[<<r, e>>] # {}
    BY <2>1, <2>2, <2>4 DEF RightsOK
  <2> QED  BY ZenonT(30), <2>1, <2>3, <2>4 DEF RightsOK, HasAccess
<1> QED
  BY AccessInvariance, <1>1, PTL

\* A revoked grant is not brought back by a sign-in (ClaimGrantInvites).
THEOREM Revocation == AccessSpec => []RevokedStaysOut
<1>1. AccessIInv => RevokedStaysOut
  BY DEF AccessIInv, RevokedOK, RevokedStaysOut
<1> QED
  BY AccessInvariance, <1>1, PTL

\* One branch for each user of a repository, and one user for each branch,
\* however the first requests for it interleave (postWorkspace).
THEOREM OneEach == AccessSpec => []OneWorkspaceEach
<1>1. AccessIInv => OneWorkspaceEach
  <2> SUFFICES ASSUME AccessIInv, NEW x \in answered, NEW y \in answered, x[1] = y[1]
               PROVE  x[2] = y[2] <=> x[3] = y[3]
    BY DEF OneWorkspaceEach
  <2>1. /\ claims[<<x[1], x[2]>>] = x[3] /\ x[3] # Nobody
        /\ claims[<<x[1], y[2]>>] = y[3] /\ y[3] # Nobody
    BY DEF AccessIInv, ClaimsOK
  <2>2. x[1] \in Repo /\ x[2] \in User /\ y[2] \in User
    BY DEF AccessIInv, AccessTypeOK
  <2> QED  BY <2>1, <2>2 DEF AccessIInv, ClaimsOK
<1> QED
  BY AccessInvariance, <1>1, PTL
=============================================================================
