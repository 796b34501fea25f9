------------------------------- MODULE SignIn -------------------------------
(***************************************************************************)
(* Sessions, and the forge tokens kept in memory for them                  *)
(* (server/internal/api/auth.go, middleware.go, pat.go; auth/session.go,   *)
(* auth/vault.go; store/store.go).                                         *)
(*                                                                         *)
(* Granularity: one statement of the store or one call of the vault per    *)
(* step.  Time is relative: a session knows how long it has left, a token  *)
(* how long it has idled, in ticks of the ten-minute janitor, so that time *)
(* needs no bound.  What a sign-in does to accounts and grants is Access.  *)
(***************************************************************************)
EXTENDS Integers

CONSTANTS
    TTL,      \* session.ttl, in ticks
    MinIdle,  \* the least idle time after which a token is reaped
    Session,  \* session ids, issued in order
    Tab,      \* requests in flight
    Gone      \* no row, no entry

ASSUME SignInAssumption ==
    /\ Session \subseteq Nat
    /\ TTL \in Nat /\ MinIdle \in Nat /\ 0 < MinIdle
    /\ Gone \notin Int

VARIABLES
    mode,     \* "forge" (personal access tokens) or "local" (passwords)
    sessions, \* [Session -> ticks before its row expires, or Gone]
    vault,    \* TokenVault: [Session -> ticks since lastSeen, or Gone]
    issued,   \* sessions issued so far
    tab,      \* [Tab -> where the request is, and its locals]
    kept,     \* sessions signed in to this process and not logged out
    doubted   \* sessions for which the store failed a lookup

signin == <<mode, sessions, vault, issued, tab, kept, doubted>>

MaxOf(a, b) == IF a > b THEN a ELSE b

\* vaultJanitor's maxIdle, and one that mirrors the session exactly.
OneTTL == MaxOf(TTL, MinIdle)
MaxIdle == MaxOf(2 * TTL, MinIdle)

\* aged: a tick fell between two of the request's statements.
NoTab == [pc |-> "idle", sid |-> Gone, aged |-> FALSE]
TabState == [pc : {"idle", "issue", "put", "select", "slide", "get", "drop", "logout"},
             sid : Session \cup {Gone}, aged : BOOLEAN]

SignInInit ==
    /\ mode \in {"forge", "local"}
    /\ sessions = [s \in Session |-> Gone]
    /\ vault = [s \in Session |-> Gone]
    /\ issued = 0
    /\ tab = [a \in Tab |-> NoTab]
    /\ kept = {} /\ doubted = {}

\* SessionUser refuses what expires_at < now.
Live(s) == sessions[s] # Gone /\ sessions[s] >= 0

At(a, pc) == tab[a].pc = pc
Go(a, pc) == tab' = [tab EXCEPT ![a].pc = pc]
End(a) == tab' = [tab EXCEPT ![a] = NoTab]

-----------------------------------------------------------------------------

\* authPatLogin once the forge accepted the token and named a role, and
\* authLocalLogin once the password matched: only then is a session issued.
\* A rejection (401, 403) or an outage (502) changes nothing.
StartLogin(a) ==
    /\ At(a, "idle")
    /\ Go(a, "issue")
    /\ UNCHANGED <<mode, sessions, vault, issued, kept, doubted>>

\* CreateSession: expired rows are deleted before the new one is inserted.
Issue(a) ==
    /\ At(a, "issue") /\ issued + 1 \in Session
    /\ issued' = issued + 1
    /\ sessions' = [s \in Session |-> IF s = issued + 1 THEN TTL
                                      ELSE IF Live(s) THEN sessions[s] ELSE Gone]
    /\ tab' = [tab EXCEPT ![a] = IF mode = "forge"
                 THEN [NoTab EXCEPT !.pc = "put", !.sid = issued + 1] ELSE NoTab]
    /\ UNCHANGED <<mode, vault, kept, doubted>>

\* The token enters the vault before the browser learns the session's id.
Put(a) ==
    /\ At(a, "put")
    /\ vault' = [vault EXCEPT ![tab[a].sid] = 0]
    /\ kept' = kept \cup {tab[a].sid}
    /\ End(a)
    /\ UNCHANGED <<mode, sessions, issued, doubted>>

\* authLogout forgets the token, then deletes the session.
StartLogout(a, s) ==
    /\ At(a, "idle") /\ s <= issued
    /\ tab' = [tab EXCEPT ![a] = [NoTab EXCEPT !.pc = "logout", !.sid = s]]
    /\ vault' = [vault EXCEPT ![s] = Gone]
    /\ kept' = kept \ {s}
    /\ UNCHANGED <<mode, sessions, issued, doubted>>

DeleteSession(a) ==
    /\ At(a, "logout")
    /\ sessions' = [sessions EXCEPT ![tab[a].sid] = Gone]
    /\ End(a)
    /\ UNCHANGED <<mode, vault, issued, kept, doubted>>

StartRequest(a, s) ==
    /\ At(a, "idle") /\ s <= issued
    /\ tab' = [tab EXCEPT ![a] = [NoTab EXCEPT !.pc = "select", !.sid = s]]
    /\ UNCHANGED <<mode, sessions, vault, issued, kept, doubted>>

\* SessionUser reads the row; one that expired is deleted.  requireAuth takes
\* a store that fails for a session that is gone.
Select(a) ==
    LET s == tab[a].sid IN
    /\ At(a, "select")
    /\ \/ Live(s) /\ Go(a, "slide") /\ UNCHANGED <<sessions, doubted>>
       \/ /\ ~Live(s) /\ Go(a, "drop")
          /\ sessions' = [sessions EXCEPT ![s] = Gone]
          /\ UNCHANGED doubted
       \/ /\ Go(a, "drop")
          /\ doubted' = doubted \cup {s}
          /\ UNCHANGED sessions
    /\ UNCHANGED <<mode, vault, issued, kept>>

\* The expiry slides, if the row is still there; then the account is read.
Slide(a) ==
    LET s == tab[a].sid IN
    /\ At(a, "slide")
    /\ sessions' = [sessions EXCEPT ![s] = IF @ = Gone THEN @ ELSE TTL]
    /\ \/ /\ IF mode = "forge" THEN Go(a, "get") ELSE End(a)
          /\ UNCHANGED doubted
       \/ /\ Go(a, "drop")
          /\ doubted' = doubted \cup {s}
    /\ UNCHANGED <<mode, vault, issued, kept>>

\* requireAuth drops the token of a session that did not resolve.
Drop(a) ==
    /\ At(a, "drop")
    /\ vault' = [vault EXCEPT ![tab[a].sid] = Gone]
    /\ End(a)
    /\ UNCHANGED <<mode, sessions, issued, kept, doubted>>

\* An entry that is read is as good as new.
Unseen(s) == vault[s]
Seen(s) == 0

\* TokenVault.Get.  Without a token the answer is token_gone and the browser
\* signs in again; with one the request is served (Access).
Get(a) ==
    LET s == tab[a].sid IN
    /\ At(a, "get")
    /\ vault' = [vault EXCEPT ![s] = IF @ = Gone THEN Gone ELSE Seen(s)]
    /\ End(a)
    /\ UNCHANGED <<mode, sessions, issued, kept, doubted>>

\* requireAuth resolves the session, slides it and reads the token in three
\* consecutive calls, and a login issues a session and puts its token in two.
\* A tick is ten minutes: one may fall between them, not two.
Between(a) == tab[a].pc \in {"slide", "get", "put"}

Tick ==
    /\ \A a \in Tab : Between(a) => ~tab[a].aged
    /\ tab' = [a \in Tab |-> IF Between(a) THEN [tab[a] EXCEPT !.aged = TRUE] ELSE tab[a]]
    /\ sessions' = [s \in Session |-> IF Live(s) THEN sessions[s] - 1 ELSE sessions[s]]
    /\ vault' = [s \in Session |->
           IF vault[s] = Gone \/ vault[s] > MaxIdle THEN vault[s] ELSE vault[s] + 1]
    /\ UNCHANGED <<mode, issued, kept, doubted>>

StaleWithRow(s) == vault[s] # Gone /\ vault[s] > MaxIdle /\ sessions[s] # Gone
Stale(s) == vault[s] # Gone /\ vault[s] > MaxIdle

\* PruneIdle, by vaultJanitor.
PruneIdle ==
    /\ mode = "forge"
    /\ vault' = [s \in Session |-> IF Stale(s) THEN Gone ELSE vault[s]]
    /\ UNCHANGED <<mode, sessions, issued, tab, kept, doubted>>

\* The process dies: the vault was in memory, the rows were not.
Restart ==
    /\ tab' = [a \in Tab |-> NoTab]
    /\ vault' = [s \in Session |-> Gone]
    /\ kept' = {}
    /\ UNCHANGED <<mode, sessions, issued, doubted>>

Statement(a) ==
    \/ Issue(a) \/ Put(a) \/ DeleteSession(a)
    \/ Select(a) \/ Slide(a) \/ Drop(a) \/ Get(a)

SignInNext ==
    \/ \E a \in Tab : StartLogin(a) \/ Statement(a)
    \/ \E a \in Tab, s \in Session : StartLogout(a, s) \/ StartRequest(a, s)
    \/ Tick \/ PruneIdle \/ Restart

\* Requests in flight go on, time passes and the janitor's goroutine runs.
\* Nobody need ever send another request.
SignInFairness ==
    /\ \A a \in Tab : WF_signin(Statement(a))
    /\ WF_signin(Tick) /\ WF_signin(PruneIdle)

SignInSpec == SignInInit /\ [][SignInNext]_signin /\ SignInFairness

-----------------------------------------------------------------------------
(* Properties                                                              *)

\* Every variable has its type.
SignInTypeOK ==
    /\ mode \in {"forge", "local"}
    /\ sessions \in [Session -> (-1)..TTL \cup {Gone}]
    /\ vault \in [Session -> 0..(MaxIdle + 1) \cup {Gone}]
    /\ issued \in Nat
    /\ tab \in [Tab -> TabState]
    /\ kept \subseteq Session /\ doubted \subseteq Session

\* The janitor of the vault and the sliding expiry of the store age by
\* different clocks, yet a session that has not expired keeps its token: a
\* user at work is not sent back to the sign-in page, unless the process was
\* restarted, she logged out, or the store failed a lookup of her session.
LiveSessionKeepsToken ==
    \A s \in kept \ doubted : Live(s) => vault[s] # Gone

\* Types, and no live session without its token.
SignInInv == SignInTypeOK /\ LiveSessionKeepsToken

\* No token stays for ever in memory without its session: whatever way the
\* session ended, and if its browser never comes back.
VaultDrains ==
    \A s \in Session : (vault[s] # Gone /\ ~Live(s)) ~> (vault[s] = Gone \/ Live(s))
=============================================================================
