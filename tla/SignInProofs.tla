---------------------------- MODULE SignInProofs ----------------------------
(* A live session keeps its token, for any time to live, any floor of the   *)
(* janitor's idle time, any sessions and any requests in flight.            *)
EXTENDS SignIn, TLAPS

(* The two clocks: a token idles while its session's time runs out, tick by *)
(* tick, so between a slide and the read that follows it their sum tells    *)
(* how far apart they were set.                                             *)

Getting(s) == \E a \in Tab : tab[a].pc = "get" /\ tab[a].sid = s
Late(s)    == \E a \in Tab : tab[a].pc = "get" /\ tab[a].sid = s /\ tab[a].aged
Sliding(s) == \E a \in Tab : tab[a].pc = "slide" /\ tab[a].sid = s

\* Set together, the clocks add up to at most TTL.  A slide sets one ahead; the
\* read that sets the other follows within a tick, and before the next.
TokenOK(s) ==
    /\ Live(s) \/ Sliding(s) => vault[s] # Gone /\ vault[s] <= TTL + 1
    /\ Live(s) /\ ~Late(s) => vault[s] <= TTL
    /\ Live(s) /\ ~Getting(s) => vault[s] + sessions[s] <= TTL

TokensOK == \A s \in kept \ doubted : sessions[s] # Gone => TokenOK(s)

\* What a request knows: the session it is about was issued; a session it is
\* about to slide was live when a tick last fell; a token it is about to drop
\* has no session, or one the store failed to look up.
TabOK(t) ==
    /\ t.pc \notin {"idle", "issue"} => t.sid \in Session /\ t.sid <= issued
    /\ t.aged => t.pc \in {"slide", "get", "put", "drop"}
    /\ t.pc = "drop" => sessions[t.sid] = Gone \/ t.sid \in doubted
    /\ t.pc = "slide" /\ ~t.aged => sessions[t.sid] = Gone \/ Live(t.sid)
    /\ t.pc \in {"put", "get"} => mode = "forge"

TabsOK == \A a \in Tab : TabOK(tab[a])

KeptOK == /\ \A s \in kept : s <= issued
          /\ kept # {} => mode = "forge"

SignInIInv == SignInTypeOK /\ TabsOK /\ KeptOK /\ TokensOK

-----------------------------------------------------------------------------
(* Numbers                                                                 *)

\* A token is reaped only after it idled longer than a session can be ahead.
LEMMA MaxIdleIs == TTL \in Nat /\ MaxIdle \in Nat /\ MaxIdle >= TTL + 1
  BY SignInAssumption DEF SignInAssumption, MaxIdle, MaxOf

\* What a row and an entry hold.
Row == (-1)..TTL \cup {Gone}
Entry == 0..(MaxIdle + 1) \cup {Gone}

\* A row's clock is one of TTL + 2 numbers, or there is no row.
LEMMA RowIs == \A n : n \in Row <=> n = Gone \/ (n \in Int /\ -1 <= n /\ n <= TTL)
  BY MaxIdleIs DEF Row

\* An entry's clock is one of MaxIdle + 2 numbers, or there is no entry.
LEMMA EntryIs == \A n : n \in Entry <=> n = Gone \/ (n \in Nat /\ n <= MaxIdle + 1)
  BY MaxIdleIs DEF Entry

\* A session's number is not Gone, and no clock that runs is.
LEMMA NoSuchNumber == Gone \notin Session /\ (\A n \in Int : n # Gone)
<1>1. \A n \in Int : n # Gone
  BY SignInAssumption DEF SignInAssumption
<1>2. \A s \in Session : s \in Int
  BY SignInAssumption DEF SignInAssumption
<1> QED  BY <1>1, <1>2

\* The type of the two tables, in those words.
LEMMA Tables ==
  SignInTypeOK <=>
    /\ mode \in {"forge", "local"}
    /\ sessions \in [Session -> Row]
    /\ vault \in [Session -> Entry]
    /\ issued \in Nat
    /\ tab \in [Tab -> TabState]
    /\ kept \subseteq Session /\ doubted \subseteq Session
  BY DEF SignInTypeOK, Row, Entry

\* Where there is a row or a token, its clock is a number.
LEMMA Clocks ==
  ASSUME SignInTypeOK
  PROVE  \A s \in Session :
            /\ sessions[s] # Gone => sessions[s] \in Int /\ -1 <= sessions[s] /\ sessions[s] <= TTL
            /\ vault[s] # Gone => vault[s] \in Nat /\ vault[s] <= MaxIdle + 1
  BY Tables, RowIs, EntryIs

-----------------------------------------------------------------------------
(* What a step does to the requests in flight                              *)

\* A request that is not there has its type.
LEMMA NoTabOK ==
  NoTab \in TabState /\ NoTab.pc = "idle" /\ NoTab.sid = Gone /\ ~NoTab.aged
  BY DEF NoTab, TabState

\* A request that goes on to its next statement keeps its locals.
LEMMA GoIs ==
  ASSUME tab \in [Tab -> TabState], NEW a \in Tab,
         NEW pc \in {"issue", "slide", "get", "drop"}, Go(a, pc)
  PROVE  /\ tab' \in [Tab -> TabState]
         /\ \A b \in Tab : b # a => tab'[b] = tab[b]
         /\ tab'[a].pc = pc /\ tab'[a].sid = tab[a].sid /\ tab'[a].aged = tab[a].aged
<1> DEFINE new == [tab[a] EXCEPT !.pc = pc]
<1>1. tab[a] \in TabState
  OBVIOUS
<1>2. new \in TabState /\ new.pc = pc /\ new.sid = tab[a].sid /\ new.aged = tab[a].aged
  BY <1>1 DEF TabState
<1>3. tab' = [tab EXCEPT ![a] = new]
  BY DEF Go
<1> HIDE DEF new
<1>4. tab'[a] = new /\ \A b \in Tab : b # a => tab'[b] = tab[b]
  BY <1>3
<1> QED  BY <1>2, <1>3, <1>4

\* A request that ends leaves nothing.
LEMMA EndIs ==
  ASSUME tab \in [Tab -> TabState], NEW a \in Tab, End(a)
  PROVE  /\ tab' \in [Tab -> TabState]
         /\ \A b \in Tab : b # a => tab'[b] = tab[b]
         /\ tab'[a].pc = "idle" /\ ~tab'[a].aged
<1>1. tab'[a] = NoTab /\ \A b \in Tab : b # a => tab'[b] = tab[b]
  BY DEF End
<1> QED  BY <1>1, NoTabOK DEF End

\* A request that starts knows its session and no tick.
LEMMA BeginIs ==
  ASSUME tab \in [Tab -> TabState], NEW a \in Tab, NEW s \in Session,
         NEW pc \in {"put", "select", "logout"},
         tab' = [tab EXCEPT ![a] = [NoTab EXCEPT !.pc = pc, !.sid = s]]
  PROVE  /\ tab' \in [Tab -> TabState]
         /\ \A b \in Tab : b # a => tab'[b] = tab[b]
         /\ tab'[a].pc = pc /\ tab'[a].sid = s /\ ~tab'[a].aged
<1> DEFINE new == [NoTab EXCEPT !.pc = pc, !.sid = s]
<1>1. new \in TabState /\ new.pc = pc /\ new.sid = s /\ ~new.aged
  BY NoTabOK DEF TabState
<1>2. tab' = [tab EXCEPT ![a] = new]
  OBVIOUS
<1> HIDE DEF new
<1>3. tab'[a] = new /\ \A b \in Tab : b # a => tab'[b] = tab[b]
  BY <1>2
<1> QED  BY <1>1, <1>2, <1>3

\* A login that a local account made holds no token; the forge's goes on to it.
LEMMA IssueIs ==
  ASSUME tab \in [Tab -> TabState], NEW a \in Tab, Issue(a)
  PROVE  /\ tab' \in [Tab -> TabState]
         /\ \A b \in Tab : b # a => tab'[b] = tab[b]
         /\ tab'[a].pc = "put" => mode = "forge" /\ tab'[a].sid = issued + 1
         /\ tab'[a].pc \in {"put", "idle"} /\ ~tab'[a].aged
<1>1. CASE mode = "forge"
  <2>1. tab' = [tab EXCEPT ![a] = [NoTab EXCEPT !.pc = "put", !.sid = issued + 1]]
    BY <1>1 DEF Issue
  <2>2. issued + 1 \in Session
    BY DEF Issue
  <2> QED  BY <1>1, <2>1, <2>2, BeginIs
<1>2. CASE mode # "forge"
  <2>1. End(a)
    BY <1>2 DEF Issue, End
  <2> QED  BY <2>1, EndIs
<1> QED  BY <1>1, <1>2

\* A tick marks the requests between two statements.
LEMMA TickIs ==
  ASSUME tab \in [Tab -> TabState], Tick
  PROVE  /\ tab' \in [Tab -> TabState]
         /\ \A b \in Tab : tab'[b].pc = tab[b].pc /\ tab'[b].sid = tab[b].sid
         /\ \A b \in Tab : tab'[b].aged <=> Between(b) \/ tab[b].aged
<1>1. ASSUME NEW b \in Tab
      PROVE  /\ tab'[b] \in TabState
             /\ tab'[b].pc = tab[b].pc /\ tab'[b].sid = tab[b].sid
             /\ tab'[b].aged <=> Between(b) \/ tab[b].aged
  <2> DEFINE new == [tab[b] EXCEPT !.aged = TRUE]
  <2>1. tab[b] \in TabState
    OBVIOUS
  <2>2. new \in TabState /\ new.pc = tab[b].pc /\ new.sid = tab[b].sid /\ new.aged
    BY <2>1 DEF TabState
  <2>3. tab'[b] = IF Between(b) THEN new ELSE tab[b]
    BY <1>1 DEF Tick
  <2> HIDE DEF new
  <2> QED  BY <2>1, <2>2, <2>3
<1>2. DOMAIN tab' = Tab /\ tab' = [b \in Tab |-> tab'[b]]
  BY DEF Tick
<1> QED  BY <1>1, <1>2

-----------------------------------------------------------------------------
(* Types                                                                   *)

\* A statement about a session finds one that was issued.
LEMMA KnowsItsSession ==
  ASSUME TabsOK, NEW a \in Tab, tab[a].pc \notin {"idle", "issue"}
  PROVE  tab[a].sid \in Session /\ tab[a].sid <= issued
  BY DEF TabsOK, TabOK

\* Every step keeps the types.
LEMMA StepType ==
  ASSUME SignInTypeOK, TabsOK, [SignInNext]_signin
  PROVE  SignInTypeOK'
<1> USE MaxIdleIs
<1>0. /\ mode \in {"forge", "local"}
      /\ sessions \in [Session -> Row]
      /\ vault \in [Session -> Entry]
      /\ issued \in Nat
      /\ tab \in [Tab -> TabState]
      /\ kept \subseteq Session /\ doubted \subseteq Session
  BY Tables
<1>t. ASSUME /\ mode' \in {"forge", "local"}
             /\ sessions' \in [Session -> Row]
             /\ vault' \in [Session -> Entry]
             /\ issued' \in Nat
             /\ tab' \in [Tab -> TabState]
             /\ kept' \subseteq Session /\ doubted' \subseteq Session
      PROVE  SignInTypeOK'
  BY <1>t DEF SignInTypeOK, Row, Entry
<1>g. Gone \in Row /\ Gone \in Entry /\ TTL \in Row /\ 0 \in Entry
  BY RowIs, EntryIs
<1>5. ASSUME NEW a \in Tab, StartLogin(a) PROVE SignInTypeOK'
  BY <1>0, <1>t, <1>5, GoIs DEF StartLogin
<1>6. ASSUME NEW a \in Tab, Issue(a) PROVE SignInTypeOK'
  <2>1. tab' \in [Tab -> TabState]
    BY <1>0, <1>6, IssueIs
  <2>2. sessions' \in [Session -> Row]
    BY <1>0, <1>g, <1>6 DEF Issue
  <2>3. issued' \in Nat
    BY <1>0, <1>6 DEF Issue
  <2> QED  BY <1>0, <1>t, <1>6, <2>1, <2>2, <2>3 DEF Issue
<1>7. ASSUME NEW a \in Tab, Put(a) PROVE SignInTypeOK'
  <2>1. tab[a].sid \in Session
    BY <1>7, KnowsItsSession DEF Put, At
  <2>2. vault' \in [Session -> Entry]
    BY <1>0, <1>g, <1>7 DEF Put
  <2> QED  BY <1>0, <1>t, <1>7, <2>1, <2>2, EndIs DEF Put
<1>8. ASSUME NEW a \in Tab, DeleteSession(a) PROVE SignInTypeOK'
  <2>1. sessions' \in [Session -> Row]
    BY <1>0, <1>g, <1>8 DEF DeleteSession
  <2> QED  BY <1>0, <1>t, <1>8, <2>1, EndIs DEF DeleteSession
<1>9. ASSUME NEW a \in Tab, Select(a) PROVE SignInTypeOK'
  <2>1. tab[a].sid \in Session
    BY <1>9, KnowsItsSession DEF Select, At
  <2>2. sessions' \in [Session -> Row] /\ doubted' \subseteq Session
    BY <1>0, <1>g, <1>9, <2>1 DEF Select
  <2>3. tab' \in [Tab -> TabState]
    BY <1>0, <1>9, GoIs DEF Select
  <2> QED  BY <1>0, <1>t, <1>9, <2>2, <2>3 DEF Select
<1>10. ASSUME NEW a \in Tab, Slide(a) PROVE SignInTypeOK'
  <2>1. tab[a].sid \in Session
    BY <1>10, KnowsItsSession DEF Slide, At
  <2>2. sessions' = [sessions EXCEPT ![tab[a].sid] =
                       IF sessions[tab[a].sid] = Gone THEN sessions[tab[a].sid] ELSE TTL]
    BY <1>10 DEF Slide
  <2>3. sessions' \in [Session -> Row]
    BY <1>0, <1>g, <2>1, <2>2
  <2>4. tab' \in [Tab -> TabState]
    BY <1>0, <1>10, GoIs, EndIs DEF Slide
  <2>5. doubted' \subseteq Session
    BY <1>0, <1>10, <2>1 DEF Slide
  <2> QED  BY <1>0, <1>t, <1>10, <2>3, <2>4, <2>5 DEF Slide
<1>11. ASSUME NEW a \in Tab, Drop(a) PROVE SignInTypeOK'
  <2>1. vault' \in [Session -> Entry]
    BY <1>0, <1>g, <1>11 DEF Drop
  <2> QED  BY <1>0, <1>t, <1>11, <2>1, EndIs DEF Drop
<1>12. ASSUME NEW a \in Tab, Get(a) PROVE SignInTypeOK'
  <2>1. vault' \in [Session -> Entry]
    BY <1>0, <1>g, <1>12 DEF Get, Seen
  <2> QED  BY <1>0, <1>t, <1>12, <2>1, EndIs DEF Get
<1>13. ASSUME NEW a \in Tab, NEW s \in Session, StartLogout(a, s) PROVE SignInTypeOK'
  <2>1. vault' \in [Session -> Entry]
    BY <1>0, <1>g, <1>13 DEF StartLogout
  <2>2. tab' \in [Tab -> TabState]
    BY <1>0, <1>13, BeginIs DEF StartLogout
  <2> QED  BY <1>0, <1>t, <1>13, <2>1, <2>2 DEF StartLogout
<1>14. ASSUME NEW a \in Tab, NEW s \in Session, StartRequest(a, s) PROVE SignInTypeOK'
  <2>1. tab' \in [Tab -> TabState]
    BY <1>0, <1>14, BeginIs DEF StartRequest
  <2> QED  BY <1>0, <1>t, <1>14, <2>1 DEF StartRequest
<1>15. CASE Tick
  <2>1. ASSUME NEW s \in Session
        PROVE  (IF Live(s) THEN sessions[s] - 1 ELSE sessions[s]) \in Row
    <3>1. sessions[s] \in Row
      BY <1>0
    <3>2. Live(s) => sessions[s] - 1 \in Row
      BY <3>1, RowIs DEF Live
    <3> QED  BY <3>1, <3>2
  <2>2. ASSUME NEW s \in Session
        PROVE  (IF vault[s] = Gone \/ vault[s] > MaxIdle THEN vault[s] ELSE vault[s] + 1) \in Entry
    <3>1. vault[s] \in Entry
      BY <1>0
    <3>2. vault[s] # Gone /\ ~(vault[s] > MaxIdle) => vault[s] + 1 \in Entry
      BY <3>1, EntryIs
    <3> QED  BY <3>1, <3>2
  <2>3. sessions' \in [Session -> Row]
    BY <1>15, <2>1 DEF Tick
  <2>4. vault' \in [Session -> Entry]
    BY <1>15, <2>2 DEF Tick
  <2> QED  BY <1>0, <1>t, <1>15, <2>3, <2>4, TickIs DEF Tick
<1>16. CASE PruneIdle
  <2>1. vault' \in [Session -> Entry]
    BY <1>0, <1>g, <1>16 DEF PruneIdle
  <2> QED  BY <1>0, <1>t, <1>16, <2>1 DEF PruneIdle
<1>17. CASE Restart
  <2>1. vault' \in [Session -> Entry] /\ tab' \in [Tab -> TabState]
    BY <1>g, <1>17, NoTabOK DEF Restart
  <2> QED  BY <1>0, <1>t, <1>17, <2>1 DEF Restart
<1>18. CASE UNCHANGED signin
  BY <1>18 DEF signin, SignInTypeOK
<1> QED
  BY <1>5, <1>6, <1>7, <1>8, <1>9, <1>10, <1>11, <1>12, <1>13, <1>14, <1>15, <1>16,
     <1>17, <1>18 DEF SignInNext, Statement

-----------------------------------------------------------------------------
(* What the requests know                                                  *)

\* Every step keeps what the requests know.  A row never comes back, a session
\* that is looked up stays live until the next tick, and a doubt stays.
LEMMA StepTabs ==
  ASSUME SignInTypeOK, TabsOK, SignInTypeOK', [SignInNext]_signin
  PROVE  TabsOK'
<1>0. tab \in [Tab -> TabState] /\ issued \in Nat /\ issued' \in Nat /\ TTL \in Nat
  BY MaxIdleIs DEF SignInTypeOK
<1>n. /\ \A s \in Session : s \in Nat
      /\ Gone \notin Session /\ (\A n \in Int : n # Gone)
  BY NoSuchNumber, SignInAssumption DEF SignInAssumption
<1>t. \A b \in Tab : /\ tab[b].pc \notin {"idle", "issue"} => tab[b].sid \in Session /\ tab[b].sid <= issued
                     /\ tab[b].aged => tab[b].pc \in {"slide", "get", "put", "drop"}
                     /\ tab[b].pc = "drop" => sessions[tab[b].sid] = Gone \/ tab[b].sid \in doubted
                     /\ tab[b].pc = "slide" /\ ~tab[b].aged => sessions[tab[b].sid] = Gone \/ Live(tab[b].sid)
                     /\ tab[b].pc \in {"put", "get"} => mode = "forge"
  BY DEF TabsOK, TabOK
\* The others know what they knew.
<1>o. ASSUME NEW b \in Tab, tab'[b] = tab[b], mode' = mode, issued' >= issued,
             doubted \subseteq doubted',
             \A s \in Session : s <= issued =>
                /\ sessions[s] = Gone => sessions'[s] = Gone
                /\ Live(s) => sessions'[s] = Gone \/ Live(s)'
      PROVE  TabOK(tab[b])'
  <2>1. tab[b].pc \notin {"idle", "issue"} => tab[b].sid \in Session /\ tab[b].sid <= issued /\ tab[b].sid <= issued'
    BY <1>o, <1>t, <1>n, <1>0
  <2> QED  BY <1>o, <1>t, <2>1 DEF TabOK
<1>1. ASSUME NEW a \in Tab, StartLogin(a) PROVE TabsOK'
  <2>1. TabOK(tab[a])'
    BY <1>0, <1>1, <1>t, GoIs DEF StartLogin, TabOK, At
  <2>2. ASSUME NEW b \in Tab, b # a PROVE TabOK(tab[b])'
    BY <1>0, <1>1, <1>o, <2>2, GoIs DEF StartLogin, Live
  <2> QED  BY <2>1, <2>2 DEF TabsOK
<1>2. ASSUME NEW a \in Tab, Issue(a) PROVE TabsOK'
  <2>1. TabOK(tab[a])'
    <3>1. /\ tab'[a].pc = "put" => mode = "forge" /\ tab'[a].sid = issued + 1
          /\ tab'[a].pc \in {"put", "idle"} /\ ~tab'[a].aged
      BY <1>0, <1>2, IssueIs
    <3>2. issued + 1 \in Session /\ issued' = issued + 1 /\ mode' = mode
      BY <1>2 DEF Issue
    <3> QED  BY <1>0, <3>1, <3>2 DEF TabOK
  <2>2. \A s \in Session : s <= issued => sessions'[s] = IF Live(s) THEN sessions[s] ELSE Gone
    BY <1>0, <1>n, <1>2 DEF Issue
  <2>3. ASSUME NEW b \in Tab, b # a PROVE TabOK(tab[b])'
    <3>1. issued' >= issued /\ mode' = mode /\ doubted' = doubted
      BY <1>0, <1>2 DEF Issue
    <3>2. tab'[b] = tab[b]
      BY <1>0, <1>2, <2>3, IssueIs
    <3>3. \A s \in Session : s <= issued =>
             /\ sessions[s] = Gone => sessions'[s] = Gone
             /\ Live(s) => sessions'[s] = Gone \/ Live(s)'
      BY <2>2 DEF Live
    <3> QED  BY <1>o, <3>1, <3>2, <3>3
  <2> QED  BY <2>1, <2>3 DEF TabsOK
<1>3. ASSUME NEW a \in Tab, Put(a) PROVE TabsOK'
  <2>1. TabOK(tab[a])'
    BY <1>0, <1>3, EndIs DEF Put, TabOK
  <2>2. ASSUME NEW b \in Tab, b # a PROVE TabOK(tab[b])'
    BY <1>0, <1>3, <1>o, <2>2, EndIs DEF Put, Live
  <2> QED  BY <2>1, <2>2 DEF TabsOK
<1>4. ASSUME NEW a \in Tab, DeleteSession(a) PROVE TabsOK'
  <2>1. TabOK(tab[a])'
    BY <1>0, <1>4, EndIs DEF DeleteSession, TabOK
  <2>2. \A s \in Session : sessions'[s] = sessions[s] \/ sessions'[s] = Gone
    BY <1>4 DEF DeleteSession, SignInTypeOK
  <2>3. ASSUME NEW b \in Tab, b # a PROVE TabOK(tab[b])'
    BY <1>0, <1>4, <1>o, <2>2, <2>3, EndIs DEF DeleteSession, Live
  <2> QED  BY <2>1, <2>3 DEF TabsOK
<1>5. ASSUME NEW a \in Tab, Select(a) PROVE TabsOK'
  <2>0. tab[a].sid \in Session /\ tab[a].sid <= issued /\ ~tab[a].aged
    BY <1>5, <1>t DEF Select, At
  <2>1. \A s \in Session : sessions'[s] = sessions[s] \/ sessions'[s] = Gone
    BY <1>5 DEF Select, SignInTypeOK
  <2>2. \A b \in Tab : b # a => tab'[b] = tab[b]
    BY <1>0, <1>5, GoIs DEF Select
  <2>3. TabOK(tab[a])'
    <3>1. CASE Live(tab[a].sid) /\ Go(a, "slide") /\ UNCHANGED <<sessions, doubted>>
      <4>1. tab'[a].pc = "slide" /\ tab'[a].sid = tab[a].sid /\ tab'[a].aged = tab[a].aged
        BY <1>0, <3>1, GoIs
      <4> QED  BY <1>5, <2>0, <3>1, <4>1 DEF Select, TabOK, Live
    <3>2. CASE Go(a, "drop") /\ (sessions'[tab[a].sid] = Gone \/ tab[a].sid \in doubted')
      <4>1. tab'[a].pc = "drop" /\ tab'[a].sid = tab[a].sid /\ tab'[a].aged = tab[a].aged
        BY <1>0, <3>2, GoIs
      <4> QED  BY <1>5, <2>0, <3>2, <4>1 DEF Select, TabOK
    <3>3. sessions' = [sessions EXCEPT ![tab[a].sid] = Gone] => sessions'[tab[a].sid] = Gone
      BY <2>0 DEF SignInTypeOK
    <3> QED  BY <1>5, <3>1, <3>2, <3>3 DEF Select
  <2>4. ASSUME NEW b \in Tab, b # a PROVE TabOK(tab[b])'
    <3>1. doubted \subseteq doubted' /\ mode' = mode /\ issued' >= issued
      BY <1>0, <1>5 DEF Select
    <3> QED  BY <1>o, <2>1, <2>2, <2>4, <3>1 DEF Live
  <2> QED  BY <2>3, <2>4 DEF TabsOK
<1>6. ASSUME NEW a \in Tab, Slide(a) PROVE TabsOK'
  <2>0. tab[a].sid \in Session /\ tab[a].sid <= issued
    BY <1>6, <1>t DEF Slide, At
  <2>1. \A s \in Session : sessions'[s] = IF s = tab[a].sid /\ sessions[s] # Gone THEN TTL ELSE sessions[s]
    BY <1>6, <2>0 DEF Slide, SignInTypeOK
  <2>2. \A b \in Tab : b # a => tab'[b] = tab[b]
    BY <1>0, <1>6, GoIs, EndIs DEF Slide
  <2>3. TabOK(tab[a])'
    <3>1. CASE mode = "forge" /\ Go(a, "get") /\ UNCHANGED doubted
      <4>1. tab'[a].pc = "get" /\ tab'[a].sid = tab[a].sid /\ tab'[a].aged = tab[a].aged
        BY <1>0, <3>1, GoIs
      <4> QED  BY <1>6, <2>0, <3>1, <4>1 DEF Slide, TabOK
    <3>2. CASE End(a)
      BY <1>0, <3>2, EndIs DEF TabOK
    <3>3. CASE Go(a, "drop") /\ tab[a].sid \in doubted'
      <4>1. tab'[a].pc = "drop" /\ tab'[a].sid = tab[a].sid /\ tab'[a].aged = tab[a].aged
        BY <1>0, <3>3, GoIs
      <4> QED  BY <1>6, <2>0, <3>3, <4>1 DEF Slide, TabOK
    <3> QED  BY <1>6, <3>1, <3>2, <3>3 DEF Slide
  <2>4. ASSUME NEW b \in Tab, b # a PROVE TabOK(tab[b])'
    <3>1. doubted \subseteq doubted' /\ mode' = mode /\ issued' >= issued
      BY <1>0, <1>6 DEF Slide
    <3>2. \A s \in Session : /\ sessions[s] = Gone => sessions'[s] = Gone
                             /\ Live(s) => Live(s)'
      BY <1>0, <1>n, <2>1 DEF Live
    <3> QED  BY <1>o, <2>2, <2>4, <3>1, <3>2
  <2> QED  BY <2>3, <2>4 DEF TabsOK
<1>7. ASSUME NEW a \in Tab, Drop(a) PROVE TabsOK'
  <2>1. TabOK(tab[a])'
    BY <1>0, <1>7, EndIs DEF Drop, TabOK
  <2>2. ASSUME NEW b \in Tab, b # a PROVE TabOK(tab[b])'
    BY <1>0, <1>7, <1>o, <2>2, EndIs DEF Drop, Live
  <2> QED  BY <2>1, <2>2 DEF TabsOK
<1>8. ASSUME NEW a \in Tab, Get(a) PROVE TabsOK'
  <2>1. TabOK(tab[a])'
    BY <1>0, <1>8, EndIs DEF Get, TabOK
  <2>2. ASSUME NEW b \in Tab, b # a PROVE TabOK(tab[b])'
    BY <1>0, <1>8, <1>o, <2>2, EndIs DEF Get, Live
  <2> QED  BY <2>1, <2>2 DEF TabsOK
<1>9. ASSUME NEW a \in Tab, NEW s \in Session, StartLogout(a, s) PROVE TabsOK'
  <2>1. TabOK(tab[a])'
    BY <1>0, <1>9, BeginIs DEF StartLogout, TabOK
  <2>2. \A b \in Tab : b # a => tab'[b] = tab[b]
    BY <1>0, <1>9, BeginIs DEF StartLogout
  <2>3. ASSUME NEW b \in Tab, b # a PROVE TabOK(tab[b])'
    BY <1>0, <1>9, <1>o, <2>2, <2>3 DEF StartLogout, Live
  <2> QED  BY <2>1, <2>3 DEF TabsOK
<1>10. ASSUME NEW a \in Tab, NEW s \in Session, StartRequest(a, s) PROVE TabsOK'
  <2>1. TabOK(tab[a])'
    BY <1>0, <1>10, BeginIs DEF StartRequest, TabOK
  <2>2. \A b \in Tab : b # a => tab'[b] = tab[b]
    BY <1>0, <1>10, BeginIs DEF StartRequest
  <2>3. ASSUME NEW b \in Tab, b # a PROVE TabOK(tab[b])'
    BY <1>0, <1>10, <1>o, <2>2, <2>3 DEF StartRequest, Live
  <2> QED  BY <2>1, <2>3 DEF TabsOK
<1>11. CASE Tick
  <2>1. mode' = mode /\ issued' = issued /\ doubted' = doubted
    BY <1>11 DEF Tick
  <2>2. \A s \in Session : sessions[s] = Gone => sessions'[s] = Gone
    BY <1>11 DEF Tick, Live
  <2>3. ASSUME NEW b \in Tab PROVE TabOK(tab[b])'
    <3>1. /\ tab'[b].pc = tab[b].pc /\ tab'[b].sid = tab[b].sid
          /\ tab'[b].aged <=> Between(b) \/ tab[b].aged
      BY <1>0, <1>11, TickIs
    <3> QED  BY <1>t, <2>1, <2>2, <3>1 DEF TabOK, Between
  <2> QED  BY <2>3 DEF TabsOK
<1>12. CASE PruneIdle
  BY <1>12 DEF PruneIdle, TabsOK, TabOK, Live
<1>13. CASE Restart
  <2>1. \A b \in Tab : tab'[b] = NoTab
    BY <1>13 DEF Restart
  <2> QED  BY <2>1, NoTabOK DEF TabsOK, TabOK
<1>14. CASE UNCHANGED signin
  BY <1>14 DEF signin, TabsOK, TabOK, Live
<1> QED
  BY <1>1, <1>2, <1>3, <1>4, <1>5, <1>6, <1>7, <1>8, <1>9, <1>10, <1>11, <1>12,
     <1>13, <1>14 DEF SignInNext, Statement

\* Only a session that was issued is signed in, and only where the forge's
\* token says who it is.
LEMMA StepKept ==
  ASSUME SignInTypeOK, TabsOK, KeptOK, [SignInNext]_signin
  PROVE  KeptOK'
<1>0. issued \in Nat /\ kept \subseteq Session /\ \A s \in Session : s \in Nat
  BY SignInAssumption DEF SignInTypeOK, SignInAssumption
<1>1. ASSUME NEW a \in Tab, Issue(a) PROVE KeptOK'
  BY <1>0, <1>1 DEF Issue, KeptOK
<1>2. ASSUME NEW a \in Tab, Put(a) PROVE KeptOK'
  BY <1>0, <1>2 DEF Put, At, KeptOK, TabsOK, TabOK
<1>3. ASSUME NEW a \in Tab, NEW s \in Session, StartLogout(a, s) PROVE KeptOK'
  BY <1>3 DEF StartLogout, KeptOK
<1>4. CASE Restart
  BY <1>4 DEF Restart, KeptOK
<1>5. ASSUME kept' = kept, issued' = issued, mode' = mode PROVE KeptOK'
  BY <1>5 DEF KeptOK
<1> QED
  BY <1>1, <1>2, <1>3, <1>4, <1>5 DEF SignInNext, Statement, StartLogin, DeleteSession,
     Select, Slide, Drop, Get, StartRequest, Tick, PruneIdle, signin

-----------------------------------------------------------------------------
(* The two clocks                                                          *)

\* A step of a request that neither slides a session nor is about to read its
\* token, before or after, changes nobody's being late.
LEMMA Apart ==
  ASSUME SignInTypeOK, NEW a \in Tab, NEW s,
         \A b \in Tab : b # a => tab'[b] = tab[b],
         tab[a].pc \notin {"get", "slide"} \/ tab[a].sid # s,
         tab'[a].pc \notin {"get", "slide"} \/ tab'[a].sid # s
  PROVE  /\ Getting(s)' <=> Getting(s)
         /\ Late(s)' <=> Late(s)
         /\ Sliding(s)' <=> Sliding(s)
<1>1. Getting(s)' <=> Getting(s)
  BY DEF Getting
<1>2. Late(s)' <=> Late(s)
  BY DEF Late
<1>3. Sliding(s)' <=> Sliding(s)
  BY DEF Sliding
<1> QED  BY <1>1, <1>2, <1>3

\* The clocks of a session are what they were.
Undisturbed(s) ==
  /\ sessions'[s] = sessions[s] /\ vault'[s] = vault[s]
  /\ Getting(s)' <=> Getting(s)
  /\ Late(s)' <=> Late(s)
  /\ Sliding(s)' => Sliding(s) \/ Live(s)

\* Then they are as far apart as they were.
LEMMA Rest ==
  ASSUME NEW s, TokenOK(s), Undisturbed(s)
  PROVE  TokenOK(s)'
  BY DEF TokenOK, Undisturbed, Live

\* Every step keeps the clocks of every session that was signed in here as
\* near to each other as they have to be.
LEMMA StepTokens ==
  ASSUME SignInTypeOK, TabsOK, KeptOK, TokensOK, [SignInNext]_signin
  PROVE  TokensOK'
<1> SUFFICES ASSUME NEW s \in kept' \ doubted', sessions'[s] # Gone
             PROVE  TokenOK(s)'
  BY DEF TokensOK
<1>0. tab \in [Tab -> TabState] /\ TTL \in Nat /\ MaxIdle \in Nat /\ MaxIdle >= TTL + 1
  BY MaxIdleIs DEF SignInTypeOK
<1>n. \A n \in Int : n # Gone
  BY NoSuchNumber
<1>d. /\ DOMAIN vault = Session /\ DOMAIN sessions = Session
      /\ \A r \in Session : r \in Nat
      /\ issued \in Nat /\ kept \subseteq Session
  BY SignInAssumption DEF SignInTypeOK, SignInAssumption
<1>k. ASSUME s \in kept, s \notin doubted, sessions[s] # Gone
      PROVE  /\ TokenOK(s) /\ s \in Session /\ s <= issued
             /\ sessions[s] \in Int /\ -1 <= sessions[s] /\ sessions[s] <= TTL
             /\ vault[s] # Gone => vault[s] \in Nat /\ vault[s] <= MaxIdle + 1
  BY <1>d, <1>k, Clocks DEF TokensOK, KeptOK
<1>1. ASSUME NEW a \in Tab, StartLogin(a) PROVE TokenOK(s)'
  <2>1. \A b \in Tab : b # a => tab'[b] = tab[b]
    BY <1>0, <1>1, GoIs DEF StartLogin
  <2>2. tab[a].pc = "idle" /\ tab'[a].pc = "issue"
    BY <1>0, <1>1, GoIs DEF StartLogin, At
  <2> QED  BY <1>k, <1>1, <2>1, <2>2, Apart, Rest DEF StartLogin, Undisturbed
<1>2. ASSUME NEW a \in Tab, Issue(a) PROVE TokenOK(s)'
  <2>1. \A b \in Tab : b # a => tab'[b] = tab[b]
    BY <1>0, <1>2, IssueIs
  <2>2. tab[a].pc = "issue" /\ tab'[a].pc \in {"put", "idle"}
    BY <1>0, <1>2, IssueIs DEF Issue, At
  <2>3. s \in kept /\ s \notin doubted /\ s \in Session /\ s <= issued
    BY <1>2, <1>d DEF Issue, KeptOK
  <2>4. sessions'[s] = sessions[s] /\ vault'[s] = vault[s]
    BY <1>2, <1>d, <2>3 DEF Issue
  <2> QED  BY <1>k, <2>1, <2>2, <2>3, <2>4, Apart, Rest DEF Undisturbed
<1>3. ASSUME NEW a \in Tab, Put(a) PROVE TokenOK(s)'
  <2>1. \A b \in Tab : b # a => tab'[b] = tab[b]
    BY <1>0, <1>3, EndIs DEF Put
  <2>2. tab[a].pc = "put" /\ tab'[a].pc = "idle"
    BY <1>0, <1>3, EndIs DEF Put, At
  <2>3. tab[a].sid \in Session /\ sessions' = sessions /\ doubted' = doubted
    BY <1>3, <2>2, KnowsItsSession DEF Put
  <2>4. CASE s = tab[a].sid
    <3>1. vault'[s] = 0
      BY <1>3, <1>d, <2>3, <2>4 DEF Put
    <3>2. sessions'[s] \in Int /\ sessions'[s] <= TTL
      BY <2>3, <2>4, Clocks
    <3> QED  BY <1>0, <1>n, <3>1, <3>2 DEF TokenOK
  <2>5. CASE s # tab[a].sid
    <3>1. s \in kept /\ vault'[s] = vault[s]
      BY <1>3, <1>d, <2>5 DEF Put
    <3> QED  BY <1>k, <2>1, <2>2, <2>3, <3>1, Apart, Rest DEF Undisturbed
  <2> QED  BY <2>4, <2>5
<1>4. ASSUME NEW a \in Tab, DeleteSession(a) PROVE TokenOK(s)'
  <2>1. \A b \in Tab : b # a => tab'[b] = tab[b]
    BY <1>0, <1>4, EndIs DEF DeleteSession
  <2>2. tab[a].pc = "logout" /\ tab'[a].pc = "idle"
    BY <1>0, <1>4, EndIs DEF DeleteSession, At
  <2>3. s \in Session /\ s \in kept /\ s \notin doubted /\ vault' = vault
    BY <1>4, <1>d DEF DeleteSession
  <2>4. sessions'[s] = sessions[s]
    BY <1>4, <1>d, <2>3 DEF DeleteSession
  <2> QED  BY <1>k, <2>1, <2>2, <2>3, <2>4, Apart, Rest DEF Undisturbed
<1>5. ASSUME NEW a \in Tab, Select(a) PROVE TokenOK(s)'
  <2>1. \A b \in Tab : b # a => tab'[b] = tab[b]
    BY <1>0, <1>5, GoIs DEF Select
  <2>2. s \in Session /\ s \in kept /\ s \notin doubted /\ vault' = vault
    BY <1>5, <1>d DEF Select
  <2>3. sessions'[s] = sessions[s]
    BY <1>5, <1>d, <2>2 DEF Select
  <2>4. CASE Go(a, "drop")
    <3>1. tab[a].pc = "select" /\ tab'[a].pc = "drop"
      BY <1>0, <1>5, <2>4, GoIs DEF Select, At
    <3> QED  BY <1>k, <2>1, <2>2, <2>3, <3>1, Apart, Rest DEF Undisturbed
  <2>5. CASE Go(a, "slide") /\ Live(tab[a].sid)
    <3>1. tab[a].pc = "select" /\ tab'[a].pc = "slide" /\ tab'[a].sid = tab[a].sid
      BY <1>0, <1>5, <2>5, GoIs DEF Select, At
    <3>2. Getting(s)' <=> Getting(s)
      BY <2>1, <3>1 DEF Getting
    <3>3. Late(s)' <=> Late(s)
      BY <2>1, <3>1 DEF Late
    <3>4. Sliding(s)' => Sliding(s) \/ Live(s)
      BY <2>1, <2>5, <3>1 DEF Sliding
    <3> QED  BY <1>k, <2>2, <2>3, <3>2, <3>3, <3>4, Rest DEF Undisturbed
  <2> QED  BY <1>5, <2>4, <2>5 DEF Select
<1>6. ASSUME NEW a \in Tab, Slide(a) PROVE TokenOK(s)'
  <2>1. \A b \in Tab : b # a => tab'[b] = tab[b]
    BY <1>0, <1>6, GoIs, EndIs DEF Slide
  <2>2. /\ s \in Session /\ s \in kept /\ s \notin doubted /\ vault' = vault
        /\ mode = "forge" /\ tab[a].pc = "slide" /\ tab[a].sid \in Session
    BY <1>6, <1>d, KnowsItsSession DEF Slide, At, KeptOK
  <2>3. sessions'[s] = IF s = tab[a].sid /\ sessions[s] # Gone THEN TTL ELSE sessions[s]
    BY <1>6, <1>d, <2>2 DEF Slide
  <2>4. CASE s # tab[a].sid
    <3>1. tab'[a].pc \notin {"get", "slide"} \/ tab'[a].sid # s
      BY <1>0, <1>6, <2>4, GoIs, EndIs DEF Slide
    <3> QED  BY <1>k, <2>1, <2>2, <2>3, <2>4, <3>1, Apart, Rest DEF Undisturbed
  <2>5. CASE s = tab[a].sid
    <3>1. Go(a, "get")
      BY <1>6, <2>2, <2>5 DEF Slide
    <3>2. tab'[a].pc = "get" /\ tab'[a].sid = s /\ tab'[a].aged = tab[a].aged
      BY <1>0, <2>5, <3>1, GoIs
    <3>3. sessions[s] # Gone /\ sessions'[s] = TTL
      BY <2>3, <2>5
    <3>4. Sliding(s) /\ TokenOK(s) /\ (vault[s] # Gone => vault[s] \in Nat)
      BY <1>k, <2>2, <2>5, <3>3 DEF Sliding
    <3>5. Getting(s)'
      BY <3>2 DEF Getting
    <3>6. vault'[s] # Gone /\ vault'[s] <= TTL + 1
      BY <2>2, <3>4 DEF TokenOK
    <3>7. ~Late(s)' => vault'[s] <= TTL
      <4>1. ASSUME ~Late(s)' PROVE ~Late(s) /\ ~tab[a].aged
        BY <2>1, <2>2, <3>2, <4>1 DEF Late
      <4>2. ~tab[a].aged => Live(s)
        BY <2>2, <2>5, <3>3 DEF TabsOK, TabOK
      <4> QED  BY <2>2, <3>4, <4>1, <4>2 DEF TokenOK
    <3> QED  BY <3>5, <3>6, <3>7 DEF TokenOK
  <2> QED  BY <2>4, <2>5
<1>7. ASSUME NEW a \in Tab, Drop(a) PROVE TokenOK(s)'
  <2>1. \A b \in Tab : b # a => tab'[b] = tab[b]
    BY <1>0, <1>7, EndIs DEF Drop
  <2>2. tab[a].pc = "drop" /\ tab'[a].pc = "idle"
    BY <1>0, <1>7, EndIs DEF Drop, At
  <2>3. s \in Session /\ s \in kept /\ s \notin doubted /\ sessions' = sessions
    BY <1>7, <1>d DEF Drop
  <2>4. s # tab[a].sid
    BY <2>2, <2>3 DEF TabsOK, TabOK
  <2>5. vault'[s] = vault[s]
    BY <1>7, <1>d, <2>3, <2>4 DEF Drop
  <2> QED  BY <1>k, <2>1, <2>2, <2>3, <2>5, Apart, Rest DEF Undisturbed
<1>8. ASSUME NEW a \in Tab, Get(a) PROVE TokenOK(s)'
  <2>1. \A b \in Tab : b # a => tab'[b] = tab[b]
    BY <1>0, <1>8, EndIs DEF Get
  <2>2. tab[a].pc = "get" /\ tab'[a].pc = "idle"
    BY <1>0, <1>8, EndIs DEF Get, At
  <2>3. s \in Session /\ s \in kept /\ s \notin doubted /\ sessions' = sessions
    BY <1>8, <1>d DEF Get
  <2>4. CASE s # tab[a].sid
    <3>1. vault'[s] = vault[s]
      BY <1>8, <1>d, <2>3, <2>4 DEF Get
    <3> QED  BY <1>k, <2>1, <2>2, <2>3, <2>4, <3>1, Apart, Rest DEF Undisturbed
  <2>5. CASE s = tab[a].sid
    <3>1. vault'[s] = IF vault[s] = Gone THEN Gone ELSE 0
      BY <1>8, <1>d, <2>3, <2>5 DEF Get, Seen
    <3>2. Sliding(s)' => Sliding(s)
      BY <2>1, <2>2 DEF Sliding
    <3>3. Live(s)' <=> Live(s)
      BY <2>3 DEF Live
    <3>4. Live(s)' \/ Sliding(s)' => vault'[s] = 0
      BY <1>k, <2>3, <3>1, <3>2, <3>3 DEF TokenOK
    <3>5. sessions'[s] \in Int /\ sessions'[s] <= TTL
      BY <1>k, <2>3
    <3> QED  BY <1>0, <1>n, <3>4, <3>5 DEF TokenOK
  <2> QED  BY <2>4, <2>5
<1>9. ASSUME NEW a \in Tab, NEW r \in Session, StartLogout(a, r) PROVE TokenOK(s)'
  <2>1. \A b \in Tab : b # a => tab'[b] = tab[b]
    BY <1>0, <1>9, BeginIs DEF StartLogout
  <2>2. tab[a].pc = "idle" /\ tab'[a].pc = "logout"
    BY <1>0, <1>9, BeginIs DEF StartLogout, At
  <2>3. s \in Session /\ s \in kept /\ s \notin doubted /\ sessions' = sessions /\ s # r
    BY <1>9, <1>d DEF StartLogout
  <2>4. vault'[s] = vault[s]
    BY <1>9, <1>d, <2>3 DEF StartLogout
  <2> QED  BY <1>k, <2>1, <2>2, <2>3, <2>4, Apart, Rest DEF Undisturbed
<1>10. ASSUME NEW a \in Tab, NEW r \in Session, StartRequest(a, r) PROVE TokenOK(s)'
  <2>1. \A b \in Tab : b # a => tab'[b] = tab[b]
    BY <1>0, <1>10, BeginIs DEF StartRequest
  <2>2. tab[a].pc = "idle" /\ tab'[a].pc = "select"
    BY <1>0, <1>10, BeginIs DEF StartRequest, At
  <2>3. s \in kept /\ s \notin doubted /\ sessions' = sessions /\ vault' = vault
    BY <1>10 DEF StartRequest
  <2> QED  BY <1>k, <2>1, <2>2, <2>3, Apart, Rest DEF Undisturbed
<1>11. CASE Tick
  <2>1. s \in Session /\ s \in kept /\ s \notin doubted
    BY <1>11, <1>d DEF Tick
  <2>2. sessions'[s] = IF Live(s) THEN sessions[s] - 1 ELSE sessions[s]
    BY <1>11, <2>1 DEF Tick
  <2>3. vault'[s] = IF vault[s] = Gone \/ vault[s] > MaxIdle THEN vault[s] ELSE vault[s] + 1
    BY <1>11, <2>1 DEF Tick
  <2>4. sessions[s] # Gone
    BY <2>2 DEF Live
  <2>5. \A b \in Tab : /\ tab'[b].pc = tab[b].pc /\ tab'[b].sid = tab[b].sid
                       /\ tab'[b].aged <=> Between(b) \/ tab[b].aged
                       /\ Between(b) => ~tab[b].aged
    BY <1>0, <1>11, TickIs DEF Tick
  <2>6. ~Late(s)
    BY <2>5 DEF Late, Between
  <2>7. (Getting(s)' <=> Getting(s)) /\ (Late(s)' <=> Getting(s))
    BY <2>5 DEF Getting, Late, Between
  <2>8. Sliding(s)' => Live(s)
    BY <2>4, <2>5 DEF Sliding, TabsOK, TabOK, Between
  <2>9. Live(s)' => Live(s)
    BY <2>2 DEF Live
  <2>10. CASE ~Live(s)
    BY <2>8, <2>9, <2>10 DEF TokenOK
  <2>11. CASE Live(s)
    <3>1. vault[s] \in Nat /\ vault[s] <= TTL /\ vault[s] # Gone
      BY <1>k, <2>1, <2>4, <2>6, <2>11 DEF TokenOK
    <3>2. vault'[s] = vault[s] + 1
      BY <1>0, <2>3, <3>1
    <3>3. vault'[s] # Gone /\ vault'[s] <= TTL + 1
      BY <1>0, <1>n, <3>1, <3>2
    <3>4. sessions'[s] = sessions[s] - 1 /\ sessions[s] \in Int
      BY <1>k, <2>1, <2>2, <2>4, <2>11
    <3>5. ~Getting(s) => vault[s] + sessions[s] <= TTL
      BY <1>k, <2>1, <2>4, <2>11 DEF TokenOK
    <3>6. ~Getting(s)' => vault'[s] + sessions'[s] <= TTL
      BY <2>7, <3>1, <3>2, <3>4, <3>5
    <3>7. Live(s)' /\ ~Late(s)' => vault'[s] <= TTL
      <4>1. Live(s)' => sessions[s] >= 1
        BY <3>4 DEF Live
      <4>2. ~Late(s)' => vault[s] + sessions[s] <= TTL
        BY <2>7, <3>5
      <4> QED  BY <1>0, <3>1, <3>2, <3>4, <4>1, <4>2
    <3> QED  BY <3>3, <3>6, <3>7 DEF TokenOK
  <2> QED  BY <2>10, <2>11
<1>12. CASE PruneIdle
  <2>1. s \in Session /\ s \in kept /\ s \notin doubted /\ sessions' = sessions /\ tab' = tab
    BY <1>12, <1>d DEF PruneIdle
  <2>2. vault'[s] = IF Stale(s) THEN Gone ELSE vault[s]
    BY <1>12, <2>1 DEF PruneIdle
  <2>3. Live(s) \/ Sliding(s) => vault'[s] = vault[s]
    BY <1>0, <1>k, <2>1, <2>2 DEF TokenOK, Stale
  <2>4. /\ Live(s)' <=> Live(s)
        /\ Getting(s)' <=> Getting(s)
        /\ Late(s)' <=> Late(s)
        /\ Sliding(s)' <=> Sliding(s)
    BY <2>1 DEF Live, Getting, Late, Sliding
  <2> QED  BY <1>k, <2>1, <2>3, <2>4 DEF TokenOK
<1>13. CASE Restart
  BY <1>13 DEF Restart
<1>14. CASE UNCHANGED signin
  BY <1>14, <1>k DEF signin, TokenOK, Live, Getting, Late, Sliding
<1> QED
  BY <1>1, <1>2, <1>3, <1>4, <1>5, <1>6, <1>7, <1>8, <1>9, <1>10, <1>11, <1>12,
     <1>13, <1>14 DEF SignInNext, Statement

-----------------------------------------------------------------------------
(* Theorems                                                                *)

\* The inductive invariant: types, what each request knows, which sessions are
\* signed in, and how far apart a session's row and its token may have aged.
THEOREM SignInInvariance == SignInSpec => []SignInIInv
<1>1. SignInInit => SignInIInv
  <2> SUFFICES ASSUME SignInInit PROVE SignInIInv
    OBVIOUS
  <2>1. SignInTypeOK
    BY NoTabOK DEF SignInInit, SignInTypeOK
  <2>2. \A a \in Tab : tab[a] = NoTab
    BY DEF SignInInit
  <2>3. TabsOK
    BY <2>2, NoTabOK DEF TabsOK, TabOK
  <2> QED  BY <2>1, <2>3 DEF SignInInit, SignInIInv, KeptOK, TokensOK
<1>2. SignInIInv /\ [SignInNext]_signin => SignInIInv'
  BY StepType, StepTabs, StepKept, StepTokens DEF SignInIInv
<1> QED  BY <1>1, <1>2, PTL DEF SignInSpec

\* A session that has not expired keeps its token in memory, however the ticks
\* fall between the statements of however many requests.
THEOREM TokenKept == SignInSpec => []SignInInv
<1>1. SignInIInv => SignInInv
  BY DEF SignInIInv, SignInInv, LiveSessionKeepsToken, TokensOK, TokenOK, Live
<1> QED  BY <1>1, SignInInvariance, PTL
=============================================================================
