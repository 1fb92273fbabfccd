---------------------------- MODULE AuthSessions ----------------------------
(***************************************************************************)
(* Sessions of the web application: the exchange of a Shopify session token   *)
(* for a session, the rotation of its refresh token with the detection of a    *)
(* replay, the memberships a login creates, and the browser tabs that keep      *)
(* the refresh token in a storage they share (apps/api/src/modules/auth,         *)
(* apps/web/src/lib/auth-context.tsx and api-client.ts).                          *)
(*                                                                         *)
(* A session is an index of sessions, a refresh token an index of tokens. A    *)
(* tab makes one such call at a time: a boot makes one after the other, and     *)
(* ApiClient shares one refresh among its requests.                              *)
(***************************************************************************)
EXTENDS Naturals, Sequences, FiniteSets

CONSTANTS Users, Tabs,
          Browser,       \* the user in whose browser a tab is; one storage each
          AccountOwner,  \* the user Shopify calls account_owner, or another value
          Calls,         \* requests the server can have in hand
          MaxSessions,   \* bound: logins
          MaxTokens,     \* bound: refresh tokens
          MaxFaults      \* bound: lost answers, errors, crashes and tabs closed

VARIABLES
  active,    \* stores.status = ACTIVE
  role,      \* user_store_memberships
  sessions,  \* TRUE while revokedAt is null
  tokens,    \* [session, burned]
  storage,   \* localStorage of each browser: a refresh token, 0 for none
  tab,       \* each tab: its status, and the call it waits for
  call,      \* the server: where each request is and what it holds
  replayed,  \* ghost: sessions for which a replay has been answered
  crossed,   \* ghost: sessions of which a token was in use by two tabs at once,
             \* or on its way when its tab was closed
  mishaps

authVars == <<active, role, sessions, tokens, storage, tab, call, replayed, crossed, mishaps>>
db     == <<active, role, sessions, tokens>>
ghosts == <<replayed, crossed>>

Nobody == "nobody"
Free   == [at |-> "free", kind |-> "none", tab |-> Nobody, user |-> Nobody,
           token |-> 0, new |-> 0, role |-> "none"]
Closed == [status |-> "closed", call |-> Nobody]

Init ==
  /\ active = TRUE
  /\ role = [u \in Users |-> "none"]
  /\ sessions = <<>> /\ tokens = <<>>
  /\ storage = [u \in Users |-> 0]
  /\ tab = [t \in Tabs |-> Closed]
  /\ call = [c \in Calls |-> Free]
  /\ replayed = {} /\ crossed = {}
  /\ mishaps = 0

-----------------------------------------------------------------------------
(* The tab.                                                                 *)

Waits(t) == tab[t].call # Nobody

Request(t, c, kind, at, token) ==
  /\ call[c].at = "free"
  /\ call' = [call EXCEPT ![c] = [Free EXCEPT !.at = at, !.kind = kind, !.tab = t,
                                              !.user = Browser[t], !.token = token]]

\* Another tab has this token on its way to the server, or its answer on its way back.
Shares(t, k) == \E c \in Calls : call[c].at # "free" /\ call[c].token = k /\ call[c].tab # t

\* refreshAccessToken with a token in the storage.
Refresh(t, c, status) ==
  /\ storage[Browser[t]] # 0
  /\ LET k == storage[Browser[t]]
     IN /\ Request(t, c, "refresh", "read", k)
        /\ crossed' = IF Shares(t, k) THEN crossed \cup {tokens[k].session} ELSE crossed
  /\ tab' = [tab EXCEPT ![t] = [status |-> status, call |-> c]]

\* Boot with App Bridge at hand: its session token is exchanged.
BootEmbedded(t, c) ==
  /\ tab[t].status = "closed"
  /\ Len(sessions) + Cardinality({d \in Calls : call[d].kind = "login"}) < MaxSessions
  /\ Request(t, c, "login", "login", 0)
  /\ tab' = [tab EXCEPT ![t] = [status |-> "booting", call |-> c]]
  /\ UNCHANGED <<db, storage, ghosts, mishaps>>

\* Boot without App Bridge: the stored token, or the install gate.
BootStored(t, c) ==
  /\ tab[t].status = "closed"
  /\ Refresh(t, c, "booting")
  /\ UNCHANGED <<db, storage, replayed, mishaps>>

BootStandalone(t) ==
  /\ tab[t].status = "closed"
  /\ storage[Browser[t]] = 0
  /\ tab' = [tab EXCEPT ![t].status = "standalone"]
  /\ UNCHANGED <<db, storage, call, ghosts, mishaps>>

\* A request meets a 401: singleRefresh, shared by all that meet one meanwhile.
Unauthorized(t, c) ==
  /\ tab[t].status = "ready" /\ ~Waits(t)
  /\ Refresh(t, c, "ready")
  /\ UNCHANGED <<db, storage, replayed, mishaps>>

\* Mutant: the storage is written by the login only.
KeepsFirst(t, k) == [storage EXCEPT ![Browser[t]] = IF @ = 0 THEN k ELSE @]

\* applySession.
Stored(t, k) == [storage EXCEPT ![Browser[t]] = k]

\* The answer arrives with the new refresh token.
Applied(t, c) ==
  /\ tab[t].call = c /\ call[c].at = "answer"
  /\ storage' = Stored(t, call[c].new)
  /\ tab' = [tab EXCEPT ![t] = [status |-> "ready", call |-> Nobody]]
  /\ call' = [call EXCEPT ![c] = Free]
  /\ UNCHANGED <<db, ghosts, mishaps>>

\* A login that failed falls through to the stored token, as a boot without App
\* Bridge; a refresh that failed, for whatever reason, removes whatever token the
\* storage holds by now.
GaveUp(t, c) ==
  IF call[c].kind = "login"
    THEN tab' = [tab EXCEPT ![t] = Closed] /\ UNCHANGED storage
    ELSE /\ tab' = [tab EXCEPT ![t] = [status |-> IF @.status = "booting" THEN "standalone"
                                                  ELSE @.status,
                                       call |-> Nobody]]
         /\ storage' = [storage EXCEPT ![Browser[t]] = 0]

Refused(t, c) ==
  /\ tab[t].call = c /\ call[c].at = "deny"
  /\ GaveUp(t, c)
  /\ call' = [call EXCEPT ![c] = Free]
  /\ UNCHANGED <<db, ghosts, mishaps>>

\* The connection breaks: the tab gives up, the server does not notice.
Breaks(t) ==
  /\ Waits(t) /\ mishaps < MaxFaults
  /\ LET c == tab[t].call
     IN /\ GaveUp(t, c)
        /\ call' = [call EXCEPT ![c].tab = Nobody]
  /\ mishaps' = mishaps + 1
  /\ UNCHANGED <<db, ghosts>>

\* The answer of a tab that has gone.
Unheard(c) ==
  /\ call[c].at \in {"answer", "deny"} /\ call[c].tab = Nobody
  /\ call' = [call EXCEPT ![c] = Free]
  /\ UNCHANGED <<db, storage, tab, ghosts, mishaps>>

SignOut(t) ==
  /\ tab[t].status = "ready"
  /\ tab' = [tab EXCEPT ![t].status = "standalone"]
  /\ storage' = [storage EXCEPT ![Browser[t]] = 0]
  /\ UNCHANGED <<db, call, ghosts, mishaps>>

\* The tab is closed, or reloaded, with its call on the way or not.
Close(t) ==
  /\ tab[t].status # "closed" /\ mishaps < MaxFaults
  /\ tab' = [tab EXCEPT ![t] = Closed]
  /\ mishaps' = mishaps + 1
  /\ IF Waits(t)
       THEN LET c == tab[t].call
            IN /\ call' = [call EXCEPT ![c].tab = Nobody]
               /\ crossed' = IF call[c].kind = "login" THEN crossed
                             ELSE crossed \cup {tokens[call[c].token].session}
       ELSE UNCHANGED <<call, crossed>>
  /\ UNCHANGED <<db, storage, replayed>>
-----------------------------------------------------------------------------
(* The server: loginWithShopifySession.                                     *)

Moves(c, from, to) == call[c].at = from /\ call' = [call EXCEPT ![c].at = to]

\* The store must be ACTIVE.
CheckStore(c) ==
  /\ Moves(c, "login", IF active THEN "join" ELSE "deny")
  /\ UNCHANGED <<db, storage, tab, ghosts, mishaps>>

\* The role of a new member: Shopify's account owner, whom the exchange of an
\* online token makes known, and the first member own the store.
RoleOf(u, knows) ==
  IF (knows /\ u = AccountOwner) \/ \A v \in Users : role[v] = "none"
    THEN "OWNER" ELSE "VIEWER"

\* resolveUserAndMembership, its reads. While the last online token is fresh the
\* exchange is left out, and with it what Shopify says of the user.
ReadMembers(c, knows) ==
  LET u == call[c].user IN
  /\ call[c].at = "join"
  /\ call' = [call EXCEPT
       ![c].role = RoleOf(u, knows),
       ![c].at = IF role[u] = "none" THEN "insert"
                 ELSE IF knows /\ u = AccountOwner THEN "promote" ELSE "issue"]
  /\ UNCHANGED <<db, storage, tab, ghosts, mishaps>>

\* The insert; its primary key refuses a second membership of the user.
InsertMember(c) ==
  LET u == call[c].user IN
  /\ Moves(c, "insert", IF role[u] = "none" THEN "issue" ELSE "deny")
  /\ role' = IF role[u] = "none" THEN [role EXCEPT ![u] = call[c].role] ELSE role
  /\ UNCHANGED <<active, sessions, tokens, storage, tab, ghosts, mishaps>>

Promote(c) ==
  /\ Moves(c, "promote", "issue")
  /\ role' = [role EXCEPT ![call[c].user] = "OWNER"]
  /\ UNCHANGED <<active, sessions, tokens, storage, tab, ghosts, mishaps>>

\* issueTokenPair. Nobody can name the session before its token is out.
Issue(c) ==
  /\ call[c].at = "issue" /\ Len(tokens) < MaxTokens
  /\ sessions' = Append(sessions, TRUE)
  /\ tokens' = Append(tokens, [session |-> Len(sessions) + 1, burned |-> FALSE])
  /\ call' = [call EXCEPT ![c].at = "answer", ![c].new = Len(tokens) + 1]
  /\ UNCHANGED <<active, role, storage, tab, ghosts, mishaps>>

-----------------------------------------------------------------------------
(* The server: rotateRefreshToken.                                          *)

SessionOf(c) == tokens[call[c].token].session

\* One query reads the token and its session.
ReadToken(c) ==
  /\ Moves(c, "read", IF tokens[call[c].token].burned THEN "alarm"
                      ELSE IF ~sessions[SessionOf(c)] THEN "deny" ELSE "burn")
  /\ UNCHANGED <<db, storage, tab, ghosts, mishaps>>

\* By id, whatever has become of the token since it was read.
Burn(c) ==
  /\ Moves(c, "burn", "mint")
  /\ tokens' = [tokens EXCEPT ![call[c].token].burned = TRUE]
  /\ UNCHANGED <<active, role, sessions, storage, tab, ghosts, mishaps>>

Mint(c) ==
  /\ call[c].at = "mint" /\ Len(tokens) < MaxTokens
  /\ tokens' = Append(tokens, [session |-> SessionOf(c), burned |-> FALSE])
  /\ call' = [call EXCEPT ![c].at = "answer", ![c].new = Len(tokens) + 1]
  /\ UNCHANGED <<active, role, sessions, storage, tab, ghosts, mishaps>>

\* A burned token has come back: first its session's tokens,
RevokeTokens(c) ==
  /\ Moves(c, "alarm", "revoke")
  /\ tokens' = [k \in DOMAIN tokens |->
                  IF tokens[k].session = SessionOf(c) THEN [tokens[k] EXCEPT !.burned = TRUE]
                  ELSE tokens[k]]
  /\ UNCHANGED <<active, role, sessions, storage, tab, ghosts, mishaps>>

\* then the session, outside any transaction.
RevokeSession(c) ==
  /\ Moves(c, "revoke", "deny")
  /\ sessions' = [sessions EXCEPT ![SessionOf(c)] = FALSE]
  /\ replayed' = replayed \cup {SessionOf(c)}
  /\ UNCHANGED <<active, role, tokens, storage, tab, crossed, mishaps>>

\* A statement fails, or the process dies.
Errors(c) ==
  /\ call[c].at \notin {"free", "answer", "deny"} /\ mishaps < MaxFaults
  /\ mishaps' = mishaps + 1
  /\ call' = [call EXCEPT ![c].at = "deny"]
  /\ UNCHANGED <<db, storage, tab, ghosts>>

\* app/uninstalled: handleAppUninstalled, one transaction.
Uninstalled ==
  /\ active
  /\ active' = FALSE
  /\ sessions' = [s \in DOMAIN sessions |-> FALSE]
  /\ tokens' = [k \in DOMAIN tokens |-> [tokens[k] EXCEPT !.burned = TRUE]]
  /\ UNCHANGED <<role, storage, tab, call, ghosts, mishaps>>

-----------------------------------------------------------------------------
Serves(c) == \/ CheckStore(c) \/ (\E knows \in BOOLEAN : ReadMembers(c, knows))
             \/ InsertMember(c) \/ Promote(c) \/ Issue(c)
             \/ ReadToken(c) \/ Burn(c) \/ Mint(c) \/ RevokeTokens(c) \/ RevokeSession(c)
             \/ Unheard(c) \/ Errors(c)

Browses(t) == \/ BootStandalone(t) \/ Breaks(t) \/ SignOut(t) \/ Close(t)
              \/ \E c \in Calls : \/ BootEmbedded(t, c) \/ BootStored(t, c)
                                   \/ Unauthorized(t, c) \/ Applied(t, c) \/ Refused(t, c)

AuthNext == (\E c \in Calls : Serves(c)) \/ (\E t \in Tabs : Browses(t)) \/ Uninstalled

AuthSpec == Init /\ [][AuthNext]_authVars

-----------------------------------------------------------------------------
(* Properties.                                                              *)

Good(k) == ~tokens[k].burned /\ sessions[tokens[k].session]

\* The alarm goes off for no session
\* of an honest browser, whatever answers are lost and whatever calls fail,
\* unless two tabs had one token in use, or a tab was closed on the way.
NoFalseAlarm == \A s \in replayed : s \in crossed \/ ~active

\* A session has one good refresh token at most: a refresh never forks it, unless
\* two tabs refreshed with one token at once. Once a replay has been answered it
\* has none, the ones minted by refreshes that were on their way included.
OneChain == \A s \in DOMAIN sessions :
  LET good == {k \in DOMAIN tokens : tokens[k].session = s /\ Good(k)} IN
  IF s \in replayed THEN good = {} ELSE s \in crossed \/ Cardinality(good) <= 1

\* "Reuse of a burned token = possible theft": an honest browser keeps its session, with
\* one chain of tokens, and a session that was replayed is over for good.
ReuseIsTheft == NoFalseAlarm /\ OneChain

=============================================================================
