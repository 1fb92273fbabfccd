----------------------- MODULE MCPlatformData_proofs -----------------------
(***************************************************************************)
(* The small components whose invariants are about data of any size, for   *)
(* every value of their constants: families of tokens, the ledgers that a  *)
(* meter adds up, the minutes that a cron search passes over, the graphs   *)
(* that a merchant draws.  The rest are in MCPlatform_proofs, and the      *)
(* argument is the same: a behaviour of the platform is one of a single    *)
(* part, its steps are shown once to be steps of the part or to leave it   *)
(* alone, and each part has an inductive invariant.                        *)
(***************************************************************************)
EXTENDS MCPlatform, FiniteSetTheorems, SequenceTheorems, TLAPS

platformVars == <<part, authVars, fanoutVars, cacheVars, exportVars, deskVars, installVars,
                  reportVars, graphVars, cronVars, decisionVars, mirrorVars,
                  campaignVars, liveVars, meterVars, rollupVars, formsVars, editorVars,
                  offersVars>>

\* No step changes which part it is.
LEMMA PartStays == [Next]_platformVars => part' = part
BY DEF Next, Only, platformVars

-----------------------------------------------------------------------------
(* The sessions.                                                            *)

TabStatuses == {"closed", "booting", "standalone", "ready"}
Rotation    == {"read", "burn", "mint", "alarm", "revoke"}
CallPlaces  == {"free", "login", "join", "insert", "promote", "issue", "answer", "deny"} \cup Rotation
CallRecords == [at : CallPlaces, kind : {"none", "login", "refresh"}, tab : Tabs \cup {Auth!Nobody},
                user : Users \cup {Auth!Nobody}, token : Nat, new : Nat,
                role : {"none", "OWNER", "VIEWER"}]

AuthTypeOK ==
  /\ active \in BOOLEAN /\ sessions \in Seq(BOOLEAN)
  /\ tokens \in Seq([session : Nat, burned : BOOLEAN])
  /\ storage \in [Users -> Nat]
  /\ tab \in [Tabs -> [status : TabStatuses, call : Calls \cup {Auth!Nobody}]]
  /\ call \in [Calls -> CallRecords]

\* Tokens are of sessions there are, and what is kept and carried are tokens there are.
Refers ==
  /\ \A k \in 1 .. Len(tokens) : tokens[k].session \in 1 .. Len(sessions)
  /\ \A u \in Users : storage[u] <= Len(tokens)
  /\ \A c \in Calls : /\ call[c].token <= Len(tokens) /\ call[c].new <= Len(tokens)
                      /\ call[c].at \in Rotation => call[c].token # 0
                      /\ call[c].kind = "login" => call[c].token = 0
                      /\ call[c].at = "answer" => call[c].new # 0
                      /\ call[c].at = "free" => call[c].token = 0 /\ call[c].tab = Auth!Nobody

\* A tab waits for the call that is its own, and a closed one for none.
Paired ==
  /\ \A c \in Calls : call[c].tab # Auth!Nobody => tab[call[c].tab].call = c
  /\ \A t \in Tabs : /\ tab[t].call # Auth!Nobody => call[tab[t].call].tab = t
                     /\ tab[t].status = "closed" => tab[t].call = Auth!Nobody

\* Its session is live, and no token of it has been in two hands.
Clean(k) == sessions[tokens[k].session] /\ tokens[k].session \notin crossed

Carries(c, k) == call[c].token = k
Brings(c, k) == call[c].at = "answer" /\ call[c].new = k

\* An answer brings a token nobody has had yet.
Unknown(k) == \A c \in Calls : Brings(c, k) =>
  /\ \A u \in Users : storage[u] # k
  /\ \A d \in Calls : ~Carries(d, k) /\ (d # c => ~Brings(d, k))

\* A token is on its way in one call, out of the one browser that keeps it.
OneHand(k) ==
  /\ \A c, d \in Calls : Carries(c, k) /\ Carries(d, k) => c = d
  /\ \A u, v \in Users : storage[u] = k /\ storage[v] = k => u = v
  /\ \A u \in Users, c \in Calls : storage[u] = k /\ Carries(c, k) =>
       call[c].tab # Auth!Nobody /\ Browser[call[c].tab] = u

\* A burned token is kept by none but the browser whose call burned it, and does not
\* come back; a new one is not burned; no alarm goes off.
Spent(k) ==
  /\ tokens[k].burned =>
       /\ \A u \in Users : storage[u] = k => \E c \in Calls : Carries(c, k)
       /\ \A c \in Calls : ~Brings(c, k) /\ ~(Carries(c, k) /\ call[c].at \in {"read", "burn"})
  /\ \A c \in Calls : ~(Carries(c, k) /\ call[c].at \in {"alarm", "revoke"})

\* Of two tokens of a session one has been burned, and while a call is about to mint
\* the next all are.
GoesOn(j, k) ==
  /\ ~tokens[j].burned /\ ~tokens[k].burned => j = k
  /\ \A c \in Calls : Carries(c, k) /\ call[c].at = "mint" =>
       /\ tokens[j].burned
       /\ \A d \in Calls : Carries(d, j) /\ call[d].at = "mint" => c = d

HandsInv == \A k \in 1 .. Len(tokens) : Unknown(k) /\ (Clean(k) => OneHand(k) /\ Spent(k))
ChainInv == \A j, k \in 1 .. Len(tokens) :
  Clean(k) /\ tokens[j].session = tokens[k].session => GoesOn(j, k)

\* Sessions end by the uninstallation, or by an alarm two tabs have caused.
EndsAreKnown ==
  /\ \A s \in 1 .. Len(sessions) : sessions[s] \/ s \in crossed \/ ~active
  /\ \A s \in replayed : s \in 1 .. Len(sessions) /\ ~sessions[s]

AuthInv == AuthTypeOK /\ Refers /\ Paired /\ HandsInv /\ ChainInv /\ EndsAreKnown

LEMMA AuthSteps ==
  ASSUME part = "auth", [Next]_platformVars
  PROVE  [Auth!AuthNext]_authVars
BY DEF Next, Only, platformVars

LEMMA BrowserType == Browser \in [Tabs -> Users]
BY AuthAssumption

LEMMA FunctionIsSeq ==
  ASSUME NEW S, NEW n \in Nat, NEW f \in [1 .. n -> S]
  PROVE  f \in Seq(S) /\ Len(f) = n
<1>1. f \in Seq(S)
  BY SeqDef
<1>2. Len(f) \in Nat /\ 1 .. Len(f) = 1 .. n
  BY <1>1, LenProperties
<1> QED
  BY <1>1, <1>2

LEMMA AuthInit == Init /\ part = "auth" => AuthInv
<1> SUFFICES ASSUME Auth!Init PROVE AuthInv
  BY DEF Init
<1>1. AuthTypeOK
  <2>1. Auth!Free \in CallRecords
    BY DEF Auth!Free, CallRecords, CallPlaces
  <2>2. Auth!Closed \in [status : TabStatuses, call : Calls \cup {Auth!Nobody}]
    BY DEF Auth!Closed, TabStatuses
  <2> QED
    BY <2>1, <2>2, EmptySeq DEF Auth!Init, AuthTypeOK
<1>2. 1 .. Len(tokens) = {} /\ 1 .. Len(sessions) = {} /\ Len(tokens) = 0
  BY DEF Auth!Init
<1>3. Refers
  BY <1>2 DEF Auth!Init, Auth!Free, Refers, Rotation
<1>4. Paired
  BY DEF Auth!Init, Auth!Free, Auth!Closed, Paired
<1>5. HandsInv /\ ChainInv
  BY <1>2 DEF HandsInv, ChainInv
<1>6. EndsAreKnown
  BY <1>2 DEF Auth!Init, EndsAreKnown
<1> QED
  BY <1>1, <1>3, <1>4, <1>5, <1>6 DEF AuthInv

-----------------------------------------------------------------------------
\* What else a call is, when it has gone on at the server.
SameCall(d) == /\ call'[d].tab = call[d].tab /\ call'[d].kind = call[d].kind
               /\ call'[d].token = call[d].token /\ call'[d].new = call[d].new

\* The server goes on with a call, writing nothing that the tokens or sessions are.
LEMMA AuthMoves ==
  ASSUME AuthInv, NEW c \in Calls, NEW to \in CallPlaces,
         call' \in [Calls -> CallRecords], call'[c].at = to,
         \A d \in Calls : SameCall(d) /\ (d # c => call'[d].at = call[d].at),
         UNCHANGED <<active, sessions, tokens, storage, tab, replayed, crossed>>,
         to \notin {"free", "answer", "mint"}, to \in Rotation => call[c].token # 0,
         \A k \in 1 .. Len(tokens) : Carries(c, k) /\ Clean(k) =>
           to \notin {"alarm", "revoke"} /\ (tokens[k].burned => to \notin {"read", "burn"})
  PROVE  AuthInv'
<1>1. AuthTypeOK'
  BY DEF AuthInv, AuthTypeOK
<1>2. Refers' /\ Paired'
  <2>1. Refers'
    BY DEF AuthInv, Refers, SameCall
  <2>2. Paired'
    BY DEF AuthInv, AuthTypeOK, Paired, SameCall
  <2> QED
    BY <2>1, <2>2
<1>3. /\ \A k : Clean(k)' <=> Clean(k)
      /\ \A d \in Calls : \A k : (Carries(d, k)' <=> Carries(d, k)) /\ (Brings(d, k)' => Brings(d, k))
  BY DEF Clean, Carries, Brings, SameCall
<1>4. \A k \in 1 .. Len(tokens) : (Unknown(k) => Unknown(k)') /\ (OneHand(k) => OneHand(k)')
  BY <1>3 DEF Unknown, OneHand, SameCall
<1>5. \A k \in 1 .. Len(tokens) : Clean(k) /\ Spent(k) => Spent(k)'
  BY <1>3 DEF Spent
<1>6. HandsInv'
  <2> SUFFICES ASSUME NEW k \in 1 .. Len(tokens)
               PROVE  Unknown(k)' /\ (Clean(k)' => OneHand(k)' /\ Spent(k)')
    BY DEF HandsInv
  <2> QED
    BY <1>3, <1>4, <1>5 DEF AuthInv, HandsInv
<1>7. ChainInv'
  BY <1>3 DEF AuthInv, ChainInv, GoesOn
<1>8. EndsAreKnown'
  BY DEF AuthInv, EndsAreKnown
<1> QED
  BY <1>1, <1>2, <1>6, <1>7, <1>8 DEF AuthInv

\* One statement of the server that only moves the call.
LEMMA ServerMoves ==
  ASSUME AuthInv, NEW c \in Calls,
         \/ Auth!CheckStore(c) \/ (\E knows \in BOOLEAN : Auth!ReadMembers(c, knows))
         \/ Auth!InsertMember(c) \/ Auth!Promote(c) \/ Auth!ReadToken(c) \/ Auth!Errors(c)
  PROVE  AuthInv'
<1>1. call \in [Calls -> CallRecords] /\ call[c] \in CallRecords
  BY DEF AuthInv, AuthTypeOK
<1>2. ASSUME NEW to \in {"join", "insert", "promote", "issue", "deny"},
             call' = [call EXCEPT ![c].at = to],
             UNCHANGED <<active, sessions, tokens, storage, tab, replayed, crossed>>
      PROVE  AuthInv'
  <2>1. /\ call' \in [Calls -> CallRecords] /\ call'[c].at = to
        /\ \A d \in Calls : SameCall(d) /\ (d # c => call'[d].at = call[d].at)
    BY <1>1, <1>2 DEF CallRecords, CallPlaces, SameCall
  <2>2. to \in CallPlaces /\ to \notin Rotation /\ to \notin {"free", "answer", "mint"}
    BY <1>2 DEF CallPlaces, Rotation
  <2> QED
    BY <1>2, <2>1, <2>2, AuthMoves DEF Rotation
<1>3. ASSUME Auth!CheckStore(c) PROVE AuthInv'
  BY <1>2, <1>3 DEF Auth!CheckStore, Auth!Moves, Auth!db, Auth!ghosts
<1>4. ASSUME NEW knows \in BOOLEAN, Auth!ReadMembers(c, knows) PROVE AuthInv'
  <2> DEFINE r == Auth!RoleOf(call[c].user, knows)
             to == IF role[call[c].user] = "none" THEN "insert"
                   ELSE IF knows /\ call[c].user = AccountOwner THEN "promote" ELSE "issue"
  <2>1. r \in {"none", "OWNER", "VIEWER"} /\ to \in {"insert", "promote", "issue"}
    BY DEF Auth!RoleOf
  <2>2. /\ call' = [call EXCEPT ![c].role = r, ![c].at = to]
        /\ UNCHANGED <<active, sessions, tokens, storage, tab, replayed, crossed>>
    BY <1>4 DEF Auth!ReadMembers, Auth!db, Auth!ghosts
  <2> HIDE DEF r, to
  <2>3. /\ call' \in [Calls -> CallRecords] /\ call'[c].at = to
        /\ \A d \in Calls : SameCall(d) /\ (d # c => call'[d].at = call[d].at)
    BY <1>1, <2>1, <2>2 DEF CallRecords, CallPlaces, SameCall
  <2>4. to \in CallPlaces /\ to \notin Rotation /\ to \notin {"free", "answer", "mint"}
    BY <2>1 DEF CallPlaces, Rotation
  <2> QED
    BY <2>2, <2>3, <2>4, AuthMoves DEF Rotation
<1>5. ASSUME Auth!InsertMember(c) PROVE AuthInv'
  BY <1>2, <1>5 DEF Auth!InsertMember, Auth!Moves, Auth!ghosts
<1>6. ASSUME Auth!Promote(c) PROVE AuthInv'
  BY <1>2, <1>6 DEF Auth!Promote, Auth!Moves, Auth!ghosts
<1>7. ASSUME Auth!ReadToken(c) PROVE AuthInv'
  <2> DEFINE k == call[c].token
             to == IF tokens[k].burned THEN "alarm"
                   ELSE IF ~sessions[tokens[k].session] THEN "deny" ELSE "burn"
  <2>1. /\ call[c].at = "read" /\ call' = [call EXCEPT ![c].at = to]
        /\ UNCHANGED <<active, sessions, tokens, storage, tab, replayed, crossed>>
    BY <1>7 DEF Auth!ReadToken, Auth!Moves, Auth!SessionOf, Auth!db, Auth!ghosts
  <2>2. to \in {"alarm", "deny", "burn"}
    OBVIOUS
  <2>3. k # 0 /\ k \in 1 .. Len(tokens)
    BY <1>1, <2>1, LenProperties DEF AuthInv, AuthTypeOK, Refers, Rotation, CallRecords
  <2>4. \A j \in 1 .. Len(tokens) : Carries(c, j) /\ Clean(j) =>
          to \notin {"alarm", "revoke"} /\ (tokens[j].burned => to \notin {"read", "burn"})
    BY <2>1, <2>3 DEF AuthInv, HandsInv, Spent, Carries
  <2> HIDE DEF to, k
  <2>5. /\ call' \in [Calls -> CallRecords] /\ call'[c].at = to
        /\ \A d \in Calls : SameCall(d) /\ (d # c => call'[d].at = call[d].at)
    BY <1>1, <2>1, <2>2 DEF CallRecords, CallPlaces, Rotation, SameCall
  <2>6. to \in CallPlaces /\ to \notin {"free", "answer", "mint"} /\ call[c].token # 0
    BY <2>2, <2>3 DEF CallPlaces, Rotation, k
  <2> QED
    BY <2>1, <2>4, <2>5, <2>6, AuthMoves
<1>8. ASSUME Auth!Errors(c) PROVE AuthInv'
  BY <1>2, <1>8 DEF Auth!Errors, Auth!db, Auth!ghosts
<1> QED
  BY <1>3, <1>4, <1>5, <1>6, <1>7, <1>8

\* A token of its call's session is a token there is.
LEMMA TokenThere ==
  ASSUME AuthInv, NEW c \in Calls, call[c].at \in Rotation
  PROVE  /\ Len(tokens) \in Nat /\ Len(sessions) \in Nat
         /\ call[c].token \in 1 .. Len(tokens)
         /\ tokens[call[c].token] \in [session : Nat, burned : BOOLEAN]
         /\ tokens[call[c].token].session \in 1 .. Len(sessions)
<1>1. Len(tokens) \in Nat /\ Len(sessions) \in Nat
  BY LenProperties DEF AuthInv, AuthTypeOK
<1>2. call[c].token \in Nat /\ call[c].token # 0 /\ call[c].token <= Len(tokens)
  BY DEF AuthInv, AuthTypeOK, Refers, CallRecords
<1>3. call[c].token \in 1 .. Len(tokens)
  BY <1>1, <1>2
<1> QED
  BY <1>1, <1>3, ElementOfSeq DEF AuthInv, AuthTypeOK, Refers

\* By id, whatever has become of the token: yet of a clean session it was not burned.
LEMMA BurnKept == ASSUME AuthInv, NEW c \in Calls, Auth!Burn(c) PROVE AuthInv'
<1> DEFINE k == call[c].token
<1>1. /\ call[c].at = "burn" /\ call' = [call EXCEPT ![c].at = "mint"]
      /\ tokens' = [tokens EXCEPT ![k].burned = TRUE]
      /\ UNCHANGED <<active, sessions, storage, tab, replayed, crossed>>
  BY DEF Auth!Burn, Auth!Moves, Auth!ghosts
<1>2. /\ k \in 1 .. Len(tokens) /\ tokens[k] \in [session : Nat, burned : BOOLEAN]
      /\ k = call[c].token
  BY <1>1, TokenThere DEF Rotation
<1>3. /\ call' \in [Calls -> CallRecords] /\ call'[c].at = "mint"
      /\ \A d \in Calls : SameCall(d) /\ (d # c => call'[d].at = call[d].at)
  BY <1>1 DEF AuthInv, AuthTypeOK, CallRecords, CallPlaces, Rotation, SameCall
<1> HIDE DEF k
<1>4. /\ tokens' \in Seq([session : Nat, burned : BOOLEAN]) /\ Len(tokens') = Len(tokens)
      /\ \A j \in 1 .. Len(tokens) : /\ tokens'[j].session = tokens[j].session
                                     /\ tokens'[j].burned = (j = k \/ tokens[j].burned)
  <2> DEFINE e == [tokens[k] EXCEPT !.burned = TRUE]
  <2>1. e \in [session : Nat, burned : BOOLEAN] /\ e.burned = TRUE /\ e.session = tokens[k].session
    BY <1>2
  <2>2. tokens' = [tokens EXCEPT ![k] = e]
    BY <1>1
  <2>3. tokens \in Seq([session : Nat, burned : BOOLEAN])
    BY DEF AuthInv, AuthTypeOK
  <2> HIDE DEF e
  <2>4. /\ tokens' \in Seq([session : Nat, burned : BOOLEAN]) /\ Len(tokens') = Len(tokens)
        /\ \A j \in 1 .. Len(tokens) : tokens'[j] = IF j = k THEN e ELSE tokens[j]
    BY <1>2, <2>1, <2>2, <2>3, ExceptSeq
  <2>5. \A j \in 1 .. Len(tokens) : tokens[j] \in [session : Nat, burned : BOOLEAN]
    BY <2>3, ElementOfSeq
  <2>6. \A j \in 1 .. Len(tokens) : tokens[j].burned \in BOOLEAN
    BY <2>5
  <2> QED
    BY <2>1, <2>4, <2>6
<1>5. AuthTypeOK'
  BY <1>1, <1>3, <1>4 DEF AuthInv, AuthTypeOK
<1>6. Refers' /\ Paired'
  <2>1. Refers'
    BY <1>1, <1>2, <1>3, <1>4 DEF AuthInv, Refers, SameCall
  <2>2. Paired'
    BY <1>1, <1>3 DEF AuthInv, AuthTypeOK, Paired, SameCall
  <2> QED
    BY <2>1, <2>2
<1>7. /\ \A j \in 1 .. Len(tokens) : Clean(j)' <=> Clean(j)
      /\ \A d \in Calls : \A j : (Carries(d, j)' <=> Carries(d, j)) /\ (Brings(d, j)' => Brings(d, j))
  BY <1>1, <1>3, <1>4 DEF Clean, Carries, Brings, SameCall
<1>8. \A j \in 1 .. Len(tokens) : (Unknown(j) => Unknown(j)') /\ (OneHand(j) => OneHand(j)')
  BY <1>1, <1>3, <1>7 DEF Unknown, OneHand, SameCall
<1>9. \A j \in 1 .. Len(tokens) : Clean(j) => Unknown(j) /\ OneHand(j) /\ Spent(j)
  BY DEF AuthInv, HandsInv
<1>10. \A j \in 1 .. Len(tokens) : Clean(j) => Spent(j)'
  <2> SUFFICES ASSUME NEW j \in 1 .. Len(tokens), Clean(j) PROVE Spent(j)'
    OBVIOUS
  <2>1. CASE j = k
    <3>1. Carries(c, j) /\ \A d \in Calls : Carries(d, j) => d = c
      BY <1>2, <1>9, <2>1 DEF OneHand, Carries
    <3>2. \A d \in Calls : ~Brings(d, j)
      BY <1>9, <3>1 DEF Unknown
    <3> QED
      BY <1>1, <1>3, <1>7, <3>1, <3>2 DEF Spent
  <2>2. CASE j # k
    <3>1. ~Carries(c, j)
      BY <1>2, <2>2 DEF Carries
    <3> QED
      BY <1>1, <1>3, <1>4, <1>7, <1>9, <2>2, <3>1 DEF Spent
  <2> QED
    BY <2>1, <2>2
<1>11. HandsInv'
  <2> SUFFICES ASSUME NEW j \in 1 .. Len(tokens)
               PROVE  Unknown(j)' /\ (Clean(j)' => OneHand(j)' /\ Spent(j)')
    BY <1>4 DEF HandsInv
  <2>1. Unknown(j)
    BY DEF AuthInv, HandsInv
  <2> QED
    BY <1>7, <1>8, <1>9, <1>10, <2>1
<1>12. ChainInv'
  <2>1. ASSUME NEW i \in 1 .. Len(tokens), NEW j \in 1 .. Len(tokens), Clean(j),
               tokens[i].session = tokens[j].session
        PROVE  GoesOn(i, j)'
    <3>1. ~tokens'[i].burned /\ ~tokens'[j].burned => i = j
      BY <1>4, <2>1 DEF AuthInv, ChainInv, GoesOn
    <3>2. Clean(i)
      BY <2>1 DEF Clean
    <3>3. ASSUME NEW b \in Calls, Carries(b, j), call'[b].at = "mint"
          PROVE  /\ tokens'[i].burned
                 /\ \A d \in Calls : Carries(d, i) /\ call'[d].at = "mint" => b = d
      <4>1. CASE b = c
        <5>1. j = k
          BY <1>2, <3>3, <4>1 DEF Carries
        <5>2. ~tokens[k].burned
          BY <1>1, <1>2, <1>9, <2>1, <5>1 DEF Spent, Carries
        <5>3. tokens'[i].burned
          BY <1>4, <2>1, <5>1, <5>2 DEF AuthInv, ChainInv, GoesOn
        <5>4. ASSUME NEW d \in Calls, Carries(d, i), call'[d].at = "mint", d # c PROVE FALSE
          <6>1. call[d].at = "mint"
            BY <1>3, <5>4
          <6>2. tokens[k].burned
            BY <1>2, <2>1, <3>2, <5>1, <5>4, <6>1 DEF AuthInv, ChainInv, GoesOn
          <6> QED
            BY <5>2, <6>2
        <5> QED
          BY <4>1, <5>3, <5>4
      <4>2. CASE b # c
        <5>1. call[b].at = "mint"
          BY <1>3, <3>3, <4>2
        <5>2. tokens[i].burned /\ \A d \in Calls : Carries(d, i) /\ call[d].at = "mint" => b = d
          BY <2>1, <3>3, <5>1 DEF AuthInv, ChainInv, GoesOn
        <5>3. ~Carries(c, i)
          BY <1>1, <1>9, <3>2, <5>2 DEF Spent
        <5> QED
          BY <1>3, <1>4, <5>2, <5>3
      <4> QED
        BY <4>1, <4>2
    <3> QED
      BY <1>7, <2>1, <3>1, <3>3 DEF GoesOn
  <2> QED
    BY <1>4, <1>7, <2>1 DEF ChainInv
<1>13. EndsAreKnown'
  BY <1>1 DEF AuthInv, EndsAreKnown
<1> QED
  BY <1>5, <1>6, <1>11, <1>12, <1>13 DEF AuthInv

\* The sessions go on, and a new one is live.
SessionsGrow ==
  /\ sessions' \in Seq(BOOLEAN) /\ Len(sessions) <= Len(sessions')
  /\ \A i \in 1 .. Len(sessions) : sessions'[i] = sessions[i]
  /\ \A i \in 1 .. Len(sessions') : i \in 1 .. Len(sessions) \/ sessions'[i]

\* The session has no other token to go on with, and no other call about to mint.
Waiting(c, s) == \A k \in 1 .. Len(tokens) : tokens[k].session = s /\ Clean(k) =>
  /\ tokens[k].burned
  /\ \A d \in Calls : d # c => ~(Carries(d, k) /\ call[d].at = "mint")

\* A new token n, of session s.
Mints(c, n, s) ==
  /\ n = Len(tokens) + 1
  /\ tokens' = Append(tokens, [session |-> s, burned |-> FALSE])
  /\ call' = [call EXCEPT ![c].at = "answer", ![c].new = n]
  /\ UNCHANGED <<active, storage, tab, replayed, crossed>>

LEMMA Minted ==
  ASSUME AuthInv, NEW c \in Calls, call[c].at \in {"mint", "issue"}, NEW s, NEW n,
         SessionsGrow, s \in 1 .. Len(sessions'), Waiting(c, s), Mints(c, n, s)
  PROVE  AuthInv'
<1> DEFINE e == [session |-> s, burned |-> FALSE]
<1>1. Len(tokens) \in Nat /\ Len(sessions) \in Nat /\ Len(sessions') \in Nat
  BY LenProperties DEF AuthInv, AuthTypeOK, SessionsGrow
<1>2. e \in [session : Nat, burned : BOOLEAN] /\ e.session = s /\ ~e.burned
  BY <1>1
<1> HIDE DEF e
<1>3. /\ tokens' \in Seq([session : Nat, burned : BOOLEAN]) /\ Len(tokens') = n /\ tokens'[n] = e
      /\ \A k \in 1 .. Len(tokens) : tokens'[k] = tokens[k]
  <2>1. tokens \in Seq([session : Nat, burned : BOOLEAN]) /\ tokens' = Append(tokens, e)
    BY DEF AuthInv, AuthTypeOK, Mints, e
  <2> QED
    BY <1>2, <2>1, AppendProperties DEF Mints
<1>4. /\ \A k \in 1 .. Len(tokens') : k \in 1 .. Len(tokens) \/ k = n
      /\ n \notin 1 .. Len(tokens) /\ n # 0 /\ n \in Nat
  BY <1>1, <1>3 DEF Mints
<1>5. /\ call' \in [Calls -> CallRecords] /\ call'[c].at = "answer" /\ call'[c].new = n
      /\ call'[c].tab = call[c].tab /\ call'[c].token = call[c].token /\ call'[c].kind = call[c].kind
      /\ \A d \in Calls : d # c => call'[d] = call[d]
  <2> DEFINE r == [call[c] EXCEPT !.at = "answer", !.new = n]
  <2>1. call[c] \in CallRecords /\ call \in [Calls -> CallRecords]
    BY DEF AuthInv, AuthTypeOK
  <2>2. /\ r \in CallRecords /\ r.at = "answer" /\ r.new = n
        /\ r.tab = call[c].tab /\ r.token = call[c].token /\ r.kind = call[c].kind
    BY <1>4, <2>1 DEF CallRecords, CallPlaces
  <2>3. call' = [call EXCEPT ![c] = r]
    BY DEF Mints
  <2> HIDE DEF r
  <2> QED
    BY <2>1, <2>2, <2>3
<1>6. AuthTypeOK'
  BY <1>3, <1>5 DEF AuthInv, AuthTypeOK, SessionsGrow, Mints
<1>7. Refers'
  <2>1. \A k \in 1 .. Len(tokens') : tokens'[k].session \in 1 .. Len(sessions')
    <3>1. \A k \in 1 .. Len(tokens) : tokens'[k].session \in 1 .. Len(sessions)
      BY <1>3 DEF AuthInv, Refers
    <3>2. 1 .. Len(sessions) \subseteq 1 .. Len(sessions')
      BY <1>1 DEF SessionsGrow
    <3>3. tokens'[n].session \in 1 .. Len(sessions')
      BY <1>2, <1>3
    <3> QED
      BY <1>4, <3>1, <3>2, <3>3
  <2>2. \A u \in Users : storage'[u] <= Len(tokens')
    BY <1>1, <1>3, <1>4 DEF AuthInv, AuthTypeOK, Refers, Mints
  <2>3. \A d \in Calls : call[d].token \in Nat /\ call[d].new \in Nat
    BY DEF AuthInv, AuthTypeOK, CallRecords
  <2>4. \A d \in Calls : /\ call'[d].token <= Len(tokens') /\ call'[d].new <= Len(tokens')
                         /\ call'[d].at \in Rotation => call'[d].token # 0
                         /\ call'[d].kind = "login" => call'[d].token = 0
                         /\ call'[d].at = "answer" => call'[d].new # 0
                         /\ call'[d].at = "free" => call'[d].token = 0 /\ call'[d].tab = Auth!Nobody
    BY <1>1, <1>3, <1>4, <1>5, <2>3 DEF AuthInv, Refers, Rotation
  <2> QED
    BY <2>1, <2>2, <2>4 DEF Refers
<1>8. Paired'
  BY <1>5 DEF AuthInv, AuthTypeOK, Paired, Mints
<1>9. \A k \in 1 .. Len(tokens) : Clean(k)' <=> Clean(k)
  BY <1>3 DEF AuthInv, Refers, Clean, SessionsGrow, Mints
<1>10. \A k \in 1 .. Len(tokens) : \A d \in Calls :
         (Carries(d, k)' <=> Carries(d, k)) /\ (Brings(d, k)' <=> Brings(d, k))
  BY <1>4, <1>5 DEF Carries, Brings
<1>11. \A d \in Calls : ~Carries(d, n)' /\ (Brings(d, n)' <=> d = c)
  <2>1. \A d \in Calls : /\ call[d].token \in Nat /\ call[d].token <= Len(tokens)
                         /\ call[d].new \in Nat /\ call[d].new <= Len(tokens)
    BY DEF AuthInv, AuthTypeOK, CallRecords, Refers
  <2>2. \A d \in Calls : call[d].token # n /\ call[d].new # n
    BY <1>1, <2>1 DEF Mints
  <2> QED
    BY <1>5, <2>2 DEF Carries, Brings
<1>12. \A u \in Users : storage[u] # n
  <2>1. \A u \in Users : storage[u] \in Nat /\ storage[u] <= Len(tokens)
    BY DEF AuthInv, AuthTypeOK, Refers
  <2> QED
    BY <1>1, <2>1 DEF Mints
<1>13. /\ \A k \in 1 .. Len(tokens) : /\ Unknown(k) => Unknown(k)'
                                      /\ OneHand(k) => OneHand(k)'
                                      /\ Spent(k) => Spent(k)'
       /\ \A j, k \in 1 .. Len(tokens) : GoesOn(j, k) => GoesOn(j, k)'
  <2>1. \A k \in 1 .. Len(tokens) : Unknown(k) => Unknown(k)'
    BY <1>10 DEF Unknown, Mints
  <2>2. \A k \in 1 .. Len(tokens) : OneHand(k) => OneHand(k)'
    BY <1>5, <1>10 DEF OneHand, Mints
  <2>3. \A k \in 1 .. Len(tokens) : Spent(k) => Spent(k)'
    BY <1>3, <1>5, <1>10 DEF Spent, Mints
  <2>4. \A j, k \in 1 .. Len(tokens) : GoesOn(j, k) => GoesOn(j, k)'
    BY <1>3, <1>5, <1>10 DEF GoesOn
  <2> QED
    BY <2>1, <2>2, <2>3, <2>4
<1>14. Unknown(n)' /\ OneHand(n)' /\ Spent(n)'
  BY <1>2, <1>3, <1>11, <1>12 DEF Unknown, OneHand, Spent, Mints
<1>15. HandsInv'
  <2> SUFFICES ASSUME NEW k \in 1 .. Len(tokens')
               PROVE  Unknown(k)' /\ (Clean(k)' => OneHand(k)' /\ Spent(k)')
    BY DEF HandsInv
  <2>1. CASE k = n
    BY <1>14, <2>1
  <2>2. CASE k \in 1 .. Len(tokens)
    <3>1. Unknown(k) /\ (Clean(k) => OneHand(k) /\ Spent(k))
      BY <2>2 DEF AuthInv, HandsInv
    <3> QED
      BY <1>9, <1>13, <2>2, <3>1
  <2> QED
    BY <1>4, <2>1, <2>2
<1>16. ChainInv'
  <2>1. ASSUME NEW k \in 1 .. Len(tokens), Clean(k), tokens[k].session = s
        PROVE  GoesOn(n, k)' /\ GoesOn(k, n)'
    <3>1. /\ tokens'[k].burned
          /\ \A d \in Calls : ~(Carries(d, k)' /\ call'[d].at = "mint")
      BY <1>3, <1>5, <1>10, <2>1 DEF Waiting
    <3> QED
      BY <1>11, <3>1 DEF GoesOn
  <2>2. GoesOn(n, n)'
    BY <1>11 DEF GoesOn
  <2>3. ASSUME NEW k \in 1 .. Len(tokens), tokens[k].session = s
        PROVE  Clean(k) \/ ~Clean(n)'
    BY <1>2, <1>3, <1>9, <2>3 DEF Clean
  <2>4. ASSUME NEW j \in 1 .. Len(tokens'), NEW k \in 1 .. Len(tokens'), Clean(k)',
               tokens'[j].session = tokens'[k].session
        PROVE  GoesOn(j, k)'
    <3>1. CASE j = n /\ k = n
      BY <2>2, <3>1
    <3>2. CASE j = n /\ k \in 1 .. Len(tokens)
      BY <1>2, <1>3, <1>9, <2>1, <2>4, <3>2
    <3>3. CASE j \in 1 .. Len(tokens) /\ k = n
      BY <1>2, <1>3, <2>1, <2>3, <2>4, <3>3
    <3>4. CASE j \in 1 .. Len(tokens) /\ k \in 1 .. Len(tokens)
      BY <1>3, <1>9, <1>13, <2>4, <3>4 DEF AuthInv, ChainInv
    <3> QED
      BY <1>4, <3>1, <3>2, <3>3, <3>4
  <2> QED
    BY <2>4 DEF ChainInv
<1>17. EndsAreKnown'
  <2>1. \A i \in 1 .. Len(sessions') : sessions'[i] \/ i \in crossed' \/ ~active'
    BY DEF AuthInv, EndsAreKnown, SessionsGrow, Mints
  <2>2. \A i \in replayed' : i \in 1 .. Len(sessions') /\ ~sessions'[i]
    BY <1>1 DEF AuthInv, EndsAreKnown, SessionsGrow, Mints
  <2> QED
    BY <2>1, <2>2 DEF EndsAreKnown
<1> QED
  BY <1>6, <1>7, <1>8, <1>15, <1>16, <1>17 DEF AuthInv

LEMMA MintKept == ASSUME AuthInv, NEW c \in Calls, Auth!Mint(c) PROVE AuthInv'
<1> DEFINE s == tokens[call[c].token].session
<1>1. call[c].at = "mint" /\ Mints(c, Len(tokens) + 1, s) /\ UNCHANGED sessions
  BY DEF Auth!Mint, Auth!SessionOf, Auth!ghosts, Mints
<1>2. /\ s \in 1 .. Len(sessions) /\ call[c].token \in 1 .. Len(tokens) /\ Len(sessions) \in Nat
      /\ Carries(c, call[c].token) /\ tokens[call[c].token].session = s
  BY <1>1, TokenThere DEF Rotation, Carries
<1> HIDE DEF s
<1>3. Waiting(c, s)
  <2> SUFFICES ASSUME NEW k \in 1 .. Len(tokens), tokens[k].session = s, Clean(k)
               PROVE  /\ tokens[k].burned
                      /\ \A d \in Calls : d # c => ~(Carries(d, k) /\ call[d].at = "mint")
    BY DEF Waiting
  <2>1. Clean(call[c].token)
    BY <1>2 DEF Clean
  <2> QED
    BY <1>1, <1>2, <2>1 DEF AuthInv, ChainInv, GoesOn
<1>4. SessionsGrow /\ s \in 1 .. Len(sessions')
  BY <1>1, <1>2 DEF AuthInv, AuthTypeOK, SessionsGrow
<1> QED
  BY <1>1, <1>3, <1>4, Minted

LEMMA IssueKept == ASSUME AuthInv, NEW c \in Calls, Auth!Issue(c) PROVE AuthInv'
<1> DEFINE s == Len(sessions) + 1
<1>1. call[c].at = "issue" /\ Mints(c, Len(tokens) + 1, s) /\ sessions' = Append(sessions, TRUE)
  BY DEF Auth!Issue, Auth!ghosts, Mints
<1>2. Len(sessions) \in Nat /\ sessions \in Seq(BOOLEAN)
  BY LenProperties DEF AuthInv, AuthTypeOK
<1>3. /\ sessions' \in Seq(BOOLEAN) /\ Len(sessions') = s /\ sessions'[s] = TRUE
      /\ \A i \in 1 .. Len(sessions) : sessions'[i] = sessions[i]
  BY <1>1, <1>2, AppendProperties
<1>4. Waiting(c, s)
  BY <1>2 DEF AuthInv, Refers, Waiting
<1>5. s \in 1 .. Len(sessions') /\ SessionsGrow
  BY <1>2, <1>3 DEF SessionsGrow
<1> HIDE DEF s
<1> QED
  BY <1>1, <1>4, <1>5, Minted

\* Tokens are burned and sessions ended that were not clean, or no longer are; a call
\* that goes on meanwhile is one of those.
LEMMA SessionsEnd ==
  ASSUME AuthInv, call' \in [Calls -> CallRecords], \A d \in Calls : SameCall(d),
         \A d \in Calls : call'[d].at # call[d].at =>
           /\ call[d].at \in Rotation /\ call'[d].at \in {"revoke", "deny"}
           /\ ~Clean(call[d].token),
         tokens' \in Seq([session : Nat, burned : BOOLEAN]), Len(tokens') = Len(tokens),
         \A k \in 1 .. Len(tokens) : /\ tokens'[k].session = tokens[k].session
                                     /\ Clean(k)' => Clean(k) /\ tokens'[k] = tokens[k],
         sessions' \in Seq(BOOLEAN), Len(sessions') = Len(sessions), active' \in BOOLEAN,
         UNCHANGED <<storage, tab>>, EndsAreKnown'
  PROVE  AuthInv'
<1>1. AuthTypeOK'
  BY DEF AuthInv, AuthTypeOK
<1>2. Refers'
  <2>1. \A d \in Calls : /\ call'[d].at \in Rotation => call[d].at \in Rotation
                         /\ call'[d].at = "answer" => call[d].at = "answer"
                         /\ call'[d].at = "free" => call[d].at = "free"
    OBVIOUS
  <2>2. Refers
    BY DEF AuthInv
  <2>3. \A k \in 1 .. Len(tokens') : tokens'[k].session \in 1 .. Len(sessions')
    BY <2>2 DEF Refers
  <2>4. \A u \in Users : storage'[u] <= Len(tokens')
    BY <2>2 DEF Refers
  <2> QED
    BY <2>1, <2>2, <2>3, <2>4 DEF Refers, SameCall
<1>3. Paired'
  <2>1. Paired /\ tab \in [Tabs -> [status : TabStatuses, call : Calls \cup {Auth!Nobody}]]
    BY DEF AuthInv, AuthTypeOK
  <2>2. \A d \in Calls : call'[d].tab = call[d].tab
    BY DEF SameCall
  <2> QED
    BY <2>1, <2>2 DEF Paired
<1>4. \A d \in Calls : \A k : /\ Carries(d, k)' <=> Carries(d, k)
                              /\ Brings(d, k)' => Brings(d, k)
  BY DEF Carries, Brings, SameCall
<1>5. HandsInv'
  <2> SUFFICES ASSUME NEW k \in 1 .. Len(tokens)
               PROVE  Unknown(k)' /\ (Clean(k)' => OneHand(k)' /\ Spent(k)')
    BY DEF HandsInv
  <2>1. Unknown(k) /\ (Clean(k)' => OneHand(k) /\ Spent(k))
    BY DEF AuthInv, HandsInv
  <2>2. Unknown(k)'
    BY <1>4, <2>1 DEF Unknown
  <2>3. Clean(k)' => OneHand(k)'
    BY <1>4, <2>1 DEF OneHand, SameCall
  <2>4. ASSUME Clean(k)' PROVE Spent(k)'
    <3>1. Clean(k) /\ tokens'[k] = tokens[k] /\ Spent(k)
      BY <2>1, <2>4
    <3>2. \A d \in Calls : Carries(d, k) => call'[d].at = call[d].at
      BY <3>1 DEF Carries
    <3> QED
      BY <1>4, <3>1, <3>2 DEF Spent
  <2> QED
    BY <2>2, <2>3, <2>4
<1>6. ChainInv'
  <2> SUFFICES ASSUME NEW j \in 1 .. Len(tokens), NEW k \in 1 .. Len(tokens), Clean(k)',
                      tokens[j].session = tokens[k].session
               PROVE  GoesOn(j, k)'
    BY DEF ChainInv
  <2>1. Clean(j)' /\ Clean(k) /\ tokens'[j] = tokens[j] /\ tokens'[k] = tokens[k]
    BY DEF Clean
  <2>2. GoesOn(j, k)
    BY <2>1 DEF AuthInv, ChainInv
  <2>3. \A d \in Calls : call'[d].at = "mint" => call[d].at = "mint"
    OBVIOUS
  <2> QED
    BY <1>4, <2>1, <2>2, <2>3 DEF GoesOn
<1> QED
  BY <1>1, <1>2, <1>3, <1>5, <1>6 DEF AuthInv

\* A call that has met a burned token has its session in doubt: the second half of
\* Spent.
LEMMA Doubted ==
  ASSUME AuthInv, NEW c \in Calls, call[c].at \in {"alarm", "revoke"}
  PROVE  ~Clean(call[c].token)
BY TokenThere DEF AuthInv, HandsInv, Spent, Carries, Rotation

\* A call goes on by itself.
LEMMA MovesOn ==
  ASSUME AuthInv, NEW c \in Calls, NEW to \in CallPlaces, call' = [call EXCEPT ![c].at = to]
  PROVE  /\ call' \in [Calls -> CallRecords] /\ \A d \in Calls : SameCall(d)
         /\ call'[c].at = to /\ \A d \in Calls : d # c => call'[d].at = call[d].at
BY DEF AuthInv, AuthTypeOK, CallRecords, SameCall

LEMMA RevokeTokensKept == ASSUME AuthInv, NEW c \in Calls, Auth!RevokeTokens(c) PROVE AuthInv'
<1> DEFINE s == tokens[call[c].token].session
           f(k) == IF tokens[k].session = s THEN [tokens[k] EXCEPT !.burned = TRUE] ELSE tokens[k]
<1>1. /\ call[c].at = "alarm" /\ call' = [call EXCEPT ![c].at = "revoke"]
      /\ tokens' = [k \in DOMAIN tokens |-> f(k)]
      /\ UNCHANGED <<active, sessions, storage, tab, replayed, crossed>>
  BY DEF Auth!RevokeTokens, Auth!Moves, Auth!SessionOf, Auth!ghosts
<1>2. /\ call' \in [Calls -> CallRecords] /\ \A d \in Calls : SameCall(d)
      /\ \A d \in Calls : d # c => call'[d].at = call[d].at
  BY <1>1, MovesOn DEF CallPlaces, Rotation
<1>3. Len(tokens) \in Nat /\ tokens \in Seq([session : Nat, burned : BOOLEAN])
  BY LenProperties DEF AuthInv, AuthTypeOK
<1>4. /\ \A k \in 1 .. Len(tokens) : /\ f(k) \in [session : Nat, burned : BOOLEAN]
                                     /\ f(k).session = tokens[k].session
      /\ DOMAIN tokens = 1 .. Len(tokens)
  <2>1. ASSUME NEW k \in 1 .. Len(tokens)
        PROVE  f(k) \in [session : Nat, burned : BOOLEAN] /\ f(k).session = tokens[k].session
    <3>1. tokens[k] \in [session : Nat, burned : BOOLEAN]
      BY <1>3, ElementOfSeq
    <3> QED
      BY <3>1
  <2> QED
    BY <1>3, <2>1, LenProperties
<1>5. /\ tokens' \in Seq([session : Nat, burned : BOOLEAN]) /\ Len(tokens') = Len(tokens)
      /\ \A k \in 1 .. Len(tokens) : tokens'[k] = f(k)
  <2>1. tokens' \in [1 .. Len(tokens) -> [session : Nat, burned : BOOLEAN]]
    BY <1>1, <1>4
  <2> QED
    BY <1>1, <1>3, <1>4, <2>1, FunctionIsSeq
<1>6. \A k \in 1 .. Len(tokens) : tokens'[k].session = tokens[k].session
  BY <1>4, <1>5
<1>7. ~Clean(call[c].token)
  BY <1>1, Doubted
<1>8. \A k \in 1 .. Len(tokens) : Clean(k)' => Clean(k) /\ tokens'[k] = tokens[k]
  <2>1. \A k \in 1 .. Len(tokens) : Clean(k)' <=> Clean(k)
    BY <1>1, <1>6 DEF Clean
  <2>2. \A k \in 1 .. Len(tokens) : Clean(k) => tokens[k].session # s
    BY <1>7 DEF Clean
  <2> QED
    BY <1>5, <2>1, <2>2
<1> HIDE DEF s, f
<1>9. EndsAreKnown'
  BY <1>1 DEF AuthInv, EndsAreKnown
<1> QED
  <2>1. call[c].at \in Rotation /\ call'[c].at \in {"revoke", "deny"}
    BY <1>1, MovesOn DEF CallPlaces, Rotation
  <2>2. sessions' \in Seq(BOOLEAN) /\ Len(sessions') = Len(sessions) /\ active' \in BOOLEAN
    BY <1>1 DEF AuthInv, AuthTypeOK
  <2> QED
    BY <1>1, <1>2, <1>5, <1>6, <1>7, <1>8, <1>9, <2>1, <2>2, SessionsEnd

\* An alarm is raised for no session that two tabs have not crossed, while the
\* store is installed.
LEMMA RevokeSessionKept == ASSUME AuthInv, NEW c \in Calls, Auth!RevokeSession(c) PROVE AuthInv'
<1> DEFINE s == tokens[call[c].token].session
<1>1. /\ call[c].at = "revoke" /\ call' = [call EXCEPT ![c].at = "deny"]
      /\ sessions' = [sessions EXCEPT ![s] = FALSE] /\ replayed' = replayed \cup {s}
      /\ UNCHANGED <<active, tokens, storage, tab, crossed>>
  BY DEF Auth!RevokeSession, Auth!Moves, Auth!SessionOf
<1>2. /\ call' \in [Calls -> CallRecords] /\ \A d \in Calls : SameCall(d)
      /\ call'[c].at = "deny" /\ \A d \in Calls : d # c => call'[d].at = call[d].at
  BY <1>1, MovesOn DEF CallPlaces
<1>3. s \in 1 .. Len(sessions) /\ ~Clean(call[c].token)
  BY <1>1, TokenThere, Doubted DEF Rotation
<1>4. ~sessions[s] \/ s \in crossed
  BY <1>3 DEF Clean
<1> HIDE DEF s
<1>5. /\ sessions' \in Seq(BOOLEAN) /\ Len(sessions') = Len(sessions)
      /\ \A i \in 1 .. Len(sessions) : sessions'[i] = IF i = s THEN FALSE ELSE sessions[i]
  <2>1. sessions \in Seq(BOOLEAN) /\ FALSE \in BOOLEAN
    BY DEF AuthInv, AuthTypeOK
  <2>2. /\ [sessions EXCEPT ![s] = FALSE] \in Seq(BOOLEAN)
        /\ Len([sessions EXCEPT ![s] = FALSE]) = Len(sessions)
    BY <1>3, <2>1, ExceptSeq
  <2> QED
    BY <1>1, <1>3, <2>1, <2>2, LenProperties
<1>6. EndsAreKnown'
  BY <1>1, <1>3, <1>4, <1>5 DEF AuthInv, EndsAreKnown
<1>7. \A k \in 1 .. Len(tokens) : Clean(k)' => Clean(k)
  BY <1>1, <1>5 DEF AuthInv, Refers, Clean
<1>8. call[c].at \in Rotation
  BY <1>1 DEF Rotation
<1>9. /\ tokens' \in Seq([session : Nat, burned : BOOLEAN]) /\ Len(tokens') = Len(tokens)
      /\ active' \in BOOLEAN
  BY <1>1 DEF AuthInv, AuthTypeOK
<1> QED
  BY <1>1, <1>2, <1>3, <1>5, <1>6, <1>7, <1>8, <1>9, SessionsEnd

LEMMA UninstalledKept == ASSUME AuthInv, Auth!Uninstalled PROVE AuthInv'
<1> DEFINE f(k) == [tokens[k] EXCEPT !.burned = TRUE]
<1>1. /\ active' = FALSE /\ sessions' = [s \in DOMAIN sessions |-> FALSE]
      /\ tokens' = [k \in DOMAIN tokens |-> f(k)]
      /\ UNCHANGED <<storage, tab, call, replayed, crossed>>
  BY DEF Auth!Uninstalled, Auth!ghosts
<1>2. /\ Len(tokens) \in Nat /\ tokens \in Seq([session : Nat, burned : BOOLEAN])
      /\ Len(sessions) \in Nat /\ sessions \in Seq(BOOLEAN)
      /\ DOMAIN tokens = 1 .. Len(tokens) /\ DOMAIN sessions = 1 .. Len(sessions)
  BY LenProperties DEF AuthInv, AuthTypeOK
<1>3. \A k \in 1 .. Len(tokens) : /\ f(k) \in [session : Nat, burned : BOOLEAN]
                                  /\ f(k).session = tokens[k].session
  <2> SUFFICES ASSUME NEW k \in 1 .. Len(tokens)
               PROVE  f(k) \in [session : Nat, burned : BOOLEAN] /\ f(k).session = tokens[k].session
    OBVIOUS
  <2>1. tokens[k] \in [session : Nat, burned : BOOLEAN]
    BY <1>2, ElementOfSeq
  <2> QED
    BY <2>1
<1>4. /\ tokens' \in Seq([session : Nat, burned : BOOLEAN]) /\ Len(tokens') = Len(tokens)
      /\ \A k \in 1 .. Len(tokens) : tokens'[k] = f(k)
  <2>1. tokens' \in [1 .. Len(tokens) -> [session : Nat, burned : BOOLEAN]]
    BY <1>1, <1>2, <1>3
  <2> QED
    BY <1>1, <1>2, <2>1, FunctionIsSeq
<1>5. \A k \in 1 .. Len(tokens) : tokens'[k].session = tokens[k].session
  BY <1>3, <1>4
<1> HIDE DEF f
<1>6. /\ sessions' \in Seq(BOOLEAN) /\ Len(sessions') = Len(sessions)
      /\ \A i \in 1 .. Len(sessions) : ~sessions'[i]
  <2>1. sessions' \in [1 .. Len(sessions) -> BOOLEAN]
    BY <1>1, <1>2
  <2> QED
    BY <1>1, <1>2, <2>1, FunctionIsSeq
<1>7. \A k \in 1 .. Len(tokens) : ~Clean(k)'
  BY <1>5, <1>6 DEF AuthInv, Refers, Clean
<1>8. EndsAreKnown'
  BY <1>1, <1>6 DEF AuthInv, EndsAreKnown
<1>9. /\ call' \in [Calls -> CallRecords] /\ \A d \in Calls : SameCall(d) /\ call'[d].at = call[d].at
      /\ active' \in BOOLEAN
  BY <1>1 DEF AuthInv, AuthTypeOK, SameCall
<1> QED
  BY <1>1, <1>4, <1>5, <1>6, <1>7, <1>8, <1>9, SessionsEnd

-----------------------------------------------------------------------------
\* What a tab may do to the hands: let a token go. A clean token that a browser goes on
\* keeping stays with the call that carries it.
HandsLetGo ==
  /\ UNCHANGED <<active, sessions, tokens, replayed>> /\ crossed \subseteq crossed'
  /\ storage' \in [Users -> Nat] /\ \A u \in Users : storage'[u] = storage[u] \/ storage'[u] = 0
  /\ \A d \in Calls : \A k \in 1 .. Len(tokens) :
       /\ Carries(d, k)' => Carries(d, k) /\ call'[d].at = call[d].at
       /\ Brings(d, k)' => Brings(d, k)
       /\ \A u \in Users : Clean(k)' /\ storage'[u] = k /\ Carries(d, k) =>
            Carries(d, k)' /\ call'[d].tab = call[d].tab

LEMMA LetGo ==
  ASSUME AuthInv, HandsLetGo, Refers', Paired', call' \in [Calls -> CallRecords],
         tab' \in [Tabs -> [status : TabStatuses, call : Calls \cup {Auth!Nobody}]]
  PROVE  AuthInv'
<1>1. AuthTypeOK'
  BY DEF AuthInv, AuthTypeOK, HandsLetGo
<1>2. /\ \A k \in 1 .. Len(tokens) : Clean(k)' => Clean(k)
      /\ \A u \in Users : \A k \in 1 .. Len(tokens) : storage'[u] = k => storage[u] = k
      /\ Len(tokens) \in Nat
  BY LenProperties DEF AuthInv, AuthTypeOK, HandsLetGo, Clean
<1>3. HandsInv'
  <2> SUFFICES ASSUME NEW k \in 1 .. Len(tokens)
               PROVE  Unknown(k)' /\ (Clean(k)' => OneHand(k)' /\ Spent(k)')
    BY DEF HandsInv, HandsLetGo
  <2>1. Unknown(k) /\ (Clean(k) => OneHand(k) /\ Spent(k))
    BY DEF AuthInv, HandsInv
  <2>2. \A d \in Calls : (Carries(d, k)' => Carries(d, k)) /\ (Brings(d, k)' => Brings(d, k))
    BY DEF HandsLetGo
  <2>3. Unknown(k)'
    BY <1>2, <2>1, <2>2 DEF Unknown
  <2>4. ASSUME Clean(k)' PROVE OneHand(k)' /\ Spent(k)'
    <3>1. OneHand(k) /\ Spent(k)
      BY <1>2, <2>1, <2>4
    <3>2. \A d \in Calls, u \in Users : storage'[u] = k /\ Carries(d, k) =>
            Carries(d, k)' /\ call'[d].tab = call[d].tab
      BY <2>4 DEF HandsLetGo
    <3>3. OneHand(k)'
      BY <1>2, <2>2, <3>1, <3>2 DEF OneHand
    <3>4. \A d \in Calls : Carries(d, k)' => call'[d].at = call[d].at
      BY DEF HandsLetGo
    <3>5. tokens' = tokens
      BY DEF HandsLetGo
    <3>6. Spent(k)'
      BY <1>2, <2>2, <3>1, <3>2, <3>4, <3>5 DEF Spent
    <3> QED
      BY <3>3, <3>6
  <2> QED
    BY <2>3, <2>4
<1>4. ChainInv'
  <2> SUFFICES ASSUME NEW j \in 1 .. Len(tokens), NEW k \in 1 .. Len(tokens), Clean(k),
                      tokens[j].session = tokens[k].session
               PROVE  GoesOn(j, k)'
    BY <1>2 DEF ChainInv, HandsLetGo
  <2>1. GoesOn(j, k)
    BY DEF AuthInv, ChainInv
  <2>2. \A d \in Calls : /\ Carries(d, j)' => Carries(d, j) /\ call'[d].at = call[d].at
                         /\ Carries(d, k)' => Carries(d, k) /\ call'[d].at = call[d].at
    BY DEF HandsLetGo
  <2>3. tokens' = tokens
    BY DEF HandsLetGo
  <2> QED
    BY <2>1, <2>2, <2>3 DEF GoesOn
<1>5. EndsAreKnown'
  BY DEF AuthInv, EndsAreKnown, HandsLetGo
<1> QED
  BY <1>1, <1>3, <1>4, <1>5 DEF AuthInv

\* A tab that waits for nothing has no call, and a free call no tab.
LEMMA NoCall ==
  ASSUME AuthInv, NEW t \in Tabs, tab[t].call = Auth!Nobody
  PROVE  \A d \in Calls : call[d].tab # t
BY AuthAssumption DEF AuthInv, Paired

\* The tab and the call find each other,
LEMMA PairsUp ==
  ASSUME AuthInv, NEW t \in Tabs, NEW c \in Calls,
         tab[t].call = Auth!Nobody, call[c].tab = Auth!Nobody,
         tab'[t].call = c, call'[c].tab = t, tab'[t].status # "closed",
         \A u \in Tabs : u # t => tab'[u] = tab[u],
         \A d \in Calls : d # c => call'[d].tab = call[d].tab
  PROVE  Paired'
<1>1. \A d \in Calls : call[d].tab \in Tabs \cup {Auth!Nobody}
  BY DEF AuthInv, AuthTypeOK, CallRecords
<1>2. \A u \in Tabs : tab[u].call \in Calls \cup {Auth!Nobody}
  BY DEF AuthInv, AuthTypeOK
<1>3. Paired
  BY DEF AuthInv
<1> QED
  BY <1>1, <1>2, <1>3, NoCall, AuthAssumption DEF Paired

\* and lose each other.
LEMMA PairsOff ==
  ASSUME AuthInv, NEW t \in Tabs, NEW c \in Calls, tab[t].call = c,
         tab'[t].call = Auth!Nobody, call'[c].tab = Auth!Nobody,
         \A u \in Tabs : u # t => tab'[u] = tab[u],
         \A d \in Calls : d # c => call'[d].tab = call[d].tab
  PROVE  Paired'
<1>1. \A d \in Calls : call[d].tab \in Tabs \cup {Auth!Nobody}
  BY DEF AuthInv, AuthTypeOK, CallRecords
<1>2. \A u \in Tabs : tab[u].call \in Calls \cup {Auth!Nobody}
  BY DEF AuthInv, AuthTypeOK
<1>3. Paired
  BY DEF AuthInv
<1> QED
  BY <1>1, <1>2, <1>3, AuthAssumption DEF Paired

\* The call a tab waits for.
LEMMA OwnCall ==
  ASSUME AuthInv, NEW t \in Tabs, tab[t].call # Auth!Nobody
  PROVE  /\ tab[t].call \in Calls /\ call[tab[t].call].tab = t /\ t # Auth!Nobody
         /\ call[tab[t].call].at # "free"
BY AuthAssumption DEF AuthInv, AuthTypeOK, Paired, Refers

LEMMA FreeType == Auth!Free \in CallRecords /\ Auth!Free.tab = Auth!Nobody /\ Auth!Free.token = 0
                  /\ Auth!Free.at = "free" /\ Auth!Free.new = 0 /\ Auth!Free.kind = "none"
BY DEF Auth!Free, CallRecords, CallPlaces

LEMMA ClosedType == Auth!Closed \in [status : TabStatuses, call : Calls \cup {Auth!Nobody}]
                    /\ Auth!Closed.call = Auth!Nobody
BY DEF Auth!Closed, TabStatuses

\* A request of a tab.
LEMMA Requested ==
  ASSUME AuthInv, NEW t \in Tabs, NEW c \in Calls, NEW sort \in {"login", "refresh"},
         NEW place \in {"login", "read"}, NEW token \in Nat, Auth!Request(t, c, sort, place, token)
  PROVE  /\ call[c].at = "free" /\ call[c].tab = Auth!Nobody /\ call[c].token = 0
         /\ call' \in [Calls -> CallRecords]
         /\ call'[c].at = place /\ call'[c].kind = sort /\ call'[c].tab = t
         /\ call'[c].token = token /\ call'[c].new = 0
         /\ \A d \in Calls : d # c => call'[d] = call[d]
<1> DEFINE r == [Auth!Free EXCEPT !.at = place, !.kind = sort, !.tab = t,
                                  !.user = Browser[t], !.token = token]
<1>1. call[c].at = "free" /\ call' = [call EXCEPT ![c] = r]
  BY DEF Auth!Request
<1>2. /\ r \in CallRecords /\ r.at = place /\ r.kind = sort /\ r.tab = t /\ r.token = token
      /\ r.new = 0
  BY BrowserType DEF Auth!Free, CallRecords, CallPlaces, Rotation
<1>3. call \in [Calls -> CallRecords]
  BY DEF AuthInv, AuthTypeOK
<1> HIDE DEF r
<1> QED
  BY <1>1, <1>2, <1>3 DEF AuthInv, Refers

\* A login carries nothing.
LEMMA BootEmbeddedKept ==
  ASSUME AuthInv, NEW t \in Tabs, NEW c \in Calls, Auth!BootEmbedded(t, c) PROVE AuthInv'
<1>1. /\ tab[t].status = "closed" /\ Auth!Request(t, c, "login", "login", 0)
      /\ tab' = [tab EXCEPT ![t] = [status |-> "booting", call |-> c]]
      /\ UNCHANGED <<active, sessions, tokens, storage, replayed, crossed>>
  BY DEF Auth!BootEmbedded, Auth!db, Auth!ghosts
<1>2. /\ call[c].at = "free" /\ call[c].tab = Auth!Nobody /\ call[c].token = 0
      /\ call' \in [Calls -> CallRecords]
      /\ call'[c].at = "login" /\ call'[c].kind = "login" /\ call'[c].tab = t
      /\ call'[c].token = 0 /\ call'[c].new = 0
      /\ \A d \in Calls : d # c => call'[d] = call[d]
  BY <1>1, Requested
<1>3. tab[t].call = Auth!Nobody
  BY <1>1 DEF AuthInv, Paired
<1>4. /\ tab' \in [Tabs -> [status : TabStatuses, call : Calls \cup {Auth!Nobody}]]
      /\ tab'[t].call = c /\ tab'[t].status # "closed"
      /\ \A u \in Tabs : u # t => tab'[u] = tab[u]
  BY <1>1 DEF AuthInv, AuthTypeOK, TabStatuses
<1>5. Paired'
  BY <1>2, <1>3, <1>4, PairsUp
<1>6. Refers'
  BY <1>1, <1>2, LenProperties DEF AuthInv, AuthTypeOK, Refers, Rotation
<1>7. HandsLetGo
  <2>1. /\ \A k \in 1 .. Len(tokens) : ~Carries(c, k)' /\ ~Carries(c, k) /\ ~Brings(c, k)'
        /\ \A d \in Calls : d # c => \A k \in 1 .. Len(tokens) :
             (Carries(d, k)' <=> Carries(d, k)) /\ (Brings(d, k)' <=> Brings(d, k))
    BY <1>2 DEF Carries, Brings
  <2>2. storage \in [Users -> Nat]
    BY DEF AuthInv, AuthTypeOK
  <2> QED
    BY <1>1, <1>2, <2>1, <2>2 DEF HandsLetGo
<1> QED
  BY <1>2, <1>4, <1>5, <1>6, <1>7, LetGo

LEMMA BootStandaloneKept ==
  ASSUME AuthInv, NEW t \in Tabs, Auth!BootStandalone(t) \/ Auth!SignOut(t) PROVE AuthInv'
<1>1. /\ tab' = [tab EXCEPT ![t].status = "standalone"]
      /\ UNCHANGED <<active, sessions, tokens, replayed, crossed, call>>
      /\ storage' = storage \/ storage' = [storage EXCEPT ![Browser[t]] = 0]
  BY DEF Auth!BootStandalone, Auth!SignOut, Auth!db, Auth!ghosts
<1>2. /\ tab' \in [Tabs -> [status : TabStatuses, call : Calls \cup {Auth!Nobody}]]
      /\ \A u \in Tabs : /\ tab'[u].call = tab[u].call
                         /\ tab'[u].status = "closed" => tab[u].status = "closed"
  <2> DEFINE r == [tab[t] EXCEPT !.status = "standalone"]
  <2>1. tab \in [Tabs -> [status : TabStatuses, call : Calls \cup {Auth!Nobody}]]
    BY DEF AuthInv, AuthTypeOK
  <2>2. /\ r \in [status : TabStatuses, call : Calls \cup {Auth!Nobody}]
        /\ r.call = tab[t].call /\ r.status = "standalone"
    BY <2>1 DEF TabStatuses
  <2>3. tab' = [tab EXCEPT ![t] = r]
    BY <1>1
  <2> HIDE DEF r
  <2> QED
    BY <2>1, <2>2, <2>3
<1>3. Paired'
  BY <1>1, <1>2 DEF AuthInv, Paired
<1>4. storage' \in [Users -> Nat] /\ \A u \in Users : storage'[u] = storage[u] \/ storage'[u] = 0
  BY <1>1 DEF AuthInv, AuthTypeOK
<1>5. Refers'
  BY <1>1, <1>4, LenProperties DEF AuthInv, AuthTypeOK, Refers
<1>6. HandsLetGo
  BY <1>1, <1>4 DEF HandsLetGo, Carries, Brings
<1>7. call' \in [Calls -> CallRecords]
  BY <1>1 DEF AuthInv, AuthTypeOK
<1> QED
  BY <1>2, <1>3, <1>5, <1>6, <1>7, LetGo

\* The answer of a tab that has gone: a clean token it carried is in no storage.
LEMMA UnheardKept == ASSUME AuthInv, NEW c \in Calls, Auth!Unheard(c) PROVE AuthInv'
<1>1. /\ call[c].tab = Auth!Nobody /\ call' = [call EXCEPT ![c] = Auth!Free]
      /\ UNCHANGED <<active, sessions, tokens, storage, tab, replayed, crossed>>
  BY DEF Auth!Unheard, Auth!db, Auth!ghosts
<1>2. /\ call' \in [Calls -> CallRecords] /\ call'[c] = Auth!Free
      /\ \A d \in Calls : d # c => call'[d] = call[d]
  BY <1>1, FreeType DEF AuthInv, AuthTypeOK
<1>3. Paired'
  BY <1>1, <1>2, FreeType, AuthAssumption DEF AuthInv, AuthTypeOK, CallRecords, Paired
<1>4. Refers'
  BY <1>1, <1>2, FreeType, LenProperties DEF AuthInv, AuthTypeOK, Refers, Rotation
<1>5. ASSUME NEW u \in Users, NEW k \in 1 .. Len(tokens), Clean(k), storage[u] = k
      PROVE  ~Carries(c, k)
  BY <1>1, <1>5 DEF AuthInv, HandsInv, OneHand
<1>6. /\ \A k \in 1 .. Len(tokens) : ~Carries(c, k)' /\ ~Brings(c, k)'
      /\ \A d \in Calls : d # c => \A k \in 1 .. Len(tokens) :
           (Carries(d, k)' <=> Carries(d, k)) /\ (Brings(d, k)' <=> Brings(d, k))
  BY <1>2, FreeType DEF Carries, Brings
<1>7. \A k \in 1 .. Len(tokens) : Clean(k)' <=> Clean(k)
  BY <1>1 DEF Clean
<1>8. HandsLetGo
  <2>1. storage \in [Users -> Nat]
    BY DEF AuthInv, AuthTypeOK
  <2> QED
    BY <1>1, <1>2, <1>5, <1>6, <1>7, <2>1 DEF HandsLetGo
<1>9. tab' \in [Tabs -> [status : TabStatuses, call : Calls \cup {Auth!Nobody}]]
  BY <1>1 DEF AuthInv, AuthTypeOK
<1> QED
  BY <1>2, <1>3, <1>4, <1>8, <1>9, LetGo

\* A tab gives up: a refresh takes the token out of the storage of its browser.
LEMMA GivesUp ==
  ASSUME AuthInv, NEW t \in Tabs, NEW c \in Calls, tab[t].call = c, Auth!GaveUp(t, c)
  PROVE  /\ tab' \in [Tabs -> [status : TabStatuses, call : Calls \cup {Auth!Nobody}]]
         /\ tab'[t].call = Auth!Nobody /\ \A u \in Tabs : u # t => tab'[u] = tab[u]
         /\ storage' \in [Users -> Nat]
         /\ \A u \in Users : storage'[u] = storage[u] \/ storage'[u] = 0
         /\ storage'[Browser[t]] = 0 \/ call[c].token = 0
<1>1. /\ tab \in [Tabs -> [status : TabStatuses, call : Calls \cup {Auth!Nobody}]]
      /\ storage \in [Users -> Nat] /\ Browser[t] \in Users
  BY BrowserType DEF AuthInv, AuthTypeOK
<1>2. CASE call[c].kind = "login"
  BY <1>1, <1>2, ClosedType DEF Auth!GaveUp, AuthInv, Refers
<1>3. CASE call[c].kind # "login"
  <2> DEFINE r == [status |-> IF tab[t].status = "booting" THEN "standalone" ELSE tab[t].status,
                   call |-> Auth!Nobody]
  <2>1. r \in [status : TabStatuses, call : Calls \cup {Auth!Nobody}] /\ r.call = Auth!Nobody
    BY <1>1 DEF TabStatuses
  <2>2. tab' = [tab EXCEPT ![t] = r] /\ storage' = [storage EXCEPT ![Browser[t]] = 0]
    BY <1>3 DEF Auth!GaveUp
  <2> HIDE DEF r
  <2> QED
    BY <1>1, <2>1, <2>2
<1> QED
  BY <1>2, <1>3

\* The hands when the call of a tab is over for it, and the browser of the tab keeps
\* the token no more, or the token is not clean.
LEMMA OneLetsGo ==
  ASSUME AuthInv, NEW t \in Tabs, NEW c \in Calls, tab[t].call = c,
         UNCHANGED <<active, sessions, tokens, replayed>>, crossed \subseteq crossed',
         storage' \in [Users -> Nat],
         \A u \in Users : storage'[u] = storage[u] \/ storage'[u] = 0,
         storage'[Browser[t]] = 0 \/ call[c].token = 0
           \/ tokens[call[c].token].session \in crossed',
         \A d \in Calls : d # c => call'[d] = call[d],
         \/ call'[c] = Auth!Free
         \/ call'[c].at = call[c].at /\ call'[c].token = call[c].token /\ call'[c].new = call[c].new
  PROVE  HandsLetGo
<1>1. call[c].tab = t
  BY OwnCall, AuthAssumption
<1>2. \A k \in 1 .. Len(tokens) :
        (Carries(c, k)' => Carries(c, k) /\ call'[c].at = call[c].at) /\ (Brings(c, k)' => Brings(c, k))
  BY FreeType DEF Carries, Brings
<1>3. \A d \in Calls : d # c => \A k \in 1 .. Len(tokens) :
        (Carries(d, k)' <=> Carries(d, k)) /\ (Brings(d, k)' <=> Brings(d, k))
  BY DEF Carries, Brings
<1>4. ASSUME NEW k \in 1 .. Len(tokens), NEW u \in Users, Clean(k)', storage'[u] = k, Carries(c, k)
      PROVE  FALSE
  <2>1. Clean(k)
    BY <1>4 DEF Clean
  <2>2. storage[u] = k
    BY <1>4
  <2>3. u = Browser[t]
    BY <1>1, <1>4, <2>1, <2>2 DEF AuthInv, HandsInv, OneHand
  <2>4. call[c].token = k /\ k # 0 /\ tokens'[k].session \notin crossed'
    BY <1>4 DEF Carries, Clean
  <2> QED
    BY <1>4, <2>3, <2>4
<1> QED
  BY <1>2, <1>3, <1>4 DEF HandsLetGo

LEMMA RefersLess ==
  ASSUME AuthInv, UNCHANGED <<sessions, tokens>>,
         \A u \in Users : storage'[u] = storage[u] \/ storage'[u] = 0,
         \A d \in Calls : \/ call'[d] = Auth!Free
                          \/ /\ call[d].at # "free" /\ call'[d].at = call[d].at
                             /\ call'[d].token = call[d].token /\ call'[d].new = call[d].new
                             /\ call'[d].kind = call[d].kind
                          \/ call'[d] = call[d]
  PROVE  Refers'
<1>1. Len(tokens) \in Nat
  BY LenProperties DEF AuthInv, AuthTypeOK
<1>2. Refers
  BY DEF AuthInv
<1>3. \A k \in 1 .. Len(tokens') : tokens'[k].session \in 1 .. Len(sessions')
  BY <1>2 DEF Refers
<1>4. \A u \in Users : storage'[u] <= Len(tokens')
  BY <1>1, <1>2 DEF Refers
<1>5. ASSUME NEW d \in Calls
      PROVE  /\ call'[d].token <= Len(tokens') /\ call'[d].new <= Len(tokens')
             /\ call'[d].at \in Rotation => call'[d].token # 0
             /\ call'[d].kind = "login" => call'[d].token = 0
             /\ call'[d].at = "answer" => call'[d].new # 0
             /\ call'[d].at = "free" => call'[d].token = 0 /\ call'[d].tab = Auth!Nobody
  <2>1. CASE call'[d] = Auth!Free
    BY <1>1, <2>1, FreeType DEF Rotation
  <2>2. CASE call'[d] # Auth!Free
    BY <1>2, <2>2 DEF Refers
  <2> QED
    BY <2>1, <2>2
<1> QED
  BY <1>3, <1>4, <1>5 DEF Refers

LEMMA RefusedKept ==
  ASSUME AuthInv, NEW t \in Tabs, NEW c \in Calls, Auth!Refused(t, c) PROVE AuthInv'
<1>1. /\ tab[t].call = c /\ Auth!GaveUp(t, c) /\ call' = [call EXCEPT ![c] = Auth!Free]
      /\ UNCHANGED <<active, sessions, tokens, replayed, crossed>>
  BY DEF Auth!Refused, Auth!db, Auth!ghosts
<1>2. /\ tab' \in [Tabs -> [status : TabStatuses, call : Calls \cup {Auth!Nobody}]]
      /\ tab'[t].call = Auth!Nobody /\ \A u \in Tabs : u # t => tab'[u] = tab[u]
      /\ storage' \in [Users -> Nat]
      /\ \A u \in Users : storage'[u] = storage[u] \/ storage'[u] = 0
      /\ storage'[Browser[t]] = 0 \/ call[c].token = 0
  BY <1>1, GivesUp
<1>3. /\ call' \in [Calls -> CallRecords] /\ call'[c] = Auth!Free
      /\ \A d \in Calls : d # c => call'[d] = call[d]
  BY <1>1, FreeType DEF AuthInv, AuthTypeOK
<1>4. Paired'
  BY <1>1, <1>2, <1>3, FreeType, PairsOff
<1>5. Refers'
  BY <1>1, <1>2, <1>3, RefersLess
<1>6. HandsLetGo
  BY <1>1, <1>2, <1>3, OneLetsGo
<1> QED
  BY <1>2, <1>3, <1>4, <1>5, <1>6, LetGo

\* The call of a tab that no longer listens.
LEMMA Deserted ==
  ASSUME AuthInv, NEW c \in Calls, call[c].at # "free",
         call' = [call EXCEPT ![c].tab = Auth!Nobody]
  PROVE  /\ call' \in [Calls -> CallRecords] /\ call'[c].tab = Auth!Nobody
         /\ call'[c].at = call[c].at /\ call'[c].token = call[c].token
         /\ call'[c].new = call[c].new /\ call'[c].kind = call[c].kind
         /\ \A d \in Calls : d # c => call'[d] = call[d]
BY DEF AuthInv, AuthTypeOK, CallRecords

LEMMA BreaksKept == ASSUME AuthInv, NEW t \in Tabs, Auth!Breaks(t) PROVE AuthInv'
<1> DEFINE c == tab[t].call
<1>1. /\ c # Auth!Nobody /\ Auth!GaveUp(t, c) /\ call' = [call EXCEPT ![c].tab = Auth!Nobody]
      /\ UNCHANGED <<active, sessions, tokens, replayed, crossed>>
  BY DEF Auth!Breaks, Auth!Waits, Auth!db, Auth!ghosts
<1>2. c \in Calls /\ call[c].at # "free" /\ tab[t].call = c
  BY <1>1, OwnCall
<1> HIDE DEF c
<1>3. /\ tab' \in [Tabs -> [status : TabStatuses, call : Calls \cup {Auth!Nobody}]]
      /\ tab'[t].call = Auth!Nobody /\ \A u \in Tabs : u # t => tab'[u] = tab[u]
      /\ storage' \in [Users -> Nat]
      /\ \A u \in Users : storage'[u] = storage[u] \/ storage'[u] = 0
      /\ storage'[Browser[t]] = 0 \/ call[c].token = 0
  BY <1>1, <1>2, GivesUp
<1>4. /\ call' \in [Calls -> CallRecords] /\ call'[c].tab = Auth!Nobody
      /\ call'[c].at = call[c].at /\ call'[c].token = call[c].token
      /\ call'[c].new = call[c].new /\ call'[c].kind = call[c].kind
      /\ \A d \in Calls : d # c => call'[d] = call[d]
  BY <1>1, <1>2, Deserted
<1>5. Paired'
  BY <1>2, <1>3, <1>4, PairsOff
<1>6. Refers'
  BY <1>1, <1>2, <1>3, <1>4, RefersLess
<1>7. HandsLetGo
  BY <1>1, <1>2, <1>3, <1>4, OneLetsGo
<1> QED
  BY <1>3, <1>4, <1>5, <1>6, <1>7, LetGo

\* Closing it with its call on the way puts the token in two hands.
LEMMA CloseKept == ASSUME AuthInv, NEW t \in Tabs, Auth!Close(t) PROVE AuthInv'
<1>1. /\ tab' = [tab EXCEPT ![t] = Auth!Closed]
      /\ UNCHANGED <<active, sessions, tokens, replayed, storage>>
  BY DEF Auth!Close, Auth!db
<1>2. /\ tab' \in [Tabs -> [status : TabStatuses, call : Calls \cup {Auth!Nobody}]]
      /\ tab'[t].call = Auth!Nobody /\ \A u \in Tabs : u # t => tab'[u] = tab[u]
  BY <1>1, ClosedType DEF AuthInv, AuthTypeOK
<1>3. storage \in [Users -> Nat] /\ \A u \in Users : storage'[u] = storage[u]
  BY <1>1 DEF AuthInv, AuthTypeOK
<1>4. CASE tab[t].call # Auth!Nobody
  <2> DEFINE c == tab[t].call
  <2>1. /\ call' = [call EXCEPT ![c].tab = Auth!Nobody]
        /\ crossed' = IF call[c].kind = "login" THEN crossed
                      ELSE crossed \cup {tokens[call[c].token].session}
    BY <1>4 DEF Auth!Close, Auth!Waits
  <2>2. c \in Calls /\ call[c].at # "free" /\ tab[t].call = c
    BY <1>4, OwnCall
  <2> HIDE DEF c
  <2>3. /\ call' \in [Calls -> CallRecords] /\ call'[c].tab = Auth!Nobody
        /\ call'[c].at = call[c].at /\ call'[c].token = call[c].token
        /\ call'[c].new = call[c].new /\ call'[c].kind = call[c].kind
        /\ \A d \in Calls : d # c => call'[d] = call[d]
    BY <2>1, <2>2, Deserted
  <2>4. Paired'
    BY <1>2, <2>2, <2>3, PairsOff
  <2>5. Refers'
    BY <1>1, <2>2, <2>3 DEF AuthInv, Refers, Rotation
  <2>6. /\ crossed \subseteq crossed'
        /\ call[c].token = 0 \/ tokens[call[c].token].session \in crossed'
    BY <2>1, <2>2 DEF AuthInv, Refers
  <2>7. HandsLetGo
    BY <1>1, <1>3, <2>2, <2>3, <2>6, OneLetsGo
  <2> QED
    BY <1>2, <2>3, <2>4, <2>5, <2>7, LetGo
<1>5. CASE tab[t].call = Auth!Nobody
  <2>1. UNCHANGED <<call, crossed>>
    BY <1>5 DEF Auth!Close, Auth!Waits
  <2>2. Paired'
    BY <1>2, <1>5, <2>1, NoCall, AuthAssumption DEF AuthInv, AuthTypeOK, CallRecords, Paired
  <2>3. Refers'
    BY <1>1, <2>1 DEF AuthInv, Refers
  <2>4. HandsLetGo
    BY <1>1, <1>3, <2>1 DEF HandsLetGo, Carries, Brings
  <2>5. call' \in [Calls -> CallRecords]
    BY <2>1 DEF AuthInv, AuthTypeOK
  <2> QED
    BY <1>2, <2>2, <2>3, <2>4, <2>5, LetGo
<1> QED
  BY <1>4, <1>5

\* A refresh takes the token of its storage. If another tab has it on its way, the
\* session has been crossed; if not, nobody has, for this tab waits for nothing.
LEMMA RefreshKept ==
  ASSUME AuthInv, NEW t \in Tabs, NEW c \in Calls, Auth!BootStored(t, c) \/ Auth!Unauthorized(t, c)
  PROVE  AuthInv'
<1>1. PICK state \in {"booting", "ready"} : Auth!Refresh(t, c, state)
  BY DEF Auth!BootStored, Auth!Unauthorized
<1>2. PICK n : n = storage[Browser[t]]
  OBVIOUS
<1>3. /\ n # 0 /\ Auth!Request(t, c, "refresh", "read", n)
      /\ crossed' = IF Auth!Shares(t, n) THEN crossed \cup {tokens[n].session} ELSE crossed
      /\ tab' = [tab EXCEPT ![t] = [status |-> state, call |-> c]]
  BY <1>1, <1>2 DEF Auth!Refresh
<1>4. UNCHANGED <<active, sessions, tokens, storage, replayed>>
  BY DEF Auth!BootStored, Auth!Unauthorized, Auth!db
<1>5. tab[t].call = Auth!Nobody
  BY DEF Auth!BootStored, Auth!Unauthorized, Auth!Waits, AuthInv, Paired
<1>6. n \in 1 .. Len(tokens) /\ n \in Nat /\ Len(tokens) \in Nat /\ Browser[t] \in Users
  <2>1. Browser[t] \in Users /\ Len(tokens) \in Nat
    BY BrowserType, LenProperties DEF AuthInv, AuthTypeOK
  <2>2. n \in Nat /\ n <= Len(tokens)
    BY <1>2, <2>1 DEF AuthInv, AuthTypeOK, Refers
  <2> QED
    BY <1>3, <2>1, <2>2
<1>7. /\ call[c].at = "free" /\ call[c].tab = Auth!Nobody /\ call[c].token = 0
      /\ call' \in [Calls -> CallRecords]
      /\ call'[c].at = "read" /\ call'[c].kind = "refresh" /\ call'[c].tab = t
      /\ call'[c].token = n /\ call'[c].new = 0
      /\ \A d \in Calls : d # c => call'[d] = call[d]
  BY <1>3, <1>6, Requested
<1>8. /\ tab' \in [Tabs -> [status : TabStatuses, call : Calls \cup {Auth!Nobody}]]
      /\ tab'[t].call = c /\ tab'[t].status # "closed"
      /\ \A u \in Tabs : u # t => tab'[u] = tab[u]
  BY <1>3 DEF AuthInv, AuthTypeOK, TabStatuses
<1>9. AuthTypeOK'
  BY <1>4, <1>7, <1>8 DEF AuthInv, AuthTypeOK
<1>10. Paired'
  BY <1>5, <1>7, <1>8, PairsUp
<1>11. Refers'
  BY <1>4, <1>6, <1>7 DEF AuthInv, Refers, Rotation
<1>12. /\ \A k \in 1 .. Len(tokens) : ~Carries(c, k) /\ ~Brings(c, k)' /\ (Carries(c, k)' <=> k = n)
       /\ \A d \in Calls : d # c => \A k \in 1 .. Len(tokens) :
            (Carries(d, k)' <=> Carries(d, k)) /\ (Brings(d, k)' <=> Brings(d, k))
  BY <1>7 DEF Carries, Brings
<1>13. \A k \in 1 .. Len(tokens) : Clean(k)' => Clean(k)
  BY <1>3, <1>4 DEF Clean
<1>14. \A d \in Calls : ~Brings(d, n)
  BY <1>6, <1>2 DEF AuthInv, HandsInv, Unknown
<1>15. ASSUME Clean(n)', NEW d \in Calls PROVE ~Carries(d, n)
  <2>1. ~Auth!Shares(t, n)
    BY <1>3, <1>4, <1>15 DEF Clean
  <2>2. call[d].tab # t
    BY <1>5, NoCall
  <2>3. call[d].at = "free" \/ call[d].token # n
    BY <2>1, <2>2 DEF Auth!Shares
  <2> QED
    BY <1>6, <2>3 DEF AuthInv, Refers, Carries
<1>16. HandsInv'
  <2> SUFFICES ASSUME NEW k \in 1 .. Len(tokens)
               PROVE  Unknown(k)' /\ (Clean(k)' => OneHand(k)' /\ Spent(k)')
    BY <1>4 DEF HandsInv
  <2>1. Unknown(k) /\ (Clean(k)' => OneHand(k) /\ Spent(k))
    BY <1>13 DEF AuthInv, HandsInv
  <2>2. CASE k = n
    <3>1. Unknown(k)'
      BY <1>12, <1>14, <2>2 DEF Unknown
    <3>2. ASSUME Clean(k)' PROVE OneHand(k)' /\ Spent(k)'
      <4>1. OneHand(k) /\ Spent(k) /\ \A d \in Calls : ~Carries(d, k)
        BY <1>15, <2>1, <2>2, <3>2
      <4>2. \A d \in Calls : (Carries(d, k)' <=> d = c) /\ ~Brings(d, k)'
        BY <1>12, <1>14, <2>2, <4>1
      <4>3. \A u \in Users : storage'[u] = k => u = Browser[t]
        BY <1>4, <1>6, <1>2, <2>2, <4>1 DEF OneHand
      <4>4. OneHand(k)'
        BY <1>7, <4>2, <4>3, AuthAssumption DEF OneHand
      <4>5. ~tokens[k].burned
        BY <1>6, <1>2, <2>2, <4>1 DEF Spent
      <4>6. Spent(k)'
        BY <1>4, <1>7, <4>2, <4>5 DEF Spent
      <4> QED
        BY <4>4, <4>6
    <3> QED
      BY <3>1, <3>2
  <2>3. CASE k # n
    <3>1. \A d \in Calls : (Carries(d, k)' <=> Carries(d, k)) /\ (Brings(d, k)' => Brings(d, k))
      BY <1>12, <2>3
    <3>2. \A d \in Calls : Carries(d, k)' => call'[d] = call[d]
      BY <1>7, <1>12, <2>3
    <3>3. Unknown(k)'
      BY <1>4, <2>1, <3>1 DEF Unknown
    <3>4. Clean(k)' => OneHand(k)'
      BY <1>4, <2>1, <3>1, <3>2 DEF OneHand
    <3>5. Clean(k)' => Spent(k)'
      BY <1>4, <2>1, <3>1, <3>2 DEF Spent
    <3> QED
      BY <3>3, <3>4, <3>5
  <2> QED
    BY <2>2, <2>3
<1>17. ChainInv'
  <2> SUFFICES ASSUME NEW j \in 1 .. Len(tokens), NEW k \in 1 .. Len(tokens), Clean(k),
                      tokens[j].session = tokens[k].session
               PROVE  GoesOn(j, k)'
    BY <1>4, <1>13 DEF ChainInv
  <2>1. GoesOn(j, k)
    BY DEF AuthInv, ChainInv
  <2>2. \A d \in Calls : call'[d].at = "mint" => d # c /\ call'[d] = call[d]
    BY <1>7
  <2> QED
    BY <1>4, <1>12, <2>1, <2>2 DEF GoesOn
<1>18. EndsAreKnown'
  BY <1>3, <1>4 DEF AuthInv, EndsAreKnown
<1> QED
  BY <1>9, <1>10, <1>11, <1>16, <1>17, <1>18 DEF AuthInv

\* The new token is in the storage, and the old one nowhere.
LEMMA AppliedKept ==
  ASSUME AuthInv, NEW t \in Tabs, NEW c \in Calls, Auth!Applied(t, c) PROVE AuthInv'
<1> DEFINE n == call[c].new
<1>1. /\ tab[t].call = c /\ call[c].at = "answer"
      /\ storage' = [storage EXCEPT ![Browser[t]] = n]
      /\ tab' = [tab EXCEPT ![t] = [status |-> "ready", call |-> Auth!Nobody]]
      /\ call' = [call EXCEPT ![c] = Auth!Free]
      /\ UNCHANGED <<active, sessions, tokens, replayed, crossed>>
  BY DEF Auth!Applied, Auth!Stored, Auth!db, Auth!ghosts
<1>2. n \in 1 .. Len(tokens) /\ n \in Nat /\ Len(tokens) \in Nat /\ Brings(c, n)
  BY <1>1, LenProperties DEF AuthInv, AuthTypeOK, CallRecords, Refers, Brings
<1> HIDE DEF n
<1>3. /\ call' \in [Calls -> CallRecords] /\ call'[c] = Auth!Free
      /\ \A d \in Calls : d # c => call'[d] = call[d]
  BY <1>1, FreeType DEF AuthInv, AuthTypeOK
<1>4. /\ tab' \in [Tabs -> [status : TabStatuses, call : Calls \cup {Auth!Nobody}]]
      /\ tab'[t].call = Auth!Nobody /\ \A u \in Tabs : u # t => tab'[u] = tab[u]
  BY <1>1 DEF AuthInv, AuthTypeOK, TabStatuses
<1>5. /\ storage' \in [Users -> Nat] /\ Browser[t] \in Users
      /\ \A u \in Users : storage'[u] = IF u = Browser[t] THEN n ELSE storage[u]
  BY <1>1, <1>2, BrowserType DEF AuthInv, AuthTypeOK
<1>6. call[c].tab = t
  BY <1>1, OwnCall, AuthAssumption
<1>7. AuthTypeOK'
  BY <1>1, <1>3, <1>4, <1>5 DEF AuthInv, AuthTypeOK
<1>8. Paired'
  BY <1>1, <1>3, <1>4, FreeType, PairsOff
<1>9. Refers'
  <2>1. /\ \A k \in 1 .. Len(tokens') : tokens'[k].session \in 1 .. Len(sessions')
        /\ \A u \in Users : storage'[u] <= Len(tokens')
    BY <1>1, <1>2, <1>5 DEF AuthInv, Refers
  <2>2. ASSUME NEW d \in Calls
        PROVE  /\ call'[d].token <= Len(tokens') /\ call'[d].new <= Len(tokens')
               /\ call'[d].at \in Rotation => call'[d].token # 0
               /\ call'[d].kind = "login" => call'[d].token = 0
               /\ call'[d].at = "answer" => call'[d].new # 0
               /\ call'[d].at = "free" => call'[d].token = 0 /\ call'[d].tab = Auth!Nobody
    <3>1. CASE d = c
      BY <1>1, <1>2, <1>3, <3>1, FreeType DEF Rotation
    <3>2. CASE d # c
      BY <1>1, <1>3, <3>2 DEF AuthInv, Refers
    <3> QED
      BY <3>1, <3>2
  <2> QED
    BY <2>1, <2>2 DEF Refers
<1>10. /\ \A k \in 1 .. Len(tokens) : ~Carries(c, k)' /\ ~Brings(c, k)'
       /\ \A d \in Calls : d # c => \A k \in 1 .. Len(tokens) :
            (Carries(d, k)' <=> Carries(d, k)) /\ (Brings(d, k)' <=> Brings(d, k))
  BY <1>3, FreeType DEF Carries, Brings
<1>11. \A k \in 1 .. Len(tokens) : Clean(k)' <=> Clean(k)
  BY <1>1 DEF Clean
<1>12. /\ \A u \in Users : storage[u] # n
       /\ \A d \in Calls : ~Carries(d, n) /\ (d # c => ~Brings(d, n))
  BY <1>2 DEF AuthInv, HandsInv, Unknown
<1>13. HandsInv'
  <2> SUFFICES ASSUME NEW k \in 1 .. Len(tokens)
               PROVE  Unknown(k)' /\ (Clean(k) => OneHand(k)' /\ Spent(k)')
    BY <1>1, <1>11 DEF HandsInv
  <2>1. Unknown(k) /\ (Clean(k) => OneHand(k) /\ Spent(k))
    BY DEF AuthInv, HandsInv
  <2>2. CASE k = n
    <3>1. \A d \in Calls : ~Carries(d, k)' /\ ~Brings(d, k)'
      BY <1>10, <1>12, <2>2
    <3>2. \A u \in Users : storage'[u] = k => u = Browser[t]
      BY <1>5, <1>12, <2>2
    <3>3. Clean(k) => ~tokens[k].burned
      BY <1>2, <2>1, <2>2 DEF Spent
    <3>4. Unknown(k)' /\ OneHand(k)'
      BY <3>1, <3>2 DEF Unknown, OneHand
    <3>5. Clean(k) => Spent(k)'
      BY <1>1, <3>1, <3>3 DEF Spent
    <3> QED
      BY <3>4, <3>5
  <2>3. CASE k # n
    <3>1. \A d \in Calls : /\ Carries(d, k)' => Carries(d, k) /\ d # c /\ call'[d] = call[d]
                           /\ Brings(d, k)' => Brings(d, k)
      BY <1>3, <1>10
    <3>2. \A u \in Users : storage'[u] = k => storage[u] = k /\ u # Browser[t]
      BY <1>5, <2>3
    <3>3. Unknown(k)'
      BY <2>1, <3>1, <3>2 DEF Unknown
    <3>4. Clean(k) => OneHand(k)'
      BY <2>1, <3>1, <3>2 DEF OneHand
    <3>5. ASSUME Clean(k) PROVE Spent(k)'
      <4>1. OneHand(k) /\ Spent(k)
        BY <2>1, <3>5
      <4>2. ASSUME tokens[k].burned, NEW u \in Users, storage'[u] = k
            PROVE  \E d \in Calls : Carries(d, k)'
        <5>1. PICK d \in Calls : Carries(d, k)
          BY <3>2, <4>1, <4>2 DEF Spent
        <5>2. d # c
          BY <1>6, <3>2, <4>1, <4>2, <5>1 DEF OneHand
        <5> QED
          BY <1>10, <5>1, <5>2
      <4> QED
        BY <1>1, <3>1, <4>1, <4>2 DEF Spent
    <3> QED
      BY <3>3, <3>4, <3>5
  <2> QED
    BY <2>2, <2>3
<1>14. ChainInv'
  <2> SUFFICES ASSUME NEW j \in 1 .. Len(tokens), NEW k \in 1 .. Len(tokens), Clean(k),
                      tokens[j].session = tokens[k].session
               PROVE  GoesOn(j, k)'
    BY <1>1, <1>11 DEF ChainInv
  <2>1. GoesOn(j, k)
    BY DEF AuthInv, ChainInv
  <2>2. \A d \in Calls : call'[d].at = "mint" => d # c /\ call'[d] = call[d]
    BY <1>3, FreeType
  <2> QED
    BY <1>1, <1>10, <2>1, <2>2 DEF GoesOn
<1>15. EndsAreKnown'
  BY <1>1 DEF AuthInv, EndsAreKnown
<1> QED
  BY <1>7, <1>8, <1>9, <1>13, <1>14, <1>15 DEF AuthInv

LEMMA AuthKept == AuthInv /\ [Auth!AuthNext]_authVars => AuthInv'
<1>1. ASSUME AuthInv, NEW c \in Calls, Auth!Serves(c) PROVE AuthInv'
  BY <1>1, ServerMoves, IssueKept, BurnKept, MintKept, RevokeTokensKept, RevokeSessionKept,
     UnheardKept DEF Auth!Serves
<1>2. ASSUME AuthInv, NEW t \in Tabs, Auth!Browses(t) PROVE AuthInv'
  BY <1>2, BootStandaloneKept, BreaksKept, CloseKept, BootEmbeddedKept, RefreshKept,
     AppliedKept, RefusedKept DEF Auth!Browses
<1>3. ASSUME AuthInv, UNCHANGED authVars PROVE AuthInv'
  <2>1. UNCHANGED <<active, sessions, tokens, storage, tab, call, replayed, crossed>>
    BY <1>3 DEF authVars
  <2>2. AuthTypeOK' /\ Refers' /\ Paired' /\ EndsAreKnown'
    BY <1>3, <2>1 DEF AuthInv, AuthTypeOK, Refers, Paired, EndsAreKnown
  <2>3. HandsInv' /\ ChainInv'
    BY <1>3, <2>1 DEF AuthInv, HandsInv, ChainInv, Unknown, OneHand, Spent, GoesOn, Clean,
                      Carries, Brings
  <2> QED
    BY <2>2, <2>3 DEF AuthInv
<1> QED
  BY <1>1, <1>2, <1>3, UninstalledKept DEF Auth!AuthNext

LEMMA AuthCardinality == \A S : Auth!Cardinality(S) = Cardinality(S)
BY DEF Auth!Cardinality, Cardinality

LEMMA AtMostOne ==
  ASSUME NEW S, \A x, y \in S : x = y
  PROVE  Cardinality(S) <= 1
<1>1. CASE S = {}
  BY <1>1, FS_EmptySet
<1>2. ASSUME NEW x \in S PROVE Cardinality(S) <= 1
  <2>1. S = {x}
    OBVIOUS
  <2> QED
    BY <2>1, FS_Singleton
<1> QED
  BY <1>1, <1>2

LEMMA AuthPromise == AuthInv => Auth!ReuseIsTheft
<1> SUFFICES ASSUME AuthInv PROVE Auth!ReuseIsTheft
  OBVIOUS
<1>1. Auth!NoFalseAlarm
  BY DEF AuthInv, EndsAreKnown, Auth!NoFalseAlarm
<1>2. /\ DOMAIN sessions = 1 .. Len(sessions) /\ DOMAIN tokens = 1 .. Len(tokens)
  BY LenProperties DEF AuthInv, AuthTypeOK
<1>3. Auth!OneChain
  <2> SUFFICES ASSUME NEW s \in 1 .. Len(sessions)
               PROVE  LET good == {k \in DOMAIN tokens : tokens[k].session = s /\ Auth!Good(k)}
                      IN  IF s \in replayed THEN good = {}
                          ELSE s \in crossed \/ Auth!Cardinality(good) <= 1
    BY <1>2 DEF Auth!OneChain
  <2> DEFINE good == {k \in DOMAIN tokens : tokens[k].session = s /\ Auth!Good(k)}
  <2>1. CASE s \in replayed
    BY <2>1 DEF AuthInv, EndsAreKnown, Auth!Good
  <2>2. ASSUME s \notin crossed, NEW j \in good, NEW k \in good PROVE j = k
    BY <1>2, <2>2 DEF AuthInv, ChainInv, GoesOn, Clean, Auth!Good
  <2>3. CASE s \notin replayed
    BY <2>2, <2>3, AtMostOne, AuthCardinality
  <2> QED
    BY <2>1, <2>3
<1> QED
  BY <1>1, <1>3 DEF Auth!ReuseIsTheft

\* While the store is installed an honest browser keeps its session, with one chain of
\* tokens, unless two hands had one of them; and a session that was replayed is over for
\* good, whatever is lost, fails or is refreshed at once.
THEOREM ReuseIsTheftAlways == Spec => []ReuseIsTheft
<1> DEFINE Inv == part = "auth" => AuthInv
<1>1. Init => Inv
  BY AuthInit
<1>2. Inv /\ [Next]_platformVars => Inv'
  <2> SUFFICES ASSUME Inv, [Next]_platformVars, part' = "auth" PROVE AuthInv'
    OBVIOUS
  <2>1. part = "auth" /\ AuthInv
    BY PartStays
  <2> QED
    BY <2>1, AuthSteps, AuthKept
<1>3. Inv => ReuseIsTheft
  BY AuthPromise DEF ReuseIsTheft
<1> QED
  BY <1>1, <1>2, <1>3, PTL DEF Spec, platformVars

-----------------------------------------------------------------------------
(* Sums over finite sets, by the least set that lacks something.            *)

\* Of naturals there is a least one: what fails, fails somewhere first.
LEMMA LeastNat ==
  ASSUME NEW T \in SUBSET Nat, T # {}
  PROVE  \E n \in T : \A m \in T : n <= m
<1> DEFINE R == {ss \in Nat \X Nat : ss[1] < ss[2]}
<1>1. OpToRel(<, Nat) = R
  BY DEF OpToRel
<1>2. IsWellFoundedOn(R, Nat)
  BY <1>1, NatLessThanWellFounded
<1> HIDE DEF R
<1>3. PICK n \in T : \A m \in T : ~(<<m, n>> \in R)
  BY <1>2, WFMin
<1>4. ASSUME NEW m \in T, m < n PROVE FALSE
  <2>1. <<m, n>> \in Nat \X Nat
    OBVIOUS
  <2>2. <<m, n>>[1] < <<m, n>>[2]
    BY <1>4
  <2>3. <<m, n>> \in R
    BY <2>1, <2>2 DEF R
  <2> QED BY <1>3, <2>3
<1> QED BY <1>4

\* The least of the finite sets that lack something.
LEMMA LeastSet ==
  ASSUME NEW S, IsFiniteSet(S), NEW B \in SUBSET (SUBSET S), B # {}
  PROVE  \E b \in B : IsFiniteSet(b) /\ \A x \in b : b \ {x} \notin B
<1> DEFINE N == {n \in Nat : \E b \in B : Cardinality(b) = n}
<1>1. \A b \in B : IsFiniteSet(b) /\ Cardinality(b) \in Nat
  BY FS_Subset, FS_CardinalityType
<1>2. PICK n \in N : \A m \in N : n <= m
  BY <1>1, LeastNat
<1>3. PICK b \in B : Cardinality(b) = n
  BY <1>2
<1>4. ASSUME NEW x \in b PROVE b \ {x} \notin B
  <2>1. Cardinality(b \ {x}) = n - 1 /\ n - 1 \in Nat
    <3>1. IsFiniteSet(b \ {x}) /\ Cardinality(b \ {x}) = Cardinality(b) - 1
      BY <1>1, FS_RemoveElement
    <3> QED BY <1>3, <3>1, FS_CardinalityType
  <2>2. b \ {x} \in B => n - 1 \in N
    BY <2>1
  <2> QED
    BY <1>2, <2>1, <2>2
<1> QED
  BY <1>1, <1>4

\* The community modules fold a finite set by taking an element, then the rest.
AnyOf(s) == CHOOSE x \in s : TRUE

IsFold(g, e, S) ==
  g = [s \in SUBSET S |-> IF s = {} THEN 0 ELSE e[AnyOf(s)] + g[s \ {AnyOf(s)}]]

SumOver(e, S) == (CHOOSE g : IsFold(g, e, S))[S]

\* Two folds of the same summands agree on every finite set that both have.
LEMMA FoldsAgree ==
  ASSUME NEW e, NEW S, NEW g, NEW T, NEW h, IsFold(g, e, S), IsFold(h, e, T),
         NEW U \in SUBSET S, U \in SUBSET T, IsFiniteSet(U)
  PROVE  g[U] = h[U]
<1> DEFINE B == {u \in SUBSET U : g[u] # h[u]}
<1> SUFFICES ASSUME B # {} PROVE FALSE
  OBVIOUS
<1>1. PICK b \in B : \A x \in b : b \ {x} \notin B
  BY LeastSet
<1>2. /\ g[b] = IF b = {} THEN 0 ELSE e[AnyOf(b)] + g[b \ {AnyOf(b)}]
      /\ h[b] = IF b = {} THEN 0 ELSE e[AnyOf(b)] + h[b \ {AnyOf(b)}]
  <2>1. b \in SUBSET S /\ b \in SUBSET T
    OBVIOUS
  <2> QED BY <2>1 DEF IsFold
<1>3. b # {} => AnyOf(b) \in b
  BY DEF AnyOf
<1> QED
  BY <1>1, <1>2, <1>3

\* A fold over a set is one over each of its parts.
LEMMA FoldValue ==
  ASSUME NEW e, NEW S, IsFiniteSet(S), NEW g, IsFold(g, e, S), NEW U \in SUBSET S
  PROVE  /\ \E h : IsFold(h, e, U)
         /\ SumOver(e, U) = g[U]
<1> DEFINE h == [u \in SUBSET U |-> g[u]]
<1>1. IsFold(h, e, U)
  <2>1. \A u \in SUBSET U : u # {} => AnyOf(u) \in u
    BY DEF AnyOf
  <2>2. \A u \in SUBSET U : u \in SUBSET S /\ u \ {AnyOf(u)} \in SUBSET U
    OBVIOUS
  <2>3. \A u \in SUBSET S : g[u] = IF u = {} THEN 0 ELSE e[AnyOf(u)] + g[u \ {AnyOf(u)}]
    BY DEF IsFold
  <2>4. h = [u \in SUBSET U |-> IF u = {} THEN 0 ELSE e[AnyOf(u)] + h[u \ {AnyOf(u)}]]
    BY <2>2, <2>3
  <2> QED BY <2>4 DEF IsFold
<1>2. IsFiniteSet(U)
  BY FS_Subset
<1>3. IsFold(CHOOSE k : IsFold(k, e, U), e, U)
  BY <1>1
<1> QED
  BY <1>1, <1>2, <1>3, FoldsAgree DEF SumOver

\* A finite set has a fold.
LEMMA FoldExists ==
  ASSUME NEW e, NEW S, IsFiniteSet(S)
  PROVE  \E g : IsFold(g, e, S)
<1> DEFINE B == {u \in SUBSET S : ~ \E g : IsFold(g, e, u)}
<1> SUFFICES ASSUME B # {} PROVE FALSE
  OBVIOUS
<1>1. PICK b \in B : IsFiniteSet(b) /\ \A x \in b : b \ {x} \notin B
  BY LeastSet
<1>2. ASSUME NEW x \in b, NEW u \in SUBSET (b \ {x})
      PROVE  SumOver(e, u) = IF u = {} THEN 0 ELSE e[AnyOf(u)] + SumOver(e, u \ {AnyOf(u)})
  <2>1. PICK g : IsFold(g, e, b \ {x})
    BY <1>1
  <2>2. IsFiniteSet(b \ {x})
    BY <1>1, FS_RemoveElement
  <2>3. SumOver(e, u) = g[u] /\ SumOver(e, u \ {AnyOf(u)}) = g[u \ {AnyOf(u)}]
    <3>1. u \ {AnyOf(u)} \in SUBSET (b \ {x})
      OBVIOUS
    <3> QED BY <2>1, <2>2, <3>1, FoldValue
  <2>4. g[u] = IF u = {} THEN 0 ELSE e[AnyOf(u)] + g[u \ {AnyOf(u)}]
    BY <2>1 DEF IsFold
  <2> QED BY <2>3, <2>4
<1> DEFINE g == [s \in SUBSET b |-> IF s = {} THEN 0 ELSE e[AnyOf(s)] + SumOver(e, s \ {AnyOf(s)})]
<1>3. ASSUME NEW s \in SUBSET b, s # {}
      PROVE  g[s \ {AnyOf(s)}] = SumOver(e, s \ {AnyOf(s)})
  <2>1. AnyOf(s) \in s
    BY <1>3 DEF AnyOf
  <2>2. AnyOf(s) \in b /\ s \ {AnyOf(s)} \in SUBSET (b \ {AnyOf(s)}) /\ s \ {AnyOf(s)} \in SUBSET b
    BY <2>1
  <2>3. PICK u : u = s \ {AnyOf(s)}
    OBVIOUS
  <2>4. SumOver(e, u) = IF u = {} THEN 0 ELSE e[AnyOf(u)] + SumOver(e, u \ {AnyOf(u)})
    BY <2>2, <2>3, <1>2
  <2>5. g[u] = IF u = {} THEN 0 ELSE e[AnyOf(u)] + SumOver(e, u \ {AnyOf(u)})
    BY <2>2, <2>3
  <2> QED BY <2>3, <2>4, <2>5
<1>4. g = [s \in SUBSET b |-> IF s = {} THEN 0 ELSE e[AnyOf(s)] + g[s \ {AnyOf(s)}]]
  BY <1>3
<1>5. IsFold(g, e, b)
  BY <1>4 DEF IsFold
<1> QED
  BY <1>5

\* The sum by the equation of its fold.
LEMMA SumEquation ==
  ASSUME NEW e, NEW S, IsFiniteSet(S)
  PROVE  SumOver(e, S) = IF S = {} THEN 0 ELSE e[AnyOf(S)] + SumOver(e, S \ {AnyOf(S)})
<1>1. PICK g : IsFold(g, e, S)
  BY FoldExists
<1>2. g[S] = IF S = {} THEN 0 ELSE e[AnyOf(S)] + g[S \ {AnyOf(S)}]
  <2>1. S \in SUBSET S
    OBVIOUS
  <2> QED BY <1>1, <2>1 DEF IsFold
<1>3. SumOver(e, S) = g[S] /\ SumOver(e, S \ {AnyOf(S)}) = g[S \ {AnyOf(S)}]
  BY <1>1, FoldValue
<1> QED
  BY <1>2, <1>3

\* A sum of naturals is one.
LEMMA SumNat ==
  ASSUME NEW S, IsFiniteSet(S), NEW e, \A x \in S : e[x] \in Nat
  PROVE  SumOver(e, S) \in Nat
<1> DEFINE B == {u \in SUBSET S : SumOver(e, u) \notin Nat}
<1> SUFFICES ASSUME B # {} PROVE FALSE
  OBVIOUS
<1>1. PICK b \in B : IsFiniteSet(b) /\ \A x \in b : b \ {x} \notin B
  BY LeastSet
<1>2. SumOver(e, b) = IF b = {} THEN 0 ELSE e[AnyOf(b)] + SumOver(e, b \ {AnyOf(b)})
  BY <1>1, SumEquation
<1>3. b # {} => AnyOf(b) \in b
  BY DEF AnyOf
<1> QED
  BY <1>1, <1>2, <1>3

\* Any of the summands may be taken first.
LEMMA SumStep ==
  ASSUME NEW S, IsFiniteSet(S), NEW e, \A x \in S : e[x] \in Nat, NEW y \in S
  PROVE  SumOver(e, S) = e[y] + SumOver(e, S \ {y})
<1> DEFINE B == {u \in SUBSET S : \E z \in u : SumOver(e, u) # e[z] + SumOver(e, u \ {z})}
<1> SUFFICES ASSUME B # {} PROVE FALSE
  OBVIOUS
<1>1. PICK b \in B : IsFiniteSet(b) /\ \A x \in b : b \ {x} \notin B
  BY LeastSet
<1>2. PICK z \in b : SumOver(e, b) # e[z] + SumOver(e, b \ {z})
  OBVIOUS
<1>3. PICK c \in b : SumOver(e, b) = e[c] + SumOver(e, b \ {c})
  <2>1. AnyOf(b) \in b
    BY DEF AnyOf
  <2>2. SumOver(e, b) = IF b = {} THEN 0 ELSE e[AnyOf(b)] + SumOver(e, b \ {AnyOf(b)})
    BY <1>1, SumEquation
  <2> QED BY <2>1, <2>2
<1>4. c # z
  BY <1>2, <1>3
<1>5. /\ SumOver(e, b \ {c}) = e[z] + SumOver(e, (b \ {c}) \ {z})
      /\ SumOver(e, b \ {z}) = e[c] + SumOver(e, (b \ {z}) \ {c})
  <2>1. b \ {c} \in SUBSET S /\ b \ {z} \in SUBSET S /\ z \in b \ {c} /\ c \in b \ {z}
    BY <1>4
  <2> QED BY <1>1, <2>1
<1>6. (b \ {z}) \ {c} = (b \ {c}) \ {z}
  OBVIOUS
<1>7. SumOver(e, (b \ {c}) \ {z}) \in Nat /\ e[c] \in Nat /\ e[z] \in Nat
  <2>1. IsFiniteSet((b \ {c}) \ {z})
    BY <1>1, FS_RemoveElement
  <2> QED BY <2>1, SumNat
<1>8. PICK n \in Nat : n = SumOver(e, (b \ {c}) \ {z})
  BY <1>7
<1>9. SumOver(e, b) = e[c] + (e[z] + n) /\ e[z] + SumOver(e, b \ {z}) = e[z] + (e[c] + n)
  BY <1>3, <1>5, <1>6, <1>8
<1> QED
  BY <1>2, <1>7, <1>9

\* Greater summands, a greater sum.
LEMMA SumMonotone ==
  ASSUME NEW S, IsFiniteSet(S), NEW e, NEW f, \A x \in S : e[x] \in Nat /\ f[x] \in Nat /\ e[x] <= f[x]
  PROVE  SumOver(e, S) <= SumOver(f, S)
<1> DEFINE B == {u \in SUBSET S : ~(SumOver(e, u) <= SumOver(f, u))}
<1> SUFFICES ASSUME B # {} PROVE FALSE
  OBVIOUS
<1>1. PICK b \in B : IsFiniteSet(b) /\ \A x \in b : b \ {x} \notin B
  BY LeastSet
<1>2. CASE b = {}
  <2>1. SumOver(e, b) = 0 /\ SumOver(f, b) = 0
    BY <1>1, <1>2, SumEquation
  <2> QED BY <2>1
<1>3. CASE b # {}
  <2>1. PICK z : z \in b
    BY <1>3
  <2>2. SumOver(e, b) = e[z] + SumOver(e, b \ {z}) /\ SumOver(f, b) = f[z] + SumOver(f, b \ {z})
    BY <1>1, <2>1, SumStep
  <2>3. IsFiniteSet(b \ {z}) /\ b \ {z} \in SUBSET S
    BY <1>1, FS_RemoveElement
  <2>4. SumOver(e, b \ {z}) \in Nat /\ SumOver(f, b \ {z}) \in Nat
    BY <2>3, SumNat
  <2>5. SumOver(e, b \ {z}) <= SumOver(f, b \ {z})
    BY <1>1, <2>1, <2>3
  <2> QED BY <2>1, <2>2, <2>4, <2>5
<1> QED
  BY <1>2, <1>3

\* Nothing, any number of times.
LEMMA SumZero ==
  ASSUME NEW S, IsFiniteSet(S), NEW e, \A x \in S : e[x] = 0
  PROVE  SumOver(e, S) = 0
<1> DEFINE B == {u \in SUBSET S : SumOver(e, u) # 0}
<1> SUFFICES ASSUME B # {} PROVE FALSE
  OBVIOUS
<1>1. PICK b \in B : IsFiniteSet(b) /\ \A x \in b : b \ {x} \notin B
  BY LeastSet
<1>2. SumOver(e, b) = IF b = {} THEN 0 ELSE e[AnyOf(b)] + SumOver(e, b \ {AnyOf(b)})
  BY <1>1, SumEquation
<1>3. b # {} => AnyOf(b) \in b
  BY DEF AnyOf
<1> QED
  BY <1>1, <1>2, <1>3

\* A summand that is n greater makes the sum n greater.
LEMMA SumGrows ==
  ASSUME NEW S, IsFiniteSet(S), NEW e, NEW f, \A x \in S : e[x] \in Nat /\ f[x] \in Nat /\ e[x] <= f[x],
         NEW y \in S, NEW n \in Nat, e[y] + n <= f[y]
  PROVE  SumOver(e, S) + n <= SumOver(f, S)
<1>1. IsFiniteSet(S \ {y})
  BY FS_RemoveElement
<1>2. /\ SumOver(e, S) = e[y] + SumOver(e, S \ {y})
      /\ SumOver(f, S) = f[y] + SumOver(f, S \ {y})
  BY SumStep
<1>3. SumOver(e, S \ {y}) \in Nat /\ SumOver(f, S \ {y}) \in Nat
  BY <1>1, SumNat
<1>4. SumOver(e, S \ {y}) <= SumOver(f, S \ {y})
  BY <1>1, SumMonotone
<1> QED
  BY <1>2, <1>3, <1>4

\* What is left out counts nothing.
LEMMA SumMask ==
  ASSUME NEW S, IsFiniteSet(S), NEW e, \A x \in S : e[x] \in Nat, NEW T \in SUBSET S
  PROVE  SumOver(e, T) = SumOver([x \in S |-> IF x \in T THEN e[x] ELSE 0], S)
<1> DEFINE f == [x \in S |-> IF x \in T THEN e[x] ELSE 0]
           B == {u \in SUBSET S : SumOver(e, u \cap T) # SumOver(f, u)}
<1>1. \A x \in S : f[x] = IF x \in T THEN e[x] ELSE 0
  OBVIOUS
<1> HIDE DEF f
<1>2. ASSUME B # {} PROVE FALSE
  <2>1. PICK b \in B : IsFiniteSet(b) /\ \A x \in b : b \ {x} \notin B
    BY <1>2, LeastSet
  <2>2. CASE b = {}
    <3>1. b \cap T = {}
      BY <2>2
    <3>2. SumOver(e, {}) = 0 /\ SumOver(f, {}) = 0
      BY FS_EmptySet, SumEquation
    <3> QED BY <2>2, <3>1, <3>2
  <2>3. CASE b # {}
    <3>1. PICK z : z \in b
      BY <2>3
    <3>2. IsFiniteSet(b \cap T) /\ (b \ {z}) \cap T = (b \cap T) \ {z}
      BY <2>1, FS_Subset
    <3>3. SumOver(f, b) = f[z] + SumOver(f, b \ {z})
      BY <1>1, <2>1, <3>1, SumStep
    <3>4. SumOver(e, (b \ {z}) \cap T) = SumOver(f, b \ {z})
      BY <2>1, <3>1
    <3>5. SumOver(f, b \ {z}) \in Nat
      <4>1. IsFiniteSet(b \ {z})
        BY <2>1, FS_RemoveElement
      <4> QED BY <1>1, <4>1, SumNat
    <3>6. CASE z \in T
      <4>1. SumOver(e, b \cap T) = e[z] + SumOver(e, (b \cap T) \ {z})
        BY <3>1, <3>2, <3>6, SumStep
      <4> QED BY <1>1, <3>1, <3>2, <3>3, <3>4, <3>6, <4>1
    <3>7. CASE z \notin T
      <4>1. (b \cap T) \ {z} = b \cap T
        BY <3>7
      <4>2. f[z] = 0
        BY <1>1, <3>1, <3>7
      <4> QED BY <3>2, <3>3, <3>4, <3>5, <4>1, <4>2
    <3> QED BY <3>6, <3>7
  <2> QED BY <2>2, <2>3
<1>3. S \notin B
  BY <1>2
<1>4. S \cap T = T
  OBVIOUS
<1> QED
  BY <1>3, <1>4 DEF f

-----------------------------------------------------------------------------
(* The usage rollup.                                                        *)

\* What the first k ledgers hold of a day.
ReadOf(u, k, d) == SumOver([l \in Rollup!Ledgers |-> u[l][d]], 1..k)

\* What the model folds is that sum.
LEMMA RollupTotal ==
  \A d : Rollup!Total(d) = ReadOf(used, Len(Sources), d)
<1> TAKE d
<1>1. DOMAIN [l \in Rollup!Ledgers |-> used[l][d]] = 1..Len(Sources)
  BY DEF Rollup!Ledgers
<1> QED
  BY <1>1 DEF Rollup!Total, Rollup!FoldFunction, Rollup!FoldFunctionOnSet, Rollup!MapThenFoldSet,
          ReadOf, SumOver, IsFold, AnyOf

RollupTypeOK ==
  /\ used \in [Rollup!Ledgers -> [Rollup!Dates -> Nat]]
  /\ bucket \in [Rollup!Dates -> Nat]
  /\ rolling \in [days : SUBSET Rollup!Dates, todo : Seq(Nat), sum : [Rollup!Dates -> Nat]]
  /\ behind \in SUBSET Rollup!Dates
  /\ lastRoll \in SUBSET Rollup!Dates

\* A rollup that has read k ledgers has the rest to read, and of its days at most what
\* those k hold, all of it of a day nothing has been added to.
HasRead(k) ==
  /\ rolling.todo = [i \in 1 .. Len(Sources) - k |-> k + i]
  /\ \A d \in rolling.days :
       /\ rolling.sum[d] <= ReadOf(used, k, d)
       /\ d \in lastRoll => rolling.sum[d] = ReadOf(used, k, d)

\* A bucket is never ahead of the ledgers, and behind them only where a unit came after
\* the last rollup of the day.
RollupInv ==
  /\ RollupTypeOK
  /\ \A d \in Rollup!Dates :
       /\ bucket[d] <= ReadOf(used, Len(Sources), d)
       /\ d \notin behind => bucket[d] = ReadOf(used, Len(Sources), d)
  /\ rolling.days \subseteq lastRoll \cup behind
  /\ \E k \in 0 .. Len(Sources) : HasRead(k)

\* A ledger more is what it holds more.
LEMMA RollupReads ==
  ASSUME NEW u \in [Rollup!Ledgers -> [Rollup!Dates -> Nat]], NEW d \in Rollup!Dates, NEW k \in 0 .. Len(Sources)
  PROVE  /\ ReadOf(u, k, d) \in Nat
         /\ ReadOf(u, 0, d) = 0
         /\ k < Len(Sources) => ReadOf(u, k + 1, d) = u[k + 1][d] + ReadOf(u, k, d)
<1>1. Len(Sources) \in Nat
  BY RollupAssumption, LenProperties
<1> DEFINE held == [l \in Rollup!Ledgers |-> u[l][d]]
<1>2. \A l \in Rollup!Ledgers : held[l] = u[l][d] /\ held[l] \in Nat
  OBVIOUS
<1> HIDE DEF held
<1>3. \A j \in 0 .. Len(Sources) : IsFiniteSet(1 .. j) /\ \A x \in 1 .. j : held[x] \in Nat
  BY <1>1, <1>2, FS_Interval DEF Rollup!Ledgers
<1>4. \A j \in 0 .. Len(Sources) : SumOver(held, 1 .. j) \in Nat
  BY <1>3, SumNat
<1>5. SumOver(held, 1 .. 0) = 0
  <2>1. 1 .. 0 = {}
    OBVIOUS
  <2> QED BY <2>1, FS_EmptySet, SumEquation
<1>6. ASSUME k < Len(Sources)
      PROVE  SumOver(held, 1 .. k + 1) = held[k + 1] + SumOver(held, 1 .. k)
  <2>1. k + 1 \in 0 .. Len(Sources) /\ k + 1 \in 1 .. k + 1
    BY <1>1, <1>6
  <2>2. (1 .. k + 1) \ {k + 1} = 1 .. k
    OBVIOUS
  <2>3. SumOver(held, 1 .. k + 1) = held[k + 1] + SumOver(held, (1 .. k + 1) \ {k + 1})
    BY <1>3, <2>1, SumStep
  <2> QED BY <2>2, <2>3
<1>7. k < Len(Sources) => held[k + 1] = u[k + 1][d]
  BY <1>1, <1>2 DEF Rollup!Ledgers
<1> QED
  BY <1>1, <1>4, <1>5, <1>6, <1>7 DEF ReadOf, held

LEMMA RollupSteps ==
  ASSUME part = "rollup", [Next]_platformVars
  PROVE  [Rollup!RollupNext]_rollupVars
BY DEF Next, Only, platformVars

LEMMA RollupStart == Init /\ part = "rollup" => RollupInv
<1> SUFFICES ASSUME Rollup!Init PROVE RollupInv
  BY DEF Init
<1>1. Len(Sources) \in Nat
  BY RollupAssumption, LenProperties
<1>2. RollupTypeOK
  BY DEF RollupTypeOK, Rollup!Init, Rollup!Resting
<1>3. \A d \in Rollup!Dates : ReadOf(used, Len(Sources), d) = 0
  <2> SUFFICES ASSUME NEW d \in Rollup!Dates PROVE ReadOf(used, Len(Sources), d) = 0
    OBVIOUS
  <2> DEFINE none == [l \in Rollup!Ledgers |-> 0]
  <2>1. [l \in Rollup!Ledgers |-> used[l][d]] = none
    BY DEF Rollup!Init
  <2>2. SumOver(none, 1 .. Len(Sources)) = 0
    <3>1. \A x \in 1 .. Len(Sources) : none[x] = 0
      BY DEF Rollup!Ledgers
    <3>2. IsFiniteSet(1 .. Len(Sources))
      BY <1>1, FS_Interval
    <3> HIDE DEF none
    <3> QED
      BY <3>1, <3>2, SumZero
  <2> QED BY <2>1, <2>2 DEF ReadOf
<1>4. HasRead(Len(Sources))
  BY <1>1 DEF HasRead, Rollup!Init, Rollup!Resting
<1> QED
  BY <1>1, <1>2, <1>3, <1>4 DEF RollupInv, Rollup!Init, Rollup!Resting

\* No step of the rollup, of a sender or of the clock, and no death, undoes it.
LEMMA RollupStep ==
  ASSUME RollupInv, [Rollup!RollupNext]_rollupVars
  PROVE  RollupInv'
<1>1. Len(Sources) \in Nat /\ RollupTypeOK
  BY RollupAssumption, LenProperties DEF RollupInv
<1>2. PICK k \in 0 .. Len(Sources) : HasRead(k)
  BY DEF RollupInv
<1>3. used \in [Rollup!Ledgers -> [Rollup!Dates -> Nat]]
  BY <1>1 DEF RollupTypeOK
<1>4. CASE UNCHANGED rollupVars \/ Rollup!Midnight
  <2>1. UNCHANGED <<used, bucket, rolling, behind, lastRoll>>
    BY <1>4 DEF rollupVars, Rollup!Midnight
  <2>2. HasRead(k)'
    BY <1>2, <1>3, <2>1 DEF HasRead
  <2> QED
    BY <1>3, <2>1, <2>2 DEF RollupInv, RollupTypeOK
<1>5. CASE Rollup!Begin
  <2> DEFINE back == {d \in Rollup!Dates : d < date /\ d + 2 >= date}
  <2>1. /\ rolling' = [days |-> back, todo |-> [l \in Rollup!Ledgers |-> l], sum |-> [d \in Rollup!Dates |-> 0]]
        /\ lastRoll' = back /\ UNCHANGED <<used, bucket, behind>>
    BY <1>5 DEF Rollup!Begin, Rollup!Resting
  <2>2. RollupTypeOK'
    <3>1. [l \in Rollup!Ledgers |-> l] \in Seq(Nat)
      BY <1>1 DEF Rollup!Ledgers
    <3> QED BY <1>1, <2>1, <3>1 DEF RollupTypeOK
  <2>3. HasRead(0)'
    <3>1. \A d \in Rollup!Dates : ReadOf(used', 0, d) = 0
      BY <1>3, <2>1, RollupReads
    <3> QED BY <1>1, <2>1, <3>1 DEF HasRead, Rollup!Ledgers
  <2> QED
    BY <1>1, <1>3, <2>1, <2>2, <2>3 DEF RollupInv
<1>6. CASE Rollup!ReadLedger
  <2>1. k < Len(Sources) /\ Head(rolling.todo) = k + 1
    BY <1>1, <1>2, <1>6 DEF HasRead, Rollup!ReadLedger
  <2>2. /\ rolling' = [rolling EXCEPT
             !.todo = Tail(@),
             !.sum = [d \in Rollup!Dates |-> @[d] + IF d \in rolling.days THEN used[k + 1][d] ELSE 0]]
        /\ UNCHANGED <<used, bucket, behind, lastRoll>>
    BY <1>6, <2>1 DEF Rollup!ReadLedger
  <2>3. k + 1 \in 0 .. Len(Sources) /\ k + 1 \in Rollup!Ledgers
    BY <1>1, <2>1 DEF Rollup!Ledgers
  <2>4. RollupTypeOK'
    <3>1. Tail(rolling.todo) \in Seq(Nat)
      BY <1>1, <1>6 DEF RollupTypeOK, Rollup!ReadLedger
    <3>2. \A d \in Rollup!Dates : rolling.sum[d] + (IF d \in rolling.days THEN used[k + 1][d] ELSE 0) \in Nat
      BY <1>1, <2>3 DEF RollupTypeOK
    <3> QED BY <1>1, <2>2, <3>1, <3>2 DEF RollupTypeOK
  <2>5. HasRead(k + 1)'
    <3>1. rolling'.todo = [i \in 1 .. Len(Sources) - (k + 1) |-> k + 1 + i]
      <4>1. rolling.todo = [i \in 1 .. Len(Sources) - k |-> k + i]
        BY <1>2 DEF HasRead
      <4>2. Len(rolling.todo) = Len(Sources) - k /\ rolling.todo \in Seq(Nat)
        BY <1>1, <4>1 DEF RollupTypeOK
      <4>3. rolling'.todo = Tail(rolling.todo)
        BY <1>1, <2>2 DEF RollupTypeOK
      <4>4. rolling.todo # <<>>
        BY <1>6 DEF Rollup!ReadLedger
      <4>5. /\ Tail(rolling.todo) \in Seq(Nat)
            /\ Len(Tail(rolling.todo)) = Len(Sources) - (k + 1)
            /\ \A i \in 1 .. Len(Tail(rolling.todo)) : Tail(rolling.todo)[i] = rolling.todo[i + 1]
        BY <1>1, <2>1, <4>2, <4>4, HeadTailProperties
      <4>6. Tail(rolling.todo) = [i \in 1 .. Len(Sources) - (k + 1) |-> Tail(rolling.todo)[i]]
        BY <4>5, LenProperties
      <4>7. \A i \in 1 .. Len(Sources) - (k + 1) : Tail(rolling.todo)[i] = k + 1 + i
        BY <1>1, <2>1, <4>1, <4>5
      <4> QED BY <4>3, <4>6, <4>7
    <3>2. ASSUME NEW d \in rolling'.days
          PROVE  /\ rolling'.sum[d] <= ReadOf(used', k + 1, d)
                 /\ d \in lastRoll' => rolling'.sum[d] = ReadOf(used', k + 1, d)
      <4>1. d \in rolling.days /\ d \in Rollup!Dates
        BY <1>1, <2>2 DEF RollupTypeOK
      <4>2. rolling'.sum[d] = rolling.sum[d] + used[k + 1][d]
        BY <1>1, <2>2, <4>1 DEF RollupTypeOK
      <4>3. ReadOf(used, k + 1, d) = used[k + 1][d] + ReadOf(used, k, d) /\ ReadOf(used, k, d) \in Nat
        BY <1>3, <2>1, <4>1, RollupReads
      <4>4. /\ rolling.sum[d] <= ReadOf(used, k, d)
            /\ d \in lastRoll => rolling.sum[d] = ReadOf(used, k, d)
        BY <1>2, <4>1 DEF HasRead
      <4>5. used[k + 1][d] \in Nat /\ rolling.sum[d] \in Nat
        BY <1>1, <2>3, <4>1 DEF RollupTypeOK
      <4> QED BY <1>3, <2>2, <4>2, <4>3, <4>4, <4>5
    <3> QED BY <3>1, <3>2 DEF HasRead
  <2>6. rolling'.days = rolling.days
    BY <1>1, <2>2 DEF RollupTypeOK
  <2> QED
    BY <1>3, <2>2, <2>3, <2>4, <2>5, <2>6 DEF RollupInv
<1>7. CASE Rollup!Dies
  <2>1. rolling' = Rollup!Resting /\ lastRoll' = {} /\ UNCHANGED <<used, bucket, behind>>
    BY <1>7 DEF Rollup!Dies
  <2>2. RollupTypeOK'
    BY <1>1, <2>1 DEF RollupTypeOK, Rollup!Resting
  <2>3. HasRead(Len(Sources))'
    BY <1>1, <2>1 DEF HasRead, Rollup!Resting
  <2> QED
    BY <1>1, <1>3, <2>1, <2>2, <2>3 DEF RollupInv, Rollup!Resting
<1>8. ASSUME NEW d \in Rollup!Dates, Rollup!WriteBucket(d)
      PROVE  RollupInv'
  <2>1. /\ d \in rolling.days /\ rolling.todo = <<>>
        /\ bucket' = [bucket EXCEPT ![d] = IF rolling.sum[d] = 0 THEN @ ELSE rolling.sum[d]]
        /\ behind' = behind \ ({d} \cap lastRoll)
        /\ \/ rolling.days = {d} /\ rolling' = Rollup!Resting /\ lastRoll' = {}
           \/ rolling' = [rolling EXCEPT !.days = @ \ {d}] /\ UNCHANGED lastRoll
        /\ UNCHANGED used
    BY <1>8 DEF Rollup!WriteBucket, Rollup!Replaces
  <2>2. k = Len(Sources)
    BY <1>1, <1>2, <2>1 DEF HasRead
  <2>3. RollupTypeOK'
    <3>1. rolling.sum[d] \in Nat /\ bucket[d] \in Nat
      BY <1>1 DEF RollupTypeOK
    <3>2. bucket' \in [Rollup!Dates -> Nat]
      BY <1>1, <2>1, <3>1 DEF RollupTypeOK
    <3>3. rolling' \in [days : SUBSET Rollup!Dates, todo : Seq(Nat), sum : [Rollup!Dates -> Nat]]
      <4>1. CASE rolling' = Rollup!Resting
        BY <4>1 DEF Rollup!Resting
      <4>2. CASE rolling' = [rolling EXCEPT !.days = @ \ {d}]
        BY <1>1, <4>2 DEF RollupTypeOK
      <4> QED BY <2>1, <4>1, <4>2
    <3> QED BY <1>1, <2>1, <3>2, <3>3 DEF RollupTypeOK
  <2>4. HasRead(Len(Sources))'
    <3>1. CASE rolling' = Rollup!Resting
      BY <1>1, <3>1 DEF HasRead, Rollup!Resting
    <3>2. CASE rolling' = [rolling EXCEPT !.days = @ \ {d}] /\ UNCHANGED lastRoll
      <4>1. /\ rolling'.todo = rolling.todo /\ rolling'.sum = rolling.sum
            /\ rolling'.days \subseteq rolling.days /\ lastRoll' = lastRoll
        BY <1>1, <3>2 DEF RollupTypeOK
      <4> QED BY <1>2, <1>3, <2>1, <2>2, <4>1 DEF HasRead
    <3> QED BY <2>1, <3>1, <3>2
  <2>5. ASSUME NEW c \in Rollup!Dates
        PROVE  /\ bucket'[c] <= ReadOf(used', Len(Sources), c)
               /\ c \notin behind' => bucket'[c] = ReadOf(used', Len(Sources), c)
    <3>1. /\ bucket[c] <= ReadOf(used, Len(Sources), c)
          /\ c \notin behind => bucket[c] = ReadOf(used, Len(Sources), c)
      BY DEF RollupInv
    <3>2. ReadOf(used, Len(Sources), c) \in Nat /\ bucket[c] \in Nat
      BY <1>1, <1>3, RollupReads DEF RollupTypeOK
    <3>3. CASE c # d
      <4>1. bucket'[c] = bucket[c] /\ (c \notin behind' => c \notin behind)
        BY <1>1, <2>1, <3>3 DEF RollupTypeOK
      <4> QED BY <1>3, <2>1, <3>1, <4>1
    <3>4. CASE c = d
      <4>1. bucket'[d] = IF rolling.sum[d] = 0 THEN bucket[d] ELSE rolling.sum[d]
        BY <1>1, <2>1 DEF RollupTypeOK
      <4>2. /\ rolling.sum[d] <= ReadOf(used, Len(Sources), d)
            /\ d \in lastRoll => rolling.sum[d] = ReadOf(used, Len(Sources), d)
        BY <1>2, <2>1, <2>2 DEF HasRead
      <4>3. \/ d \in lastRoll
            \/ d \in behind /\ d \in behind'
        BY <2>1 DEF RollupInv
      <4> QED BY <1>3, <2>1, <3>1, <3>2, <3>4, <4>1, <4>2, <4>3
    <3> QED BY <3>3, <3>4
  <2>6. rolling'.days \subseteq lastRoll' \cup behind'
    <3>1. CASE rolling' = Rollup!Resting
      BY <3>1 DEF Rollup!Resting
    <3>2. CASE rolling' = [rolling EXCEPT !.days = @ \ {d}] /\ UNCHANGED lastRoll
      <4>1. rolling'.days = rolling.days \ {d}
        BY <1>1, <3>2 DEF RollupTypeOK
      <4> QED BY <2>1, <3>2, <4>1 DEF RollupInv
    <3> QED BY <2>1, <3>1, <3>2
  <2> QED
    BY <1>1, <2>3, <2>4, <2>5, <2>6 DEF RollupInv
<1>9. ASSUME NEW d \in Rollup!Dates, NEW l \in Rollup!Ledgers, Rollup!Record(l, d)
      PROVE  RollupInv'
  <2>1. /\ used' = [used EXCEPT ![l][d] = @ + 1]
        /\ behind' = behind \cup {d} /\ lastRoll' = lastRoll \ {d}
        /\ UNCHANGED <<bucket, rolling>>
    BY <1>9 DEF Rollup!Record
  <2>2. RollupTypeOK'
    BY <1>1, <2>1 DEF RollupTypeOK
  <2>3. ASSUME NEW c \in Rollup!Dates, NEW j \in 0 .. Len(Sources)
        PROVE  /\ ReadOf(used, j, c) <= ReadOf(used', j, c)
               /\ c # d => ReadOf(used', j, c) = ReadOf(used, j, c)
    <3> DEFINE old == [i \in Rollup!Ledgers |-> used[i][c]]
               new == [i \in Rollup!Ledgers |-> used'[i][c]]
    <3>1. \A i \in Rollup!Ledgers : /\ old[i] \in Nat /\ new[i] \in Nat /\ old[i] <= new[i]
                                    /\ c # d => new[i] = old[i]
      BY <1>1, <2>1 DEF RollupTypeOK
    <3>2. c # d => new = old
      BY <3>1
    <3> HIDE DEF old, new
    <3>3. IsFiniteSet(1 .. j) /\ 1 .. j \subseteq Rollup!Ledgers
      BY <1>1, FS_Interval DEF Rollup!Ledgers
    <3>4. SumOver(old, 1 .. j) <= SumOver(new, 1 .. j)
      BY <3>1, <3>3, SumMonotone
    <3> QED BY <3>2, <3>4 DEF ReadOf, old, new
  <2>4. HasRead(k)'
    <3>1. ASSUME NEW c \in rolling.days
          PROVE  /\ rolling.sum[c] <= ReadOf(used', k, c)
                 /\ c \in lastRoll' => rolling.sum[c] = ReadOf(used', k, c)
      <4>1. /\ rolling.sum[c] <= ReadOf(used, k, c)
            /\ c \in lastRoll => rolling.sum[c] = ReadOf(used, k, c)
        BY <1>2 DEF HasRead
      <4>2. c \in Rollup!Dates /\ rolling.sum[c] \in Nat
        BY <1>1 DEF RollupTypeOK
      <4>3. ReadOf(used, k, c) \in Nat /\ ReadOf(used', k, c) \in Nat
        <5>1. ReadOf(used, k, c) \in Nat
          BY <1>3, <4>2, RollupReads
        <5>2. ReadOf(used', k, c) \in Nat
          BY <2>2, <4>2, RollupReads DEF RollupTypeOK
        <5> QED BY <5>1, <5>2
      <4>4. /\ ReadOf(used, k, c) <= ReadOf(used', k, c)
            /\ c # d => ReadOf(used', k, c) = ReadOf(used, k, c)
        BY <2>3, <4>2
      <4> QED BY <2>1, <4>1, <4>2, <4>3, <4>4
    <3> QED BY <1>2, <2>1, <3>1 DEF HasRead
  <2>5. ASSUME NEW c \in Rollup!Dates
        PROVE  /\ bucket[c] <= ReadOf(used', Len(Sources), c)
               /\ c \notin behind' => bucket[c] = ReadOf(used', Len(Sources), c)
    <3>1. Len(Sources) \in 0 .. Len(Sources)
      BY <1>1
    <3>2. ReadOf(used, Len(Sources), c) \in Nat /\ ReadOf(used', Len(Sources), c) \in Nat
      <4>1. ReadOf(used, Len(Sources), c) \in Nat
        BY <1>3, <3>1, RollupReads
      <4>2. ReadOf(used', Len(Sources), c) \in Nat
        BY <2>2, <3>1, RollupReads DEF RollupTypeOK
      <4> QED BY <4>1, <4>2
    <3>3. ReadOf(used, Len(Sources), c) <= ReadOf(used', Len(Sources), c)
      BY <2>3, <3>1
    <3>4. c # d => ReadOf(used', Len(Sources), c) = ReadOf(used, Len(Sources), c)
      BY <2>3, <3>1
    <3>5. bucket[c] \in Nat
      BY <1>1 DEF RollupTypeOK
    <3>6. /\ bucket[c] <= ReadOf(used, Len(Sources), c)
          /\ c \notin behind => bucket[c] = ReadOf(used, Len(Sources), c)
      BY DEF RollupInv
    <3> QED BY <2>1, <3>2, <3>3, <3>4, <3>5, <3>6
  <2> QED
    BY <1>2, <2>1, <2>2, <2>4, <2>5 DEF RollupInv
<1> QED
  BY <1>4, <1>5, <1>6, <1>7, <1>8, <1>9 DEF Rollup!RollupNext

-----------------------------------------------------------------------------
(* The usage meter.                                                         *)

\* What a window holds of a ledger, of all of them, and what a sender's reading comes to.
Seen(e, w) == [d \in Meter!Days |-> IF Meter!Within(w, d) THEN e[d] ELSE 0]
CountOf(e, w) == SumOver(Seen(e, w), Meter!Days)
Held(led, w) == SumOver([l \in Meter!Ledgers |-> CountOf(led[l], w)], Meter!Ledgers)
ReadingOf(led, r) ==
  [l \in Meter!Ledgers |-> IF r.open /\ l # "execution" THEN r.early[l] ELSE CountOf(led[l], r)]
Reading(led, r) == SumOver(ReadingOf(led, r), Meter!Ledgers)

\* What a sender may still send on the answer it has, or would get.
Due(led, r, s) ==
  IF r.at = "send" THEN r.left
  ELSE IF r.at \in {"plea", "count"} /\ Reading(led, r) + Ask[s] <= Quota THEN Hand[s] ELSE 0
AllDue(led, who) == SumOver([s \in Senders |-> Due(led, who[s], s)], Senders)

SenderPlaces == {"idle", "born", "plea", "count", "send"}
MeterRecord == [at : SenderPlaces, since : Nat, born : Meter!Days, open : BOOLEAN, from : Nat, to : Nat,
                early : [Meter!Ledgers -> Nat], left : Nat]
MeterBooks == [Meter!Ledgers -> [Meter!Days -> Nat]]

SubStatuses == {"TRIALING", "CHARGE_PENDING", "ACTIVE", "CANCELLED", "TRIAL_EXPIRED"}

MeterTypeOK ==
  /\ today \in Meter!Days
  /\ sub \in [status : SubStatuses, trial : Nat, grace : Nat, from : Nat, to : Nat]
  /\ ledger \in MeterBooks
  /\ sender \in [Senders -> MeterRecord]
  /\ spent \in Nat

\* What was spent is in the ledgers of the window, so that a gate that lets a sender
\* through has seen it: with what may still go out on answers given or under way it
\* stays below the quota and every hand.
MeterInv ==
  /\ MeterTypeOK
  /\ \A l \in Meter!Ledgers, d \in Meter!Days : d > today => ledger[l][d] = 0
  /\ \A s \in Senders : /\ sender[s].born <= today
                        /\ sender[s].at = "send" => sender[s].left <= Hand[s]
  /\ spent <= Held(ledger, Meter!Window)
  /\ spent + AllDue(ledger, sender) < Quota + SumOver(Hand, Senders)

LEMMA MeterSets ==
  /\ IsFiniteSet(Meter!Days) /\ IsFiniteSet(Meter!Ledgers) /\ IsFiniteSet(Senders)
  /\ 0 \in Meter!Days
<1>1. IsFiniteSet({"execution", "campaign"}) /\ IsFiniteSet({"workflow"})
  <2>1. IsFiniteSet({"execution"}) /\ IsFiniteSet({"workflow"})
    BY FS_Singleton
  <2>2. IsFiniteSet({"execution"} \cup {"campaign"})
    BY <2>1, FS_AddElement
  <2>3. {"execution"} \cup {"campaign"} = {"execution", "campaign"}
    OBVIOUS
  <2> QED BY <2>1, <2>2, <2>3
<1>2. IsFiniteSet({"execution", "campaign"} \cup {"workflow"})
  BY <1>1, FS_AddElement
<1>3. {"execution", "campaign"} \cup {"workflow"} = {"execution", "campaign", "workflow"}
  OBVIOUS
<1> QED
  BY <1>2, <1>3, MeterAssumption, FS_Interval DEF Meter!Days, Meter!Ledgers

\* A count is a natural.
LEMMA MeterCounts ==
  ASSUME NEW l \in Meter!Ledgers, NEW led \in MeterBooks, NEW w
  PROVE  CountOf(led[l], w) \in Nat
<1>1. \A d \in Meter!Days : Seen(led[l], w)[d] \in Nat
  BY DEF Seen, MeterBooks
<1> QED BY <1>1, MeterSets, SumNat DEF CountOf

\* More in the ledgers, or more days in the window.
LEMMA CountGrows ==
  ASSUME NEW e \in [Meter!Days -> Nat], NEW f \in [Meter!Days -> Nat], NEW w, NEW v,
         \A d \in Meter!Days : Seen(e, w)[d] <= Seen(f, v)[d],
         NEW c \in Meter!Days, NEW n \in Nat, Seen(e, w)[c] + n <= Seen(f, v)[c]
  PROVE  CountOf(e, w) + n <= CountOf(f, v)
<1>1. \A d \in Meter!Days : Seen(e, w)[d] \in Nat /\ Seen(f, v)[d] \in Nat
  BY DEF Seen
<1> HIDE DEF Seen
<1> QED BY <1>1, MeterSets, SumGrows DEF CountOf

\* The same of all the ledgers.
LEMMA HeldGrows ==
  ASSUME NEW led \in MeterBooks, NEW more \in MeterBooks, NEW w, NEW v,
         \A l \in Meter!Ledgers, d \in Meter!Days : Seen(led[l], w)[d] <= Seen(more[l], v)[d],
         NEW k \in Meter!Ledgers, NEW c \in Meter!Days, NEW n \in Nat,
         Seen(led[k], w)[c] + n <= Seen(more[k], v)[c]
  PROVE  Held(led, w) + n <= Held(more, v)
<1> DEFINE e == [l \in Meter!Ledgers |-> CountOf(led[l], w)]
           f == [l \in Meter!Ledgers |-> CountOf(more[l], v)]
<1>1. \A l \in Meter!Ledgers : led[l] \in [Meter!Days -> Nat] /\ more[l] \in [Meter!Days -> Nat]
  BY DEF MeterBooks
<1>2. \A l \in Meter!Ledgers : e[l] \in Nat /\ f[l] \in Nat
  BY MeterCounts
<1>3. ASSUME NEW l \in Meter!Ledgers PROVE e[l] <= f[l]
  <2>1. Seen(led[l], w)[0] + 0 <= Seen(more[l], v)[0]
    BY <1>1, MeterSets DEF Seen
  <2>2. CountOf(led[l], w) + 0 <= CountOf(more[l], v)
    BY <1>1, <2>1, MeterSets, CountGrows
  <2>3. CountOf(led[l], w) \in Nat
    BY MeterCounts
  <2> QED BY <2>2, <2>3
<1>4. e[k] + n <= f[k]
  BY <1>1, CountGrows
<1> HIDE DEF e, f
<1>5. SumOver(e, Meter!Ledgers) + n <= SumOver(f, Meter!Ledgers)
  BY <1>2, <1>3, <1>4, MeterSets, SumGrows
<1> QED
  BY <1>5 DEF Held, e, f

\* A reading grows with the ledgers.
LEMMA ReadingGrows ==
  ASSUME NEW led \in MeterBooks, NEW more \in MeterBooks, NEW r \in MeterRecord,
         \A l \in Meter!Ledgers, d \in Meter!Days : led[l][d] <= more[l][d]
  PROVE  /\ Reading(led, r) \in Nat /\ Reading(more, r) \in Nat
         /\ Reading(led, r) <= Reading(more, r)
<1> DEFINE e == ReadingOf(led, r)  f == ReadingOf(more, r)
<1>1. ASSUME NEW l \in Meter!Ledgers PROVE CountOf(led[l], r) <= CountOf(more[l], r)
  <2>1. led[l] \in [Meter!Days -> Nat] /\ more[l] \in [Meter!Days -> Nat]
    BY DEF MeterBooks
  <2>2. \A d \in Meter!Days : Seen(led[l], r)[d] <= Seen(more[l], r)[d]
    BY <2>1 DEF Seen
  <2>3. Seen(led[l], r)[0] + 0 <= Seen(more[l], r)[0]
    BY <2>1, <2>2, MeterSets DEF Seen
  <2>4. CountOf(led[l], r) + 0 <= CountOf(more[l], r)
    BY <2>1, <2>2, <2>3, MeterSets, CountGrows
  <2>5. CountOf(led[l], r) \in Nat
    BY MeterCounts
  <2> QED BY <2>4, <2>5
<1>2. \A l \in Meter!Ledgers : CountOf(led[l], r) \in Nat /\ CountOf(more[l], r) \in Nat
  BY MeterCounts
<1>3. \A l \in Meter!Ledgers : r.early[l] \in Nat
  BY DEF MeterRecord
<1>4. \A l \in Meter!Ledgers : e[l] \in Nat /\ f[l] \in Nat /\ e[l] <= f[l]
  BY <1>1, <1>2, <1>3 DEF ReadingOf
<1> HIDE DEF e, f
<1>5. /\ SumOver(e, Meter!Ledgers) \in Nat /\ SumOver(f, Meter!Ledgers) \in Nat
      /\ SumOver(e, Meter!Ledgers) <= SumOver(f, Meter!Ledgers)
  BY <1>4, MeterSets, SumNat, SumMonotone
<1> QED
  BY <1>5 DEF Reading, e, f

LEMMA MeterHeld ==
  ASSUME NEW led \in MeterBooks, NEW w
  PROVE  Held(led, w) \in Nat
<1> DEFINE e == [l \in Meter!Ledgers |-> CountOf(led[l], w)]
<1>1. \A l \in Meter!Ledgers : e[l] \in Nat
  BY MeterCounts
<1> HIDE DEF e
<1>2. SumOver(e, Meter!Ledgers) \in Nat
  BY <1>1, MeterSets, SumNat
<1> QED
  BY <1>2 DEF Held, e

LEMMA MeterRecords ==
  \A r \in MeterRecord :
    /\ \A a \in SenderPlaces, n \in Nat : [r EXCEPT !.at = a, !.since = n] \in MeterRecord
    /\ \A a \in SenderPlaces, d \in Meter!Days : [r EXCEPT !.at = a, !.born = d] \in MeterRecord
    /\ \A a \in SenderPlaces, d \in Meter!Days, n \in Nat :
         [r EXCEPT !.at = a, !.born = d, !.left = n] \in MeterRecord
    /\ \A n \in Nat : [r EXCEPT !.left = n] \in MeterRecord
    /\ \A a \in SenderPlaces, n \in Nat, o \in BOOLEAN, f \in Nat, t \in Nat,
          e \in [Meter!Ledgers -> Nat] :
         [r EXCEPT !.at = a, !.since = n, !.open = o, !.from = f, !.to = t, !.early = e] \in MeterRecord
<1> TAKE r \in MeterRecord
<1>1. \A a \in SenderPlaces, n \in Nat : [r EXCEPT !.at = a, !.since = n] \in MeterRecord
  BY DEF MeterRecord
<1>2. \A a \in SenderPlaces, d \in Meter!Days : [r EXCEPT !.at = a, !.born = d] \in MeterRecord
  BY DEF MeterRecord
<1>3. \A a \in SenderPlaces, d \in Meter!Days, n \in Nat :
        [r EXCEPT !.at = a, !.born = d, !.left = n] \in MeterRecord
  BY DEF MeterRecord
<1>4. \A n \in Nat : [r EXCEPT !.left = n] \in MeterRecord
  BY DEF MeterRecord
<1>5. \A a \in SenderPlaces, n \in Nat, o \in BOOLEAN, f \in Nat, t \in Nat,
         e \in [Meter!Ledgers -> Nat] :
        [r EXCEPT !.at = a, !.since = n, !.open = o, !.from = f, !.to = t, !.early = e] \in MeterRecord
  BY DEF MeterRecord
<1> QED BY <1>1, <1>2, <1>3, <1>4, <1>5

\* The bound of the property, and the count of a ledger, are those sums.
LEMMA MeterHands ==
  Meter!QuotaHolds <=> spent < Quota + SumOver(Hand, Senders)
BY DEF Meter!QuotaHolds, Meter!MapThenSumSet, Meter!MapThenFoldSet, SumOver, IsFold, AnyOf

LEMMA MeterCounted ==
  ASSUME ledger \in MeterBooks, NEW l \in Meter!Ledgers, NEW w
  PROVE  Meter!Counted(l, w) = CountOf(ledger[l], w)
<1> DEFINE T == {d \in Meter!Days : Meter!Within(w, d)}
<1>1. Meter!Counted(l, w) = SumOver(ledger[l], T)
  BY DEF Meter!Counted, Meter!FoldFunctionOnSet, Meter!MapThenFoldSet, SumOver, IsFold, AnyOf
<1>2. \A d \in Meter!Days : ledger[l][d] \in Nat
  BY DEF MeterBooks
<1>3. SumOver(ledger[l], T) = SumOver([d \in Meter!Days |-> IF d \in T THEN ledger[l][d] ELSE 0], Meter!Days)
  BY <1>2, MeterSets, SumMask
<1>4. [d \in Meter!Days |-> IF d \in T THEN ledger[l][d] ELSE 0] = Seen(ledger[l], w)
  BY DEF Seen
<1> QED
  BY <1>1, <1>3, <1>4 DEF CountOf

\* The gate answers by the reading.
LEMMA MeterAnswers ==
  ASSUME ledger \in MeterBooks, NEW s \in Senders, Meter!Answer(s)
  PROVE  /\ sender[s].at = "count"
         /\ sender' = [sender EXCEPT ![s] = IF Reading(ledger, sender[s]) + Ask[s] > Quota THEN Meter!Asleep
              ELSE [Meter!Asleep EXCEPT !.at = "send", !.born = sender[s].born, !.left = Hand[s]]]
         /\ UNCHANGED <<today, sub, overrides, ledger, deeds, spent>>
<1> DEFINE of(l) == IF sender[s].open /\ l # "execution" THEN sender[s].early[l]
                    ELSE Meter!Counted(l, sender[s])
           e == ReadingOf(ledger, sender[s])
           g == CHOOSE iter : iter = [u \in SUBSET Meter!Ledgers |->
                  IF u = {} THEN 0 ELSE of(AnyOf(u)) + iter[u \ {AnyOf(u)}]]
<1>1. \A l \in Meter!Ledgers : of(l) = e[l]
  BY MeterCounted DEF ReadingOf
<1>2. \A u \in SUBSET Meter!Ledgers : u # {} => AnyOf(u) \in Meter!Ledgers
  BY DEF AnyOf
<1>3. PICK h : IsFold(h, e, Meter!Ledgers)
  BY MeterSets, FoldExists
<1> HIDE DEF e, of
<1>4. \A k : IsFold(k, e, Meter!Ledgers) <=>
             k = [u \in SUBSET Meter!Ledgers |-> IF u = {} THEN 0 ELSE of(AnyOf(u)) + k[u \ {AnyOf(u)}]]
  BY <1>1, <1>2 DEF IsFold
<1>5. IsFold(g, e, Meter!Ledgers)
  BY <1>3, <1>4
<1>6. g[Meter!Ledgers] = SumOver(e, Meter!Ledgers)
  BY <1>5, MeterSets, FoldValue
<1>7. g[Meter!Ledgers] = Reading(ledger, sender[s])
  BY <1>6 DEF Reading, e
<1> QED
  BY <1>7 DEF Meter!Answer, Meter!ToCount, Meter!MapThenSumSet, Meter!MapThenFoldSet, Meter!Goes, of, AnyOf

\* What is due a sender is no more than its hand.
LEMMA MeterDue ==
  ASSUME NEW led \in MeterBooks, NEW s \in Senders, NEW r \in MeterRecord,
         r.at = "send" => r.left <= Hand[s]
  PROVE  Due(led, r, s) \in Nat /\ Due(led, r, s) <= Hand[s]
<1>1. r.left \in Nat /\ Hand[s] \in Nat
  BY MeterAssumption DEF MeterRecord, SenderPlaces
<1> QED BY <1>1 DEF Due

\* Less due to one and no more to another is less due to all.
LEMMA AllDueFalls ==
  ASSUME NEW led \in MeterBooks, NEW more \in MeterBooks,
         NEW who \in [Senders -> MeterRecord], NEW new \in [Senders -> MeterRecord],
         \A s \in Senders : /\ who[s].at = "send" => who[s].left <= Hand[s]
                            /\ new[s].at = "send" => new[s].left <= Hand[s]
                            /\ Due(more, new[s], s) <= Due(led, who[s], s),
         NEW c \in Senders, NEW n \in Nat, Due(more, new[c], c) + n <= Due(led, who[c], c)
  PROVE  /\ AllDue(more, new) \in Nat /\ AllDue(led, who) \in Nat
         /\ AllDue(more, new) + n <= AllDue(led, who)
<1> DEFINE e == [s \in Senders |-> Due(more, new[s], s)]
           f == [s \in Senders |-> Due(led, who[s], s)]
<1>1. \A s \in Senders : e[s] \in Nat /\ f[s] \in Nat
  BY MeterDue
<1>2. (\A s \in Senders : e[s] <= f[s]) /\ e[c] + n <= f[c]
  OBVIOUS
<1> HIDE DEF e, f
<1>3. SumOver(e, Senders) \in Nat /\ SumOver(f, Senders) \in Nat
  BY <1>1, MeterSets, SumNat
<1>4. SumOver(e, Senders) + n <= SumOver(f, Senders)
  BY <1>1, <1>2, MeterSets, SumGrows
<1> QED
  BY <1>3, <1>4 DEF AllDue, e, f

LEMMA AllDueBounded ==
  ASSUME NEW led \in MeterBooks, NEW who \in [Senders -> MeterRecord],
         \A s \in Senders : who[s].at = "send" => who[s].left <= Hand[s]
  PROVE  /\ AllDue(led, who) \in Nat /\ SumOver(Hand, Senders) \in Nat
         /\ AllDue(led, who) <= SumOver(Hand, Senders)
<1> DEFINE e == [s \in Senders |-> Due(led, who[s], s)]
<1>1. \A s \in Senders : e[s] \in Nat /\ Hand[s] \in Nat /\ e[s] <= Hand[s]
  BY MeterDue, MeterAssumption
<1> HIDE DEF e
<1>2. /\ SumOver(e, Senders) \in Nat /\ SumOver(Hand, Senders) \in Nat
      /\ SumOver(e, Senders) <= SumOver(Hand, Senders)
  BY <1>1, MeterSets, SumNat, SumMonotone
<1> QED
  BY <1>2 DEF AllDue, e

LEMMA MeterSteps ==
  ASSUME part = "meter", [Next]_platformVars
  PROVE  [Meter!UsageNext]_meterVars
BY DEF Next, Only, platformVars

LEMMA MeterStart == Init /\ part = "meter" => MeterInv
<1> SUFFICES ASSUME Meter!Init PROVE MeterInv
  BY DEF Init
<1>1. MeterTypeOK /\ ledger \in MeterBooks
  <2>1. Meter!Never \in Nat /\ TrialDays \in Nat
    BY MeterAssumption DEF Meter!Never
  <2>2. Meter!Asleep \in MeterRecord
    BY MeterSets DEF Meter!Asleep, MeterRecord, SenderPlaces
  <2>3. ledger \in MeterBooks
    BY DEF Meter!Init, MeterBooks
  <2> QED
    BY <2>1, <2>2, <2>3, MeterSets DEF MeterTypeOK, Meter!Init, SubStatuses
<1>2. \A l \in Meter!Ledgers, d \in Meter!Days : ledger[l][d] = 0
  BY DEF Meter!Init
<1>3. \A s \in Senders : sender[s] = Meter!Asleep
  BY DEF Meter!Init
<1>4. \A s \in Senders : sender[s].born <= today /\ sender[s].at # "send"
  BY <1>3 DEF Meter!Init, Meter!Asleep
<1>5. spent <= Held(ledger, Meter!Window)
  <2>1. Held(ledger, Meter!Window) \in Nat
    BY <1>1, MeterHeld
  <2> QED BY <2>1 DEF Meter!Init
<1>6. spent + AllDue(ledger, sender) < Quota + SumOver(Hand, Senders)
  <2>1. /\ AllDue(ledger, sender) \in Nat /\ SumOver(Hand, Senders) \in Nat
        /\ AllDue(ledger, sender) <= SumOver(Hand, Senders)
    BY <1>1, <1>4, AllDueBounded DEF MeterTypeOK
  <2> QED BY <2>1, MeterAssumption DEF Meter!Init
<1> QED
  BY <1>1, <1>2, <1>4, <1>5, <1>6 DEF MeterInv

\* A sender goes on: it may send no more than before, or less than the quota is spent.
LEMMA SenderMoves ==
  ASSUME MeterInv, NEW s \in Senders, NEW next \in MeterRecord, next.born <= today,
         next.at = "send" => next.left <= Hand[s],
         sender' = [sender EXCEPT ![s] = next], UNCHANGED <<today, sub, ledger, spent>>,
         Due(ledger, next, s) <= Due(ledger, sender[s], s) \/ spent < Quota
  PROVE  MeterInv'
<1>1. MeterTypeOK /\ MeterTypeOK'
  BY DEF MeterInv, MeterTypeOK
<1>2. \A x \in Senders : /\ x # s => sender'[x] = sender[x]
                         /\ x = s => sender'[x] = next
  BY <1>1 DEF MeterTypeOK
<1>3. \A x \in Senders : /\ sender'[x].born <= today'
                         /\ sender[x].at = "send" => sender[x].left <= Hand[x]
                         /\ sender'[x].at = "send" => sender'[x].left <= Hand[x]
  BY <1>2 DEF MeterInv
<1>4. spent' <= Held(ledger', Meter!Window')
  <2>1. Meter!Window' = Meter!Window
    BY DEF Meter!Window
  <2> QED BY <2>1 DEF MeterInv
<1>5. ledger \in MeterBooks /\ sender \in [Senders -> MeterRecord] /\ sender' \in [Senders -> MeterRecord]
  BY <1>1 DEF MeterTypeOK
<1>6. /\ AllDue(ledger, sender') \in Nat /\ SumOver(Hand, Senders) \in Nat
      /\ AllDue(ledger, sender') <= SumOver(Hand, Senders)
  BY <1>3, <1>5, AllDueBounded
<1>7. spent \in Nat /\ Quota \in Nat
  BY <1>1, MeterAssumption DEF MeterTypeOK
<1>8. spent' + AllDue(ledger', sender') < Quota + SumOver(Hand, Senders)
  <2>1. CASE spent < Quota
    BY <1>6, <1>7, <2>1
  <2>2. CASE Due(ledger, next, s) <= Due(ledger, sender[s], s)
    <3>1. \A x \in Senders : /\ Due(ledger, sender[x], x) \in Nat /\ Due(ledger, sender'[x], x) \in Nat
                             /\ Due(ledger, sender'[x], x) <= Due(ledger, sender[x], x)
      <4> TAKE x \in Senders
      <4>1. Due(ledger, sender[x], x) \in Nat /\ Due(ledger, sender'[x], x) \in Nat
        BY <1>3, <1>5, MeterDue
      <4> QED BY <1>2, <2>2, <4>1
    <3>2. Due(ledger, sender'[s], s) + 0 <= Due(ledger, sender[s], s)
      BY <3>1
    <3>3. /\ AllDue(ledger, sender) \in Nat
          /\ AllDue(ledger, sender') + 0 <= AllDue(ledger, sender)
      BY <1>3, <1>5, <3>1, <3>2, AllDueFalls
    <3>4. spent + AllDue(ledger, sender) < Quota + SumOver(Hand, Senders)
      BY DEF MeterInv
    <3> QED BY <1>6, <1>7, <3>3, <3>4
  <2> QED BY <2>1, <2>2
<1>9. \A l \in Meter!Ledgers, d \in Meter!Days : d > today' => ledger'[l][d] = 0
  BY DEF MeterInv
<1> QED
  BY <1>1, <1>3, <1>4, <1>8, <1>9 DEF MeterInv

\* What a sender does but record: a new reading holds all that was spent.
LEMMA MeterSenders ==
  ASSUME MeterInv, NEW s \in Senders,
         \/ Meter!Create(s) \/ Meter!Look(s) \/ Meter!Plead(s) \/ Meter!Answer(s) \/ Meter!Fails(s)
  PROVE  MeterInv'
<1>1. /\ ledger \in MeterBooks /\ sender[s] \in MeterRecord /\ today \in Meter!Days
      /\ sender[s].born <= today /\ (sender[s].at = "send" => sender[s].left <= Hand[s])
  BY DEF MeterInv, MeterTypeOK
<1>2. /\ Due(ledger, sender[s], s) \in Nat
      /\ spent \in Nat /\ Quota \in Nat /\ Ask[s] \in Nat \ {0} /\ Hand[s] \in Nat
  BY <1>1, MeterDue, MeterAssumption DEF MeterInv, MeterTypeOK
<1>3. Meter!Asleep \in MeterRecord /\ Meter!Asleep.born <= today /\ Meter!Asleep.at = "idle"
  BY <1>1, MeterSets DEF Meter!Asleep, MeterRecord, SenderPlaces, Meter!Days
<1>4. \A r : r.at \notin {"send", "plea", "count"} => Due(ledger, r, s) = 0
  BY DEF Due
<1>5. CASE Meter!Create(s)
  <2> DEFINE next == [Meter!Asleep EXCEPT !.at = "born", !.born = today]
  <2>1. sender' = [sender EXCEPT ![s] = next] /\ UNCHANGED <<today, sub, ledger, spent>>
    BY <1>5 DEF Meter!Create, Meter!Goes
  <2>2. next \in MeterRecord /\ next.born <= today /\ next.at = "born"
    <3>1. next \in MeterRecord
      <4>1. "born" \in SenderPlaces /\ 0 \in Nat
        BY DEF SenderPlaces
      <4> QED BY <1>1, <1>3, <4>1, MeterRecords
    <3> QED BY <1>1, <1>3, <3>1 DEF MeterRecord, Meter!Days
  <2> HIDE DEF next
  <2>3. Due(ledger, next, s) = 0
    BY <1>4, <2>2
  <2>4. Due(ledger, next, s) <= Due(ledger, sender[s], s)
    BY <1>2, <2>3
  <2>5. next.at # "send"
    BY <2>2
  <2> QED BY <2>1, <2>2, <2>4, <2>5, SenderMoves
<1>6. CASE Meter!Look(s)
  <2> DEFINE w == Meter!Window
             e == [l \in Meter!Ledgers |-> IF w.open THEN Meter!Counted(l, w) ELSE 0]
  <2>0. PICK a \in {"count", "plea"}, n \in Nat :
          /\ sender' = [sender EXCEPT ![s] =
               [sender[s] EXCEPT !.at = a, !.since = n, !.open = w.open, !.from = w.from, !.to = w.to, !.early = e]]
          /\ UNCHANGED <<today, sub, ledger, spent>>
    <3>1. today \in Nat
      BY <1>1 DEF Meter!Days
    <3> QED BY <1>6, <3>1 DEF Meter!Look, Meter!Goes
  <2>1. PICK next : /\ next = [sender[s] EXCEPT !.at = a, !.since = n, !.open = w.open, !.from = w.from,
                                               !.to = w.to, !.early = e]
                    /\ sender' = [sender EXCEPT ![s] = next] /\ UNCHANGED <<today, sub, ledger, spent>>
    BY <2>0
  <2>2. w \in [from : Nat, to : Nat, open : BOOLEAN]
    BY DEF MeterInv, MeterTypeOK, Meter!Window, Meter!Days
  <2>3. \A l \in Meter!Ledgers : Meter!Counted(l, w) = CountOf(ledger[l], w) /\ CountOf(ledger[l], w) \in Nat
    BY <1>1, MeterCounted, MeterCounts
  <2>4. next \in MeterRecord /\ next.born <= today /\ next.at \in {"count", "plea"}
    <3>1. e \in [Meter!Ledgers -> Nat] /\ a \in SenderPlaces
      BY <2>1, <2>3 DEF SenderPlaces
    <3>2. w.open \in BOOLEAN /\ w.from \in Nat /\ w.to \in Nat
      BY <2>2
    <3> HIDE DEF w, e
    <3>3. next \in MeterRecord
      BY <1>1, <2>1, <3>1, <3>2, MeterRecords
    <3>4. next.at = a /\ next.born = sender[s].born
      BY <1>1, <2>1 DEF MeterRecord
    <3> QED BY <1>1, <3>3, <3>4
  <2>5. Reading(ledger, next) = Held(ledger, w)
    <3>1. /\ next.open = w.open /\ next.from = w.from /\ next.to = w.to
          /\ \A l \in Meter!Ledgers : next.early[l] = IF w.open THEN Meter!Counted(l, w) ELSE 0
      BY <1>1, <2>1 DEF MeterRecord
    <3> HIDE DEF w
    <3>2. \A l : Seen(ledger[l], next) = Seen(ledger[l], w)
      BY <3>1 DEF Seen, Meter!Within
    <3>3. \A l \in Meter!Ledgers : ReadingOf(ledger, next)[l] = CountOf(ledger[l], w)
      BY <2>3, <3>1, <3>2 DEF ReadingOf, CountOf
    <3>4. ReadingOf(ledger, next) = [l \in Meter!Ledgers |-> CountOf(ledger[l], w)]
      BY <3>3 DEF ReadingOf
    <3> QED BY <3>4 DEF Reading, Held
  <2>6. spent <= Held(ledger, w) /\ Held(ledger, w) \in Nat
    BY <1>1, MeterHeld DEF MeterInv
  <2> HIDE DEF w
  <2>7. Due(ledger, next, s) = 0 \/ Held(ledger, w) + Ask[s] <= Quota
    BY <2>4, <2>5 DEF Due
  <2>8. Due(ledger, next, s) <= Due(ledger, sender[s], s) \/ spent < Quota
    BY <1>2, <2>6, <2>7
  <2>9. next.at # "send"
    BY <2>4
  <2> QED BY <2>1, <2>4, <2>8, <2>9, SenderMoves
<1>7. CASE Meter!Plead(s)
  <2>1. PICK next : /\ sender' = [sender EXCEPT ![s] = next] /\ UNCHANGED <<today, sub, ledger, spent>>
                    /\ next = Meter!Asleep \/ next = [sender[s] EXCEPT !.at = "count", !.since = 0]
                    /\ sender[s].at = "plea"
    BY <1>7 DEF Meter!Plead, Meter!Goes
  <2>2. CASE next = Meter!Asleep
    <3>1. Due(ledger, next, s) = 0
      BY <1>3, <1>4, <2>2
    <3>2. Due(ledger, next, s) <= Due(ledger, sender[s], s) /\ next.at # "send"
      BY <1>2, <1>3, <2>2, <3>1
    <3> QED BY <1>3, <2>1, <2>2, <3>2, SenderMoves
  <2>3. CASE next = [sender[s] EXCEPT !.at = "count", !.since = 0]
    <3>1. /\ next \in MeterRecord /\ next.born <= today /\ next.at = "count"
          /\ next.open = sender[s].open /\ next.from = sender[s].from /\ next.to = sender[s].to
          /\ next.early = sender[s].early
      <4>1. next \in MeterRecord
        <5>1. "count" \in SenderPlaces /\ 0 \in Nat
          BY DEF SenderPlaces
        <5> QED BY <1>1, <2>3, <5>1, MeterRecords
      <4> QED BY <1>1, <2>3, <4>1 DEF MeterRecord
    <3>2. \A l : Seen(ledger[l], next) = Seen(ledger[l], sender[s])
      BY <3>1 DEF Seen, Meter!Within
    <3>3. ReadingOf(ledger, next) = ReadingOf(ledger, sender[s])
      BY <3>1, <3>2 DEF ReadingOf, CountOf
    <3>4. Due(ledger, next, s) = Due(ledger, sender[s], s)
      BY <2>1, <3>1, <3>3 DEF Due, Reading
    <3>5. Due(ledger, next, s) <= Due(ledger, sender[s], s) /\ next.at # "send"
      BY <1>2, <3>1, <3>4
    <3> QED BY <2>1, <3>1, <3>5, SenderMoves
  <2> QED BY <2>1, <2>2, <2>3
<1>8. CASE Meter!Answer(s)
  <2> DEFINE next == IF Reading(ledger, sender[s]) + Ask[s] > Quota THEN Meter!Asleep
              ELSE [Meter!Asleep EXCEPT !.at = "send", !.born = sender[s].born, !.left = Hand[s]]
  <2>1. sender' = [sender EXCEPT ![s] = next] /\ UNCHANGED <<today, sub, ledger, spent>>
        /\ sender[s].at = "count"
    BY <1>1, <1>8, MeterAnswers
  <2>2. Reading(ledger, sender[s]) \in Nat
    BY <1>1, ReadingGrows DEF MeterBooks
  <2>3. CASE Reading(ledger, sender[s]) + Ask[s] > Quota
    <3>1. next = Meter!Asleep
      BY <2>3
    <3> HIDE DEF next
    <3>2. Due(ledger, next, s) = 0
      BY <1>3, <1>4, <3>1
    <3>3. Due(ledger, next, s) <= Due(ledger, sender[s], s) /\ next.at # "send"
      BY <1>2, <1>3, <3>1, <3>2
    <3> QED BY <1>3, <2>1, <3>1, <3>3, SenderMoves
  <2>4. CASE Reading(ledger, sender[s]) + Ask[s] <= Quota
    <3>1. /\ next \in MeterRecord /\ next.born <= today /\ next.at = "send" /\ next.left = Hand[s]
      <4>1. next = [Meter!Asleep EXCEPT !.at = "send", !.born = sender[s].born, !.left = Hand[s]]
        BY <1>2, <2>2, <2>4
      <4>2. sender[s].born \in Meter!Days
        BY <1>1 DEF MeterRecord
      <4> HIDE DEF next
      <4>3. next \in MeterRecord
        <5>1. "send" \in SenderPlaces
          BY DEF SenderPlaces
        <5> QED BY <1>2, <1>3, <4>1, <4>2, <5>1, MeterRecords
      <4> QED BY <1>1, <1>3, <4>1, <4>3 DEF MeterRecord
    <3> HIDE DEF next
    <3>2. Due(ledger, next, s) = Hand[s] /\ Due(ledger, sender[s], s) = Hand[s]
      BY <2>1, <2>4, <3>1 DEF Due
    <3>3. Due(ledger, next, s) <= Due(ledger, sender[s], s) /\ next.left <= Hand[s]
      BY <1>2, <3>1, <3>2
    <3> QED BY <2>1, <3>1, <3>3, SenderMoves
  <2> QED BY <1>2, <2>2, <2>3, <2>4
<1>9. CASE Meter!Fails(s)
  <2>1. PICK next : /\ sender' = [sender EXCEPT ![s] = next] /\ UNCHANGED <<today, sub, ledger, spent>>
                    /\ \/ next = Meter!Asleep
                       \/ next = [Meter!Asleep EXCEPT !.at = "born", !.born = sender[s].born]
    BY <1>9 DEF Meter!Fails, Meter!Goes
  <2>2. next \in MeterRecord /\ next.born <= today /\ next.at \in {"idle", "born"}
    BY <1>1, <1>3, <2>1 DEF MeterRecord, SenderPlaces
  <2>3. Due(ledger, next, s) = 0
    BY <1>4, <2>2
  <2>4. Due(ledger, next, s) <= Due(ledger, sender[s], s)
    BY <1>2, <2>3
  <2>5. next.at # "send"
    BY <2>2
  <2> QED BY <2>1, <2>2, <2>4, <2>5, SenderMoves
<1> QED
  BY <1>5, <1>6, <1>7, <1>8, <1>9

LEMMA MeterRecordsUnits ==
  ASSUME MeterInv, NEW s \in Senders, NEW n \in 1..MaxUnits, Meter!Record(s, n)
  PROVE  MeterInv'
<1> DEFINE d == IF Source[s] = "execution" THEN sender[s].born ELSE today
           k == Source[s]
           w == Meter!Window
<1>1. /\ ledger \in MeterBooks /\ sender \in [Senders -> MeterRecord] /\ today \in Meter!Days
      /\ spent \in Nat /\ n \in Nat
      /\ \A x \in Senders : sender[x].at = "send" => sender[x].left <= Hand[x]
  BY MeterAssumption DEF MeterInv, MeterTypeOK
<1>2. /\ sender[s] \in MeterRecord /\ sender[s].at = "send" /\ n <= sender[s].left
      /\ ledger' = [ledger EXCEPT ![k][d] = @ + n]
      /\ UNCHANGED <<today, sub>>
  BY <1>1 DEF Meter!Record
<1>3. k \in Meter!Ledgers /\ d \in Meter!Days /\ d <= today
  <2>1. sender[s].born \in Meter!Days /\ sender[s].born <= today
    BY <1>2 DEF MeterRecord, MeterInv
  <2> QED BY <1>1, <2>1, MeterAssumption DEF Meter!Ledgers, Meter!Days
<1>4. PICK next : /\ sender' = [sender EXCEPT ![s] = next]
                  /\ next = Meter!Asleep \/ next = [sender[s] EXCEPT !.left = @ - n]
  BY DEF Meter!Record, Meter!Goes
<1>5. spent' = spent \/ (spent' = spent + n /\ Meter!Within(w, d))
  BY DEF Meter!Record
<1> HIDE DEF d, k, w
<1>6. ledger' \in MeterBooks
  BY <1>1, <1>2, <1>3 DEF MeterBooks
<1>7. \A l \in Meter!Ledgers, c \in Meter!Days :
        ledger'[l][c] = IF l = k /\ c = d THEN ledger[l][c] + n ELSE ledger[l][c]
  BY <1>1, <1>2, <1>3 DEF MeterBooks
<1>8. sender[s].left \in Nat /\ sender[s].left - n \in Nat
  BY <1>1, <1>2 DEF MeterRecord
<1>9. /\ next \in MeterRecord /\ next.born <= today
      /\ next.at # "send" \/ next.left = sender[s].left - n
  <2>1. CASE next = Meter!Asleep
    BY <1>1, <2>1, MeterSets DEF Meter!Asleep, MeterRecord, SenderPlaces, Meter!Days
  <2>2. CASE next = [sender[s] EXCEPT !.left = @ - n]
    <3>1. next = [sender[s] EXCEPT !.left = sender[s].left - n]
      BY <2>2
    <3>2. next \in MeterRecord
      BY <1>2, <1>8, <3>1, MeterRecords
    <3>3. next.born = sender[s].born /\ next.left = sender[s].left - n
      BY <1>2, <3>1 DEF MeterRecord
    <3> QED BY <3>2, <3>3 DEF MeterInv
  <2> QED BY <1>4, <2>1, <2>2
<1>10. /\ sender' \in [Senders -> MeterRecord]
       /\ \A x \in Senders : /\ x # s => sender'[x] = sender[x]
                             /\ x = s => sender'[x] = next
  BY <1>1, <1>4, <1>9
<1>11. \A x \in Senders : /\ sender'[x].born <= today'
                          /\ sender'[x].at = "send" => sender'[x].left <= Hand[x]
  <2> TAKE x \in Senders
  <2>1. CASE x # s
    BY <1>1, <1>2, <1>10, <2>1 DEF MeterInv
  <2>2. CASE x = s
    <3>1. sender[s].left <= Hand[s] /\ Hand[s] \in Nat
      BY <1>1, <1>2, MeterAssumption
    <3> QED BY <1>1, <1>2, <1>8, <1>9, <1>10, <2>2, <3>1
  <2> QED BY <2>1, <2>2
<1>12. spent' <= Held(ledger', Meter!Window') /\ spent' \in Nat
  <2>1. Meter!Window' = w
    BY <1>2 DEF Meter!Window, w
  <2>2. spent <= Held(ledger, w)
    BY DEF MeterInv, w
  <2>3. PICK m \in {0, n} : spent' = spent + m /\ (m = n => m = 0 \/ Meter!Within(w, d))
    BY <1>1, <1>5
  <2>4. \A l \in Meter!Ledgers : ledger[l] \in [Meter!Days -> Nat] /\ ledger'[l] \in [Meter!Days -> Nat]
    BY <1>1, <1>6 DEF MeterBooks
  <2>5. \A l \in Meter!Ledgers, c \in Meter!Days : Seen(ledger[l], w)[c] <= Seen(ledger'[l], w)[c]
    BY <1>1, <1>7, <2>4 DEF Seen
  <2>6. Seen(ledger[k], w)[d] + m <= Seen(ledger'[k], w)[d]
    BY <1>1, <1>3, <1>7, <2>3, <2>4 DEF Seen
  <2>7. Held(ledger, w) + m <= Held(ledger', w) /\ m \in Nat
    BY <1>1, <1>3, <1>6, <2>5, <2>6, HeldGrows
  <2>8. Held(ledger, w) \in Nat /\ Held(ledger', w) \in Nat
    BY <1>1, <1>6, MeterHeld
  <2> QED BY <1>1, <2>1, <2>2, <2>3, <2>7, <2>8
<1>13. spent' + AllDue(ledger', sender') < Quota + SumOver(Hand, Senders)
  <2>1. \A l \in Meter!Ledgers, c \in Meter!Days : ledger[l][c] <= ledger'[l][c]
    BY <1>1, <1>7 DEF MeterBooks
  <2>2. ASSUME NEW x \in Senders
        PROVE  /\ Due(ledger', sender'[x], x) \in Nat
               /\ Due(ledger', sender'[x], x) <= Due(ledger, sender[x], x)
               /\ x = s => Due(ledger', sender'[x], x) + n <= Due(ledger, sender[x], x)
    <3>1. sender[x] \in MeterRecord /\ sender'[x] \in MeterRecord
      BY <1>1, <1>10
    <3>2. Due(ledger', sender'[x], x) \in Nat /\ Due(ledger, sender[x], x) \in Nat
      BY <1>1, <1>6, <1>11, <3>1, MeterDue
    <3>3. CASE x # s
      <4>1. sender'[x] = sender[x]
        BY <1>10, <3>3
      <4>2. /\ Reading(ledger, sender[x]) \in Nat /\ Reading(ledger', sender[x]) \in Nat
            /\ Reading(ledger, sender[x]) <= Reading(ledger', sender[x])
        BY <1>1, <1>6, <2>1, <3>1, ReadingGrows
      <4>3. Ask[x] \in Nat /\ Hand[x] \in Nat /\ Quota \in Nat
        BY MeterAssumption
      <4>4. Reading(ledger', sender[x]) + Ask[x] <= Quota => Reading(ledger, sender[x]) + Ask[x] <= Quota
        BY <4>2, <4>3
      <4>5. sender[x].left \in Nat
        BY <3>1 DEF MeterRecord
      <4> QED BY <3>2, <3>3, <4>1, <4>3, <4>4, <4>5 DEF Due
    <3>4. CASE x = s
      <4>1. Due(ledger, sender[s], s) = sender[s].left
        BY <1>2 DEF Due
      <4>2. Due(ledger', next, s) \in {0, sender[s].left - n}
        <5>1. CASE next = Meter!Asleep
          BY <5>1 DEF Due, Meter!Asleep
        <5>2. CASE next # Meter!Asleep
          <6>1. next = [sender[s] EXCEPT !.left = @ - n]
            BY <1>4, <5>2
          <6>2. next.at = "send" /\ next.left = sender[s].left - n
            BY <1>2, <6>1 DEF MeterRecord
          <6> QED BY <6>2 DEF Due
        <5> QED BY <5>1, <5>2
      <4>3. sender'[s] = next
        BY <1>10
      <4> QED BY <1>1, <1>2, <1>8, <3>2, <3>4, <4>1, <4>2, <4>3
    <3> QED BY <3>3, <3>4
  <2>3. /\ AllDue(ledger', sender') \in Nat /\ AllDue(ledger, sender) \in Nat
        /\ AllDue(ledger', sender') + n <= AllDue(ledger, sender)
    BY <1>1, <1>6, <1>10, <1>11, <2>2, AllDueFalls
  <2>4. spent + AllDue(ledger, sender) < Quota + SumOver(Hand, Senders)
    BY DEF MeterInv
  <2>5. SumOver(Hand, Senders) \in Nat /\ Quota \in Nat
    BY <1>1, MeterAssumption, AllDueBounded
  <2> QED BY <1>1, <1>5, <2>3, <2>4, <2>5
<1>14. \A l \in Meter!Ledgers, c \in Meter!Days : c > today' => ledger'[l][c] = 0
  <2> TAKE l \in Meter!Ledgers, c \in Meter!Days
  <2>1. c > today => c # d /\ ledger[l][c] = 0
    BY <1>1, <1>3 DEF MeterInv, Meter!Days
  <2> QED BY <1>2, <1>7, <2>1
<1>15. MeterTypeOK'
  BY <1>2, <1>6, <1>10, <1>12 DEF MeterInv, MeterTypeOK
<1> QED
  BY <1>11, <1>12, <1>13, <1>14, <1>15 DEF MeterInv

\* A day goes by or the subscription changes, and what has been sent stays in the window.
LEMMA WindowMoves ==
  ASSUME MeterInv, MeterTypeOK', today <= today', UNCHANGED <<ledger, sender, spent>>,
         \A d \in Meter!Days : d <= today /\ Meter!Within(Meter!Window, d) => Meter!Within(Meter!Window', d)
  PROVE  MeterInv'
<1> DEFINE w == Meter!Window
<1>1. ledger \in MeterBooks /\ spent \in Nat /\ today \in Nat /\ today' \in Nat
  BY DEF MeterInv, MeterTypeOK, Meter!Days
<1>2. \A l \in Meter!Ledgers, d \in Meter!Days : ledger[l][d] \in Nat /\ (d > today => ledger[l][d] = 0)
  BY <1>1 DEF MeterInv, MeterBooks
<1>3. \A l \in Meter!Ledgers, d \in Meter!Days : Seen(ledger[l], w)[d] <= Seen(ledger[l], w')[d]
  BY <1>1, <1>2 DEF Seen, Meter!Days
<1>4. "execution" \in Meter!Ledgers
  BY DEF Meter!Ledgers
<1>5. Seen(ledger["execution"], w)[0] + 0 <= Seen(ledger["execution"], w')[0]
  BY <1>2, <1>3, <1>4, MeterSets DEF Seen
<1>6. Held(ledger, w) + 0 <= Held(ledger, w')
  BY <1>1, <1>3, <1>4, <1>5, MeterSets, HeldGrows
<1>7. Held(ledger, w) \in Nat /\ Held(ledger, w') \in Nat
  BY <1>1, MeterHeld
<1>8. spent' <= Held(ledger', w')
  <2>1. spent <= Held(ledger, w)
    BY DEF MeterInv
  <2> HIDE DEF w
  <2> QED BY <1>1, <1>6, <1>7, <2>1
<1>9. \A s \in Senders : sender'[s].born <= today'
  <2> TAKE s \in Senders
  <2>1. sender[s].born <= today /\ sender[s].born \in Nat
    BY DEF MeterInv, MeterTypeOK, MeterRecord, Meter!Days
  <2> QED BY <1>1, <2>1
<1>10. \A l \in Meter!Ledgers, d \in Meter!Days : d > today' => ledger'[l][d] = 0
  BY <1>1, <1>2 DEF Meter!Days
<1> QED
  BY <1>8, <1>9, <1>10 DEF MeterInv

LEMMA MeterStep ==
  ASSUME MeterInv, [Meter!UsageNext]_meterVars
  PROVE  MeterInv'
<1>1. /\ today \in Nat /\ today \in Meter!Days /\ spent \in Nat
      /\ sub \in [status : SubStatuses, trial : Nat, grace : Nat, from : Nat, to : Nat]
      /\ {TrialDays, Grace, Cycle, FinalDay} \subseteq Nat
  BY MeterAssumption DEF MeterInv, MeterTypeOK, Meter!Days
<1>2. CASE UNCHANGED <<today, sub, ledger, sender, spent>>
  BY <1>1, <1>2, WindowMoves DEF MeterInv, MeterTypeOK, Meter!Window
<1>3. ASSUME NEW s \in Senders,
             \/ Meter!Create(s) \/ Meter!Look(s) \/ Meter!Plead(s) \/ Meter!Answer(s)
             \/ Meter!Fails(s) \/ \E n \in 1..MaxUnits : Meter!Record(s, n)
      PROVE  MeterInv'
  BY <1>3, MeterSenders, MeterRecordsUnits
<1>4. CASE Meter!NextDay
  <2>1. today' = today + 1 /\ today' \in Meter!Days /\ UNCHANGED <<sub, ledger, sender, spent>>
    BY <1>1, <1>4 DEF Meter!NextDay, Meter!gate, Meter!Days
  <2>2. \A d \in Meter!Days : Meter!Within(Meter!Window, d) => Meter!Within(Meter!Window', d)
    BY <2>1 DEF Meter!Within, Meter!Window
  <2>3. MeterTypeOK' /\ today <= today'
    BY <1>1, <2>1 DEF MeterInv, MeterTypeOK
  <2> QED BY <2>1, <2>2, <2>3, WindowMoves
<1>5. CASE Meter!Subscribe \/ Meter!Declined \/ Meter!Cancel \/ Meter!TrialOver
  <2>1. UNCHANGED <<today, ledger, sender, spent>> /\ sub'.from = sub.from /\ sub'.to = sub.to
        /\ sub'.trial = sub.trial
        /\ sub' \in [status : SubStatuses, trial : Nat, grace : Nat, from : Nat, to : Nat]
        /\ (sub'.status = "TRIALING" => sub'.trial > today)
    <3>1. CASE Meter!Subscribe
      <4>1. sub.trial + Grace \in Nat
        BY <1>1
      <4> QED BY <1>1, <3>1, <4>1 DEF Meter!Subscribe, Meter!gate, SubStatuses
    <3>2. CASE Meter!Declined
      BY <1>1, <3>2 DEF Meter!Declined, Meter!gate, SubStatuses
    <3>3. CASE Meter!Cancel
      BY <1>1, <3>3 DEF Meter!Cancel, Meter!gate, SubStatuses
    <3>4. CASE Meter!TrialOver
      <4>1. today + Grace \in Nat
        BY <1>1
      <4> QED BY <1>1, <3>4, <4>1 DEF Meter!TrialOver, Meter!gate, SubStatuses
    <3> QED BY <1>5, <3>1, <3>2, <3>3, <3>4
  <2>2. \A d \in Meter!Days : d <= today /\ Meter!Within(Meter!Window, d) => Meter!Within(Meter!Window', d)
    BY <1>1, <2>1 DEF Meter!Within, Meter!Window, Meter!Days
  <2>3. MeterTypeOK' /\ today <= today'
    BY <1>1, <2>1 DEF MeterInv, MeterTypeOK
  <2> QED BY <2>1, <2>2, <2>3, WindowMoves
<1>6. CASE Meter!Activate
  <2>1. /\ today' = today + 1 /\ today' \in Meter!Days /\ spent' = 0 /\ UNCHANGED <<ledger, sender>>
        /\ sub'  \in [status : SubStatuses, trial : Nat, grace : Nat, from : Nat, to : Nat]
    <3> DEFINE preserved == IF sub.trial > today + 1 THEN sub.trial - today - 1 ELSE 0
               until == today + 1 + preserved + Cycle
    <3>1. preserved \in Nat
      BY <1>1
    <3>2. until \in Nat /\ today + 1 \in Nat
      BY <1>1, <3>1
    <3>3. /\ today' = today + 1 /\ today < FinalDay /\ spent' = 0 /\ UNCHANGED <<ledger, sender>>
          /\ sub' = [sub EXCEPT !.status = "ACTIVE", !.from = today + 1, !.to = until]
      BY <1>6 DEF Meter!Activate
    <3> HIDE DEF until
    <3>4. today' \in Meter!Days
      BY <1>1, <3>3 DEF Meter!Days
    <3>5. sub' \in [status : SubStatuses, trial : Nat, grace : Nat, from : Nat, to : Nat]
      BY <1>1, <3>2, <3>3 DEF SubStatuses
    <3> QED BY <3>3, <3>4, <3>5
  <2>2. MeterTypeOK'
    BY <1>1, <2>1 DEF MeterInv, MeterTypeOK
  <2>3. ledger \in MeterBooks /\ sender \in [Senders -> MeterRecord]
    BY DEF MeterInv, MeterTypeOK
  <2>4. Held(ledger, Meter!Window') \in Nat
    BY <2>3, MeterHeld
  <2>5. /\ AllDue(ledger, sender) \in Nat /\ SumOver(Hand, Senders) \in Nat
        /\ AllDue(ledger, sender) <= SumOver(Hand, Senders)
    BY <2>3, AllDueBounded DEF MeterInv
  <2>6. \A s \in Senders : sender'[s].born <= today'
    <3> TAKE s \in Senders
    <3>1. sender[s].born <= today /\ sender[s].born \in Nat
      BY DEF MeterInv, MeterTypeOK, MeterRecord, Meter!Days
    <3> QED BY <1>1, <2>1, <3>1
  <2>7. \A l \in Meter!Ledgers, d \in Meter!Days : d > today' => ledger'[l][d] = 0
    BY <1>1, <2>1 DEF MeterInv, Meter!Days
  <2> QED
    BY <2>1, <2>2, <2>4, <2>5, <2>6, <2>7, MeterAssumption DEF MeterInv
<1>7. CASE \E d \in Meter!Days : Meter!Grant(d) \/ Meter!Revoke(d)
  BY <1>2, <1>7 DEF Meter!Grant, Meter!Revoke, Meter!gate
<1> QED
  BY <1>2, <1>3, <1>4, <1>5, <1>6, <1>7 DEF Meter!UsageNext, meterVars

\* Within a window the mails recorded pass the plan's quota by less than what the senders
\* have in hand, however their checks and sendings interleave, fail or go on for days, and
\* whatever becomes of the subscription meanwhile (checkEntitlement and countUsage,
\* billing.service.ts); and the rollup's bucket of a day is never more than the ledgers
\* hold, and all of it unless a unit came after its last rollup (usage.service.ts).
THEOREM MetersTrueAlways == Spec => []MetersTrue
<1> DEFINE Inv == /\ part = "meter" => MeterInv
                  /\ part = "rollup" => RollupInv
<1>1. Init => Inv
  BY MeterStart, RollupStart
<1>2. Inv /\ [Next]_platformVars => Inv'
  BY MeterSteps, MeterStep, RollupSteps, RollupStep, PartStays
<1>3. Inv => MetersTrue
  <2>1. MeterInv => Meter!QuotaHolds
    <3> SUFFICES ASSUME MeterInv PROVE spent < Quota + SumOver(Hand, Senders)
      BY MeterHands
    <3>1. AllDue(ledger, sender) \in Nat /\ SumOver(Hand, Senders) \in Nat
      BY AllDueBounded DEF MeterInv, MeterTypeOK
    <3> QED BY <3>1, MeterAssumption DEF MeterInv, MeterTypeOK
  <2>2. RollupInv => Rollup!BucketsTrue
    BY RollupTotal DEF RollupInv, Rollup!BucketsTrue
  <2> QED BY <2>1, <2>2 DEF MetersTrue
<1> QED
  BY <1>1, <1>2, <1>3, PTL DEF Spec, platformVars

-----------------------------------------------------------------------------
(* The calendar.                                                            *)

\* Equal summands have an equal sum.
LEMMA SumAgree ==
  ASSUME NEW S, IsFiniteSet(S), NEW e, NEW f, \A x \in S : e[x] \in Nat /\ f[x] = e[x]
  PROVE  SumOver(e, S) = SumOver(f, S)
<1>1. SumOver(e, S) <= SumOver(f, S) /\ SumOver(f, S) <= SumOver(e, S)
  BY SumMonotone
<1>2. SumOver(e, S) \in Nat /\ SumOver(f, S) \in Nat
  BY SumNat
<1> QED
  BY <1>1, <1>2

\* What grows at every step grows over any number of them, by as much at least.
LEMMA Rises ==
  ASSUME NEW k \in Nat, NEW f \in [0 .. k -> Nat], \A i \in 0 .. k - 1 : f[i] < f[i + 1]
  PROVE  /\ \A i \in 0 .. k : f[i] >= i
         /\ \A i, j \in 0 .. k : i < j => f[i] < f[j]
<1>1. ASSUME NEW i \in 0 .. k PROVE f[i] >= i
  <2> DEFINE T == {n \in 0 .. k : f[n] < n}
  <2>1. ASSUME T # {} PROVE FALSE
    <3>1. T \in SUBSET Nat
      OBVIOUS
    <3>2. PICK n \in T : \A m \in T : n <= m
      BY <2>1, <3>1, LeastNat
    <3>3. n \in 0 .. k /\ f[n] < n /\ f[n] \in Nat
      OBVIOUS
    <3>4. n - 1 \in 0 .. k - 1 /\ n - 1 \in 0 .. k /\ (n - 1) + 1 = n
      BY <3>3
    <3>5. f[n - 1] < f[n] /\ f[n - 1] \in Nat
      BY <3>4
    <3>6. n - 1 \in T
      BY <3>3, <3>4, <3>5
    <3> QED BY <3>2, <3>3, <3>6
  <2>2. i \notin T /\ f[i] \in Nat
    BY <2>1
  <2> QED BY <2>2
<1>2. ASSUME NEW i \in 0 .. k, NEW j \in 0 .. k, i < j PROVE f[i] < f[j]
  <2> DEFINE T == {n \in 0 .. k : i < n /\ ~(f[i] < f[n])}
  <2>1. ASSUME T # {} PROVE FALSE
    <3>1. T \in SUBSET Nat
      OBVIOUS
    <3>2. PICK n \in T : \A m \in T : n <= m
      BY <2>1, <3>1, LeastNat
    <3>3. n \in 0 .. k /\ i < n /\ ~(f[i] < f[n]) /\ f[n] \in Nat /\ f[i] \in Nat
      OBVIOUS
    <3>4. n - 1 \in 0 .. k - 1 /\ n - 1 \in 0 .. k /\ (n - 1) + 1 = n
      BY <3>3
    <3>5. f[n - 1] < f[n] /\ f[n - 1] \in Nat
      BY <3>4
    <3>6. n - 1 = i \/ n - 1 \in T
      BY <3>3, <3>4, <3>5
    <3> QED BY <3>2, <3>3, <3>5, <3>6
  <2>2. j \notin T
    BY <2>1
  <2> QED BY <1>2, <2>2
<1> QED
  BY <1>1, <1>2

\* Between the first and the last of rising numbers, a number is in one interval.
LEMMA Bracket ==
  ASSUME NEW k \in Nat, NEW f \in [0 .. k -> Nat], \A i \in 0 .. k - 1 : f[i] < f[i + 1],
         NEW v \in Nat, f[0] <= v, v < f[k]
  PROVE  \E i \in 0 .. k - 1 :
           /\ f[i] <= v /\ v < f[i + 1]
           /\ \A j \in 0 .. k - 1 : f[j] <= v /\ v < f[j + 1] => j = i
<1> DEFINE T == {n \in 0 .. k : v < f[n]}
<1>1. T \in SUBSET Nat /\ T # {}
  <2>1. T \in SUBSET Nat
    OBVIOUS
  <2>2. k \in T
    OBVIOUS
  <2> QED BY <2>1, <2>2
<1>2. PICK n \in T : \A m \in T : n <= m
  BY <1>1, LeastNat
<1>3. n \in 0 .. k /\ v < f[n] /\ f[n] \in Nat /\ n # 0
  <2>1. f[0] \in Nat
    OBVIOUS
  <2> QED BY <2>1
<1>4. n - 1 \in 0 .. k - 1 /\ n - 1 \in 0 .. k /\ (n - 1) + 1 = n
  BY <1>3
<1>5. f[n - 1] <= v
  <2>1. n - 1 \notin T
    BY <1>2, <1>3, <1>4
  <2>2. f[n - 1] \in Nat
    BY <1>4
  <2> QED BY <1>4, <2>1, <2>2
<1>6. ASSUME NEW j \in 0 .. k - 1, f[j] <= v, v < f[j + 1] PROVE j = n - 1
  <2>1. j + 1 \in 0 .. k /\ j \in 0 .. k
    OBVIOUS
  <2>2. j + 1 \in T
    BY <1>6, <2>1
  <2>3. n <= j + 1
    BY <1>2, <2>2
  <2>4. ~(n < j + 1)
    <3>1. SUFFICES ASSUME n < j + 1 PROVE FALSE
      OBVIOUS
    <3>2. n <= j
      BY <1>3, <3>1
    <3>3. n = j \/ f[n] < f[j]
      <4>1. \A a, b \in 0 .. k : a < b => f[a] < f[b]
        BY Rises
      <4> QED BY <1>3, <2>1, <3>2, <4>1
    <3>4. f[j] \in Nat
      BY <2>1
    <3> QED BY <1>3, <1>6, <3>3, <3>4
  <2> QED BY <1>3, <2>3, <2>4
<1> QED
  BY <1>3, <1>4, <1>5, <1>6

\* The folds of the calendar are sums.
LEMMA CalendarSums ==
  /\ \A y \in Nat : Cron!YearLength(y) = SumOver(MonthDays[y % Leap], 1 .. Months)
  /\ \A y \in Nat : Cron!NewYear(y) = SumOver([z \in 0 .. y - 1 |-> Cron!YearLength(z)], 0 .. y - 1)
  /\ \A y \in Nat, m \in Nat :
       Cron!First(y, m) = Cron!NewYear(y) + SumOver(MonthDays[y % Leap], 1 .. m - 1)
<1>1. ASSUME NEW y \in Nat PROVE MonthDays[y % Leap] \in [1 .. Months -> Nat \ {0}]
  <2>1. y % Leap \in 0 .. Leap - 1
    BY CronAssumption
  <2> QED BY <2>1, CronAssumption
<1>2. ASSUME NEW y \in Nat
      PROVE  Cron!YearLength(y) = SumOver(MonthDays[y % Leap], 1 .. Months)
  <2>1. DOMAIN MonthDays[y % Leap] = 1 .. Months
    BY <1>1
  <2> QED BY <2>1 DEF Cron!YearLength, Cron!FoldFunction, Cron!FoldFunctionOnSet, Cron!MapThenFoldSet,
                 SumOver, IsFold, AnyOf
<1>3. ASSUME NEW y \in Nat
      PROVE  Cron!NewYear(y) = SumOver([z \in 0 .. y - 1 |-> Cron!YearLength(z)], 0 .. y - 1)
  <2>1. DOMAIN [z \in 0 .. y - 1 |-> Cron!YearLength(z)] = 0 .. y - 1
    OBVIOUS
  <2> QED BY <2>1 DEF Cron!NewYear, Cron!FoldFunction, Cron!FoldFunctionOnSet, Cron!MapThenFoldSet,
                 SumOver, IsFold, AnyOf
<1>4. ASSUME NEW y \in Nat, NEW m \in Nat
      PROVE  Cron!First(y, m) = Cron!NewYear(y) + SumOver(MonthDays[y % Leap], 1 .. m - 1)
  BY DEF Cron!First, Cron!FoldFunctionOnSet, Cron!MapThenFoldSet, SumOver, IsFold, AnyOf
<1> QED
  BY <1>2, <1>3, <1>4

\* A month of any year has a day at least.
LEMMA MonthLengths ==
  ASSUME NEW y \in Nat
  PROVE  MonthDays[y % Leap] \in [1 .. Months -> Nat \ {0}]
<1>1. y % Leap \in 0 .. Leap - 1
  BY CronAssumption
<1> QED
  BY <1>1, CronAssumption

\* And so has a year.
LEMMA YearLengthType ==
  ASSUME NEW y \in Nat
  PROVE  Cron!YearLength(y) \in Nat \ {0}
<1>1. IsFiniteSet(1 .. Months) /\ 1 \in 1 .. Months
  BY CronAssumption, FS_Interval
<1>2. PICK e : e = MonthDays[y % Leap]
  OBVIOUS
<1>3. \A m \in 1 .. Months : e[m] \in Nat \ {0}
  BY <1>2, MonthLengths
<1>4. SumOver(e, 1 .. Months) = e[1] + SumOver(e, (1 .. Months) \ {1})
  BY <1>1, <1>3, SumStep
<1>5. IsFiniteSet((1 .. Months) \ {1})
  BY <1>1, FS_RemoveElement
<1>6. SumOver(e, (1 .. Months) \ {1}) \in Nat
  BY <1>3, <1>5, SumNat
<1>7. Cron!YearLength(y) = SumOver(e, 1 .. Months)
  BY <1>2, CalendarSums
<1>8. e[1] \in Nat \ {0}
  BY <1>1, <1>3
<1> QED
  BY <1>4, <1>6, <1>7, <1>8

\* A year follows the one before it.
LEMMA NewYearStep ==
  ASSUME NEW y \in Nat
  PROVE  /\ Cron!NewYear(y) \in Nat
         /\ Cron!NewYear(0) = 0
         /\ Cron!NewYear(y + 1) = Cron!NewYear(y) + Cron!YearLength(y)
<1> DEFINE e == [z \in 0 .. y - 1 |-> Cron!YearLength(z)]
           f == [z \in 0 .. y |-> Cron!YearLength(z)]
<1>1. /\ IsFiniteSet(0 .. y - 1) /\ IsFiniteSet(0 .. y)
  BY FS_Interval
<1>2. \A z \in 0 .. y : f[z] = Cron!YearLength(z) /\ f[z] \in Nat
  BY YearLengthType
<1>3. \A z \in 0 .. y - 1 : e[z] = Cron!YearLength(z)
  OBVIOUS
<1>4. Cron!NewYear(y) = SumOver(e, 0 .. y - 1)
  BY CalendarSums
<1>5. Cron!NewYear(y + 1) = SumOver(f, 0 .. y)
  <2>1. y + 1 \in Nat /\ (y + 1) - 1 = y
    OBVIOUS
  <2>2. Cron!NewYear(y + 1) = SumOver([z \in 0 .. (y + 1) - 1 |-> Cron!YearLength(z)], 0 .. (y + 1) - 1)
    BY <2>1, CalendarSums
  <2> QED BY <2>1, <2>2
<1> HIDE DEF e, f
<1>6. SumOver(e, 0 .. y - 1) = SumOver(f, 0 .. y - 1)
  BY <1>1, <1>2, <1>3, SumAgree
<1>7. (0 .. y) \ {y} = 0 .. y - 1 /\ y \in 0 .. y
  OBVIOUS
<1>8. SumOver(f, 0 .. y) = f[y] + SumOver(f, (0 .. y) \ {y})
  BY <1>1, <1>2, <1>7, SumStep
<1>9. SumOver(f, 0 .. y - 1) \in Nat
  BY <1>1, <1>2, SumNat
<1>10. Cron!NewYear(0) = 0
  <2>1. 0 .. 0 - 1 = {}
    OBVIOUS
  <2>2. Cron!NewYear(0) = SumOver([z \in 0 .. 0 - 1 |-> Cron!YearLength(z)], 0 .. 0 - 1)
    BY CalendarSums
  <2>3. \A g : SumOver(g, {}) = 0
    BY FS_EmptySet, SumEquation
  <2> QED BY <2>1, <2>2, <2>3
<1>11. Cron!YearLength(y) \in Nat
  BY YearLengthType
<1>12. f[y] = Cron!YearLength(y)
  BY <1>2, <1>7
<1>13. Cron!NewYear(y + 1) = f[y] + SumOver(f, 0 .. y - 1)
  BY <1>5, <1>7, <1>8
<1>14. Cron!NewYear(y) = SumOver(f, 0 .. y - 1)
  BY <1>4, <1>6
<1> QED
  BY <1>9, <1>10, <1>11, <1>12, <1>13, <1>14

\* A month follows the one before it, the first of a year the last of the year before.
LEMMA FirstStep ==
  ASSUME NEW y \in Nat
  PROVE  /\ Cron!First(y, 1) = Cron!NewYear(y)
         /\ Cron!First(y, Months + 1) = Cron!NewYear(y + 1)
         /\ \A m \in 1 .. Months + 1 : Cron!First(y, m) \in Nat
         /\ \A m \in 1 .. Months : Cron!First(y, m) < Cron!First(y, m + 1)
<1>1. Months \in Nat \ {0}
  BY CronAssumption
<1>2. PICK e : e = MonthDays[y % Leap]
  OBVIOUS
<1>3. \A m \in 1 .. Months : e[m] \in Nat \ {0}
  BY <1>2, MonthLengths
<1>4. \A m \in 1 .. Months + 1 : Cron!First(y, m) = Cron!NewYear(y) + SumOver(e, 1 .. m - 1)
  BY <1>2, CalendarSums
<1>5. Cron!NewYear(y) \in Nat /\ Cron!NewYear(y + 1) = Cron!NewYear(y) + SumOver(e, 1 .. Months)
  BY <1>2, NewYearStep, CalendarSums
<1>6. ASSUME NEW m \in 1 .. Months + 1 PROVE SumOver(e, 1 .. m - 1) \in Nat
  <2>1. IsFiniteSet(1 .. m - 1) /\ \A x \in 1 .. m - 1 : e[x] \in Nat
    BY <1>1, <1>3, FS_Interval
  <2> QED BY <2>1, SumNat
<1>7. SumOver(e, 1 .. 1 - 1) = 0
  <2>1. 1 .. 1 - 1 = {}
    OBVIOUS
  <2> QED BY <2>1, FS_EmptySet, SumEquation
<1>8. ASSUME NEW m \in 1 .. Months
      PROVE  SumOver(e, 1 .. m) = e[m] + SumOver(e, 1 .. m - 1)
  <2>1. IsFiniteSet(1 .. m) /\ (\A x \in 1 .. m : e[x] \in Nat) /\ m \in 1 .. m
    BY <1>1, <1>3, FS_Interval
  <2>2. (1 .. m) \ {m} = 1 .. m - 1
    OBVIOUS
  <2>3. SumOver(e, 1 .. m) = e[m] + SumOver(e, (1 .. m) \ {m})
    BY <2>1, SumStep
  <2> QED BY <2>2, <2>3
<1>9. Cron!First(y, 1) = Cron!NewYear(y)
  <2>1. 1 \in 1 .. Months + 1
    BY <1>1
  <2> QED BY <1>4, <1>5, <1>7, <2>1
<1>10. Cron!First(y, Months + 1) = Cron!NewYear(y + 1)
  <2>1. Months + 1 \in 1 .. Months + 1 /\ (Months + 1) - 1 = Months
    BY <1>1
  <2> QED BY <1>4, <1>5, <2>1
<1>11. \A m \in 1 .. Months + 1 : Cron!First(y, m) \in Nat
  BY <1>4, <1>5, <1>6
<1>12. ASSUME NEW m \in 1 .. Months PROVE Cron!First(y, m) < Cron!First(y, m + 1)
  <2>1. m \in 1 .. Months + 1 /\ m + 1 \in 1 .. Months + 1 /\ (m + 1) - 1 = m
    BY <1>1
  <2>2. Cron!First(y, m + 1) = Cron!NewYear(y) + SumOver(e, 1 .. m)
    BY <1>4, <2>1
  <2>3. SumOver(e, 1 .. m - 1) \in Nat /\ e[m] \in Nat \ {0}
    BY <1>3, <1>6, <2>1
  <2> QED BY <1>4, <1>5, <1>8, <2>1, <2>2, <2>3
<1> QED
  BY <1>9, <1>10, <1>11, <1>12

\* A day is in one year.
LEMMA YearOfDay ==
  ASSUME NEW d \in Nat
  PROVE  /\ Cron!Year(d) \in Nat
         /\ Cron!NewYear(Cron!Year(d)) <= d /\ d < Cron!NewYear(Cron!Year(d) + 1)
         /\ \A y \in Nat : Cron!NewYear(y) <= d /\ d < Cron!NewYear(y + 1) => y = Cron!Year(d)
<1> DEFINE IsYear(y) == Cron!NewYear(y) <= d /\ d < Cron!NewYear(y + 1)
<1>1. \A n \in Nat : Cron!NewYear(n) \in Nat /\ Cron!NewYear(n) < Cron!NewYear(n + 1)
  BY NewYearStep, YearLengthType
<1>2. \A n \in Nat : Cron!NewYear(n) >= n
  <2> TAKE n \in Nat
  <2> DEFINE f == [y \in 0 .. n |-> Cron!NewYear(y)]
  <2>1. f \in [0 .. n -> Nat] /\ \A i \in 0 .. n - 1 : f[i] < f[i + 1]
    <3>1. f \in [0 .. n -> Nat]
      BY <1>1
    <3>2. \A i \in 0 .. n - 1 : f[i] = Cron!NewYear(i) /\ f[i + 1] = Cron!NewYear(i + 1)
      OBVIOUS
    <3> HIDE DEF f
    <3>3. \A i \in 0 .. n - 1 : f[i] < f[i + 1]
      BY <1>1, <3>2
    <3> QED BY <3>1, <3>3
  <2>2. f[n] = Cron!NewYear(n)
    OBVIOUS
  <2> HIDE DEF f
  <2>3. f[n] >= n
    BY <2>1, Rises
  <2> QED BY <2>2, <2>3
<1>3. \E y \in 0 .. d : IsYear(y) /\ \A z \in 0 .. d : IsYear(z) => z = y
  <2> DEFINE f == [y \in 0 .. d + 1 |-> Cron!NewYear(y)]
  <2>1. d + 1 \in Nat /\ f \in [0 .. d + 1 -> Nat] /\ \A i \in 0 .. (d + 1) - 1 : f[i] < f[i + 1]
    <3>1. f \in [0 .. d + 1 -> Nat]
      BY <1>1
    <3>2. \A i \in 0 .. (d + 1) - 1 : f[i] = Cron!NewYear(i) /\ f[i + 1] = Cron!NewYear(i + 1)
      OBVIOUS
    <3> HIDE DEF f
    <3>3. \A i \in 0 .. (d + 1) - 1 : f[i] < f[i + 1]
      BY <1>1, <3>2
    <3> QED BY <3>1, <3>3
  <2>2. f[0] = 0 /\ f[d + 1] = Cron!NewYear(d + 1)
    BY NewYearStep
  <2>3. \A i \in 0 .. d : f[i] = Cron!NewYear(i) /\ f[i + 1] = Cron!NewYear(i + 1)
    OBVIOUS
  <2> HIDE DEF f
  <2>4. f[0] <= d /\ d < f[d + 1]
    <3>1. Cron!NewYear(d + 1) >= d + 1 /\ Cron!NewYear(d + 1) \in Nat
      BY <1>1, <1>2
    <3> QED BY <2>2, <3>1
  <2>5. \E i \in 0 .. (d + 1) - 1 :
           /\ f[i] <= d /\ d < f[i + 1]
           /\ \A j \in 0 .. (d + 1) - 1 : f[j] <= d /\ d < f[j + 1] => j = i
    BY <2>1, <2>4, Bracket
  <2>6. (d + 1) - 1 = d
    OBVIOUS
  <2> QED BY <2>3, <2>5, <2>6
<1>4. Cron!Year(d) \in 0 .. d /\ IsYear(Cron!Year(d))
  BY <1>3 DEF Cron!Year
<1>5. ASSUME NEW y \in Nat, IsYear(y) PROVE y = Cron!Year(d)
  <2>1. y \in 0 .. d
    BY <1>1, <1>2, <1>5
  <2> QED BY <1>3, <1>4, <1>5, <2>1
<1> QED
  BY <1>4, <1>5

\* And in one month of it.
LEMMA MonthOfDay ==
  ASSUME NEW d \in Nat
  PROVE  /\ Cron!Month(d) \in 1 .. Months
         /\ Cron!First(Cron!Year(d), Cron!Month(d)) <= d
         /\ d < Cron!First(Cron!Year(d), Cron!Month(d) + 1)
         /\ \A m \in 1 .. Months :
              Cron!First(Cron!Year(d), m) <= d /\ d < Cron!First(Cron!Year(d), m + 1) => m = Cron!Month(d)
<1>1. PICK y \in Nat : y = Cron!Year(d)
  BY YearOfDay
<1>2. Months \in Nat \ {0}
  BY CronAssumption
<1> DEFINE IsMonth(m) == Cron!First(y, m) <= d /\ d < Cron!First(y, m + 1)
           f == [i \in 0 .. Months |-> Cron!First(y, i + 1)]
<1>3. \E m \in 1 .. Months : IsMonth(m) /\ \A n \in 1 .. Months : IsMonth(n) => n = m
  <2>1. f \in [0 .. Months -> Nat]
    <3>1. \A i \in 0 .. Months : i + 1 \in 1 .. Months + 1
      BY <1>2
    <3> QED BY <3>1, FirstStep
  <2>2. \A i \in 0 .. Months - 1 : f[i] = Cron!First(y, i + 1) /\ f[i + 1] = Cron!First(y, (i + 1) + 1)
    BY <1>2
  <2>3. f[0] = Cron!First(y, 1) /\ f[Months] = Cron!First(y, Months + 1)
    BY <1>2
  <2> HIDE DEF f
  <2>4. \A i \in 0 .. Months - 1 : f[i] < f[i + 1]
    <3>1. \A i \in 0 .. Months - 1 : i + 1 \in 1 .. Months
      BY <1>2
    <3> QED BY <2>2, <3>1, FirstStep
  <2>5. f[0] <= d /\ d < f[Months]
    BY <1>1, <2>3, FirstStep, YearOfDay
  <2>6. PICK i \in 0 .. Months - 1 :
           /\ f[i] <= d /\ d < f[i + 1]
           /\ \A j \in 0 .. Months - 1 : f[j] <= d /\ d < f[j + 1] => j = i
    BY <1>2, <2>1, <2>4, <2>5, Bracket
  <2>7. i + 1 \in 1 .. Months /\ IsMonth(i + 1)
    BY <1>2, <2>2, <2>6
  <2>8. ASSUME NEW n \in 1 .. Months, IsMonth(n) PROVE n = i + 1
    <3>1. n - 1 \in 0 .. Months - 1 /\ (n - 1) + 1 = n
      BY <1>2
    <3>2. f[n - 1] = Cron!First(y, n) /\ f[(n - 1) + 1] = Cron!First(y, n + 1)
      BY <2>2, <3>1
    <3>3. n - 1 = i
      BY <2>6, <2>8, <3>1, <3>2
    <3> QED BY <3>1, <3>3
  <2> QED BY <2>7, <2>8
<1>4. Cron!Month(d) = CHOOSE m \in 1 .. Months : IsMonth(m)
  BY <1>1 DEF Cron!Month
<1>5. Cron!Month(d) \in 1 .. Months /\ IsMonth(Cron!Month(d))
  BY <1>3, <1>4
<1>6. \A m \in 1 .. Months : IsMonth(m) => m = Cron!Month(d)
  BY <1>3, <1>5
<1> QED
  BY <1>1, <1>5, <1>6

\* The first day of the month after a day's is later, and the days up to it are of
\* that day's month.
LEMMA MonthIsLeft ==
  ASSUME NEW d \in Nat, NEW n, n = Cron!First(Cron!Year(d), Cron!Month(d) + 1)
  PROVE  /\ n \in Nat /\ d < n
         /\ \A e \in d .. n - 1 : Cron!Month(e) = Cron!Month(d)
<1>1. PICK y \in Nat : y = Cron!Year(d)
  BY YearOfDay
<1>2. PICK m \in 1 .. Months : m = Cron!Month(d)
  BY MonthOfDay
<1>3. Months \in Nat \ {0}
  BY CronAssumption
<1>4. n = Cron!First(y, m + 1) /\ n \in Nat
  <2>1. m + 1 \in 1 .. Months + 1
    BY <1>3
  <2> QED BY <1>1, <1>2, <2>1, FirstStep
<1>5. /\ Cron!First(y, m) <= d /\ d < n
      /\ Cron!First(y, m) \in Nat
  <2>1. m \in 1 .. Months + 1
    BY <1>3
  <2> QED BY <1>1, <1>2, <1>4, <2>1, MonthOfDay, FirstStep
<1>6. Cron!NewYear(y) <= d /\ n <= Cron!NewYear(y + 1) /\ Cron!NewYear(y) \in Nat /\ Cron!NewYear(y + 1) \in Nat
  <2>1. Cron!NewYear(y) <= d
    BY <1>1, YearOfDay
  <2>2. Cron!NewYear(y) \in Nat /\ Cron!NewYear(y + 1) \in Nat
    BY NewYearStep
  <2>3. n <= Cron!NewYear(y + 1)
    <3> DEFINE f == [i \in 0 .. Months |-> Cron!First(y, i + 1)]
    <3>1. f \in [0 .. Months -> Nat]
      <4>1. \A i \in 0 .. Months : i + 1 \in 1 .. Months + 1
        BY <1>3
      <4> QED BY <4>1, FirstStep
    <3>2. \A i \in 0 .. Months : f[i] = Cron!First(y, i + 1)
      OBVIOUS
    <3> HIDE DEF f
    <3>3. \A i \in 0 .. Months - 1 : f[i] < f[i + 1]
      <4>1. \A i \in 0 .. Months - 1 : i + 1 \in 1 .. Months /\ i \in 0 .. Months /\ i + 1 \in 0 .. Months
        BY <1>3
      <4> QED BY <3>2, <4>1, FirstStep
    <3>4. \A a, b \in 0 .. Months : a < b => f[a] < f[b]
      BY <1>3, <3>1, <3>3, Rises
    <3>5. m \in 0 .. Months /\ Months \in 0 .. Months /\ (m = Months \/ m < Months)
      BY <1>3
    <3>6. f[m] = n /\ f[Months] = Cron!NewYear(y + 1)
      BY <1>4, <3>2, <3>5, FirstStep
    <3>7. m = Months \/ f[m] < f[Months]
      BY <3>4, <3>5
    <3> QED BY <1>4, <2>2, <3>6, <3>7
  <2> QED BY <2>1, <2>2, <2>3
<1>7. ASSUME NEW e \in d .. n - 1 PROVE Cron!Month(e) = Cron!Month(d)
  <2>1. e \in Nat /\ d <= e /\ e < n
    BY <1>4
  <2>2. Cron!NewYear(y) <= e /\ e < Cron!NewYear(y + 1)
    BY <1>4, <1>6, <2>1
  <2>3. y = Cron!Year(e)
    BY <2>1, <2>2, YearOfDay
  <2>4. Cron!First(y, m) <= e /\ e < Cron!First(y, m + 1)
    BY <1>4, <1>5, <2>1
  <2>5. m = Cron!Month(e)
    BY <2>1, <2>3, <2>4, MonthOfDay
  <2> QED BY <1>2, <2>5
<1> QED
  BY <1>4, <1>5, <1>7

-----------------------------------------------------------------------------
(* The cron search.                                                         *)

LEMMA CronSteps ==
  ASSUME part = "cron", [Next]_platformVars
  PROVE  [Cron!CronNext]_cronVars
BY DEF Next, Only, platformVars

\* A minute of a day by its fields.
LEMMA MinuteFields ==
  /\ \A d, t : t \in Cron!MinutesOf(d) =>
       t = Cron!At(t.day, t.hour, t.minute) /\ t.day = d
       /\ t.hour \in 0 .. Hours - 1 /\ t.minute \in 0 .. Minutes - 1
  /\ \A d : \A h \in 0 .. Hours - 1, m \in 0 .. Minutes - 1 :
       /\ Cron!At(d, h, m) \in Cron!MinutesOf(d)
       /\ Cron!At(d, h, m).day = d /\ Cron!At(d, h, m).hour = h /\ Cron!At(d, h, m).minute = m
BY DEF Cron!MinutesOf, Cron!At

\* The search is past the start by a day for each turn at least, and the expression
\* fires at no minute that is after the start and before the cursor.
CronInv ==
  /\ from.day \in Nat /\ from \in Cron!MinutesOf(from.day)
  /\ cursor.day \in Nat /\ cursor \in Cron!MinutesOf(cursor.day)
  /\ Cron!Earlier(from, cursor)
  /\ turns \in 0 .. Horizon /\ from.day + turns <= cursor.day
  /\ \A d \in from.day .. cursor.day : \A t \in Cron!MinutesOf(d) :
       Cron!Earlier(from, t) /\ Cron!Earlier(t, cursor) => ~Cron!Fires(t)
  /\ \A found \in answer :
       /\ Cron!Earlier(from, found) /\ Cron!Fires(found)
       /\ \A t \in Cron!Upcoming(found.day - from.day) : Cron!Earlier(t, found) => ~Cron!Fires(t)

LEMMA CronNumbers ==
  /\ Hours \in Nat \ {0} /\ Minutes \in Nat \ {0} /\ Months \in Nat \ {0}
  /\ Starts \subseteq Nat /\ Horizon \in Nat
BY CronAssumption

\* No minute is between one and the one after it.
LEMMA CronStart == Init /\ part = "cron" => CronInv
<1> SUFFICES ASSUME Cron!Init PROVE CronInv
  BY DEF Init
<1>1. PICK d \in Starts : from \in Cron!MinutesOf(d)
  BY DEF Cron!Init
<1>2. d \in Nat /\ Hours \in Nat \ {0} /\ Minutes \in Nat \ {0}
  BY <1>1, CronNumbers
<1>3. PICK h \in 0 .. Hours - 1, m \in 0 .. Minutes - 1 : from = Cron!At(d, h, m)
  BY <1>1 DEF Cron!MinutesOf
<1>4. from.day = d /\ from.hour = h /\ from.minute = m
  BY <1>3 DEF Cron!At
<1>5. PICK e, i, j : /\ e \in {d, d + 1} /\ i \in 0 .. Hours - 1 /\ j \in 0 .. Minutes - 1
                     /\ cursor = Cron!At(e, i, j)
                     /\ \/ m + 1 < Minutes /\ e = d /\ i = h /\ j = m + 1
                        \/ m + 1 = Minutes /\ h + 1 < Hours /\ e = d /\ i = h + 1 /\ j = 0
                        \/ m + 1 = Minutes /\ h + 1 = Hours /\ e = d + 1 /\ i = 0 /\ j = 0
  <2>1. cursor = Cron!After(from)
    BY DEF Cron!Init
  <2>2. CASE m + 1 < Minutes
    BY <1>2, <1>4, <2>1, <2>2 DEF Cron!After
  <2>3. CASE ~(m + 1 < Minutes) /\ h + 1 < Hours
    BY <1>2, <1>4, <2>1, <2>3 DEF Cron!After
  <2>4. CASE ~(m + 1 < Minutes) /\ ~(h + 1 < Hours)
    BY <1>2, <1>4, <2>1, <2>4 DEF Cron!After
  <2> QED BY <2>2, <2>3, <2>4
<1>6. cursor.day = e /\ cursor.hour = i /\ cursor.minute = j
  BY <1>5 DEF Cron!At
<1>7. cursor \in Cron!MinutesOf(cursor.day) /\ from \in Cron!MinutesOf(from.day)
  BY <1>1, <1>4, <1>5, <1>6, MinuteFields
<1>8. Cron!Earlier(from, cursor)
  BY <1>2, <1>4, <1>5, <1>6 DEF Cron!Earlier
<1>9. ASSUME NEW c \in from.day .. cursor.day, NEW t \in Cron!MinutesOf(c),
             Cron!Earlier(from, t), Cron!Earlier(t, cursor)
      PROVE  FALSE
  <2>1. t.day = c /\ t.hour \in 0 .. Hours - 1 /\ t.minute \in 0 .. Minutes - 1
    BY MinuteFields
  <2>2. c \in Int
    BY <1>2, <1>4, <1>5, <1>6
  <2>3. \/ d < c
        \/ d = c /\ h < t.hour
        \/ d = c /\ h = t.hour /\ m < t.minute
    BY <1>4, <1>9, <2>1 DEF Cron!Earlier
  <2>4. \/ c < e
        \/ c = e /\ t.hour < i
        \/ c = e /\ t.hour = i /\ t.minute < j
    BY <1>6, <1>9, <2>1 DEF Cron!Earlier
  <2> QED BY <1>2, <1>3, <1>5, <2>1, <2>2, <2>3, <2>4
<1>10. turns \in 0 .. Horizon /\ from.day + turns <= cursor.day /\ answer = {}
  <2>1. turns = 0 /\ answer = {}
    BY DEF Cron!Init
  <2> QED BY <1>2, <1>4, <1>5, <1>6, <2>1, CronNumbers
<1> QED
  BY <1>2, <1>4, <1>5, <1>6, <1>7, <1>8, <1>9, <1>10 DEF CronInv

\* What an expression means does not change while it is read.
LEMMA FiringStays ==
  ASSUME expression' = expression, from' = from
  PROVE  /\ \A t : Cron!Fires(t)' = Cron!Fires(t)
         /\ \A days : Cron!Upcoming(days)' = Cron!Upcoming(days)
BY DEF Cron!Fires, Cron!DayMatches, Cron!Matches, Cron!Any, Cron!Values, Cron!Upcoming

\* A turn that skips to the beginning of a later day, and passes over nothing that fires.
LEMMA CronSkips ==
  ASSUME CronInv, Cron!Turn, NEW to, Cron!Skip(to), NEW d \in Nat, to = Cron!At(d, 0, 0), cursor.day < d,
         \A c \in cursor.day .. d - 1 : \A t \in Cron!MinutesOf(c) :
           Cron!Earlier(from, t) /\ ~Cron!Earlier(t, cursor) => ~Cron!Fires(t)
  PROVE  CronInv'
<1>1. /\ cursor' = to /\ turns' = turns + 1
      /\ expression' = expression /\ from' = from /\ answer' = answer /\ answer = {} /\ turns < Horizon
  BY DEF Cron!Skip, Cron!Turn
<1>2. /\ from.day \in Nat /\ cursor.day \in Nat /\ turns \in 0 .. Horizon
      /\ from.day + turns <= cursor.day
  BY DEF CronInv
<1>3. 0 \in 0 .. Hours - 1 /\ 0 \in 0 .. Minutes - 1
  BY CronNumbers
<1>4. to.day = d /\ to.hour = 0 /\ to.minute = 0 /\ to \in Cron!MinutesOf(d)
  BY <1>3, MinuteFields
<1>5. Cron!Earlier(from, to)
  BY <1>2, <1>4 DEF Cron!Earlier
<1>6. turns' \in 0 .. Horizon /\ from.day + turns' <= d
  BY <1>1, <1>2, CronNumbers
<1>7. ASSUME NEW c \in from.day .. d, NEW t \in Cron!MinutesOf(c),
             Cron!Earlier(from, t), Cron!Earlier(t, to)
      PROVE  ~Cron!Fires(t)
  <2>1. t.day = c /\ t.hour \in 0 .. Hours - 1 /\ t.minute \in 0 .. Minutes - 1
    BY MinuteFields
  <2>2. c < d
    BY <1>2, <1>4, <1>7, <2>1, CronNumbers DEF Cron!Earlier
  <2>3. CASE Cron!Earlier(t, cursor)
    <3>1. c \in from.day .. cursor.day
      BY <1>2, <2>1, <2>3 DEF Cron!Earlier
    <3> QED BY <1>7, <2>3, <3>1 DEF CronInv
  <2>4. CASE ~Cron!Earlier(t, cursor)
    <3>1. c \in cursor.day .. d - 1
      BY <1>2, <2>1, <2>2, <2>4 DEF Cron!Earlier
    <3> QED BY <1>7, <2>4, <3>1
  <2> QED BY <2>3, <2>4
<1>8. \A t : Cron!Fires(t)' = Cron!Fires(t)
  BY <1>1, FiringStays
<1>9. from \in Cron!MinutesOf(from.day)
  BY DEF CronInv
<1>10. \A c, t : /\ (t \in Cron!MinutesOf(c))' <=> t \in Cron!MinutesOf(c)
                 /\ Cron!Earlier(from, t)' <=> Cron!Earlier(from, t)
                 /\ Cron!Earlier(t, cursor)' <=> Cron!Earlier(t, to)
  BY <1>1 DEF Cron!MinutesOf, Cron!Earlier
<1>11. \A c \in from.day .. d : \A t \in Cron!MinutesOf(c) :
         Cron!Earlier(from, t) /\ Cron!Earlier(t, to) => ~Cron!Fires(t)
  BY <1>7
<1> QED
  BY <1>1, <1>2, <1>4, <1>5, <1>6, <1>8, <1>9, <1>10, <1>11 DEF CronInv

\* Each turn passes over days of a month, or one day, that the expression leaves out.
LEMMA CronStep ==
  ASSUME CronInv, [Cron!CronNext]_cronVars
  PROVE  CronInv'
<1>1. CASE UNCHANGED cronVars
  <2>1. /\ expression' = expression /\ from' = from /\ cursor' = cursor /\ turns' = turns
        /\ answer' = answer
    BY <1>1 DEF cronVars
  <2>2. \A t : Cron!Fires(t)' = Cron!Fires(t)
    BY <2>1, FiringStays
  <2>3. \A n : Cron!Upcoming(n)' = Cron!Upcoming(n)
    BY <2>1, FiringStays
  <2> QED
    BY <2>1, <2>2, <2>3 DEF CronInv, Cron!MinutesOf, Cron!Earlier
<1>2. /\ cursor.day \in Nat /\ cursor \in Cron!MinutesOf(cursor.day)
      /\ from.day \in Nat /\ from \in Cron!MinutesOf(from.day)
  BY DEF CronInv
<1>3. CASE Cron!SkipMonth
  <2>1. PICK n : n = Cron!First(Cron!Year(cursor.day), Cron!Month(cursor.day) + 1)
    OBVIOUS
  <2>2. n \in Nat /\ cursor.day < n /\ \A e \in cursor.day .. n - 1 : Cron!Month(e) = Cron!Month(cursor.day)
    BY <1>2, <2>1, MonthIsLeft
  <2>3. Cron!Turn /\ Cron!Skip(Cron!At(n, 0, 0)) /\ ~Cron!Matches("month", Cron!Month(cursor.day))
    BY <1>3, <2>1 DEF Cron!SkipMonth, Cron!NextMonth
  <2>4. \A c \in cursor.day .. n - 1 : \A t \in Cron!MinutesOf(c) : ~Cron!Fires(t)
    <3> TAKE c \in cursor.day .. n - 1
    <3> TAKE t \in Cron!MinutesOf(c)
    <3>1. t.day = c
      BY MinuteFields
    <3>2. ~Cron!Matches("month", Cron!Month(t.day))
      BY <2>2, <2>3, <3>1
    <3> QED BY <3>2 DEF Cron!Fires
  <2> QED
    BY <2>2, <2>3, <2>4, CronSkips
<1>4. CASE Cron!SkipDay
  <2>1. Cron!Turn /\ Cron!Skip(Cron!At(cursor.day + 1, 0, 0)) /\ ~Cron!DayMatches(cursor.day)
    BY <1>4 DEF Cron!SkipDay, Cron!NextDay
  <2>2. cursor.day + 1 \in Nat /\ cursor.day < cursor.day + 1 /\ (cursor.day + 1) - 1 = cursor.day
    BY <1>2
  <2>3. \A c \in cursor.day .. (cursor.day + 1) - 1 : \A t \in Cron!MinutesOf(c) : ~Cron!Fires(t)
    <3> TAKE c \in cursor.day .. (cursor.day + 1) - 1
    <3> TAKE t \in Cron!MinutesOf(c)
    <3>1. t.day = cursor.day
      <4>1. c = cursor.day
        BY <1>2, <2>2
      <4> QED BY <4>1, MinuteFields
    <3> QED BY <2>1, <3>1 DEF Cron!Fires
  <2> QED
    BY <2>1, <2>2, <2>3, CronSkips
<1>5. CASE Cron!TryDay /\ Cron!Candidates = {}
  <2>1. Cron!Turn /\ Cron!Skip(Cron!At(cursor.day + 1, 0, 0))
    BY <1>5 DEF Cron!TryDay, Cron!NextDay
  <2>2. cursor.day + 1 \in Nat /\ cursor.day < cursor.day + 1 /\ (cursor.day + 1) - 1 = cursor.day
    BY <1>2
  <2>3. \A c \in cursor.day .. (cursor.day + 1) - 1 : \A t \in Cron!MinutesOf(c) :
          Cron!Earlier(from, t) /\ ~Cron!Earlier(t, cursor) => ~Cron!Fires(t)
    <3> TAKE c \in cursor.day .. (cursor.day + 1) - 1
    <3> TAKE t \in Cron!MinutesOf(c)
    <3>1. c = cursor.day
      BY <1>2, <2>2
    <3> QED BY <1>5, <3>1 DEF Cron!Candidates, Cron!Fires
  <2> QED
    BY <2>1, <2>2, <2>3, CronSkips
<1>6. CASE Cron!TryDay /\ Cron!Candidates # {}
  <2>1. /\ Cron!Matches("month", Cron!Month(cursor.day)) /\ Cron!DayMatches(cursor.day)
        /\ answer' = {t \in Cron!Candidates : \A u \in Cron!Candidates \ {t} : Cron!Earlier(t, u)}
        /\ expression' = expression /\ from' = from /\ cursor' = cursor /\ turns' = turns
    BY <1>6 DEF Cron!TryDay
  <2>2. ASSUME NEW found \in answer'
        PROVE  /\ Cron!Earlier(from, found) /\ Cron!Fires(found)
               /\ \A t \in Cron!Upcoming(found.day - from.day) : Cron!Earlier(t, found) => ~Cron!Fires(t)
    <3>1. found \in Cron!Candidates /\ \A u \in Cron!Candidates \ {found} : Cron!Earlier(found, u)
      BY <2>1
    <3>2. found \in Cron!MinutesOf(cursor.day) /\ Cron!Earlier(from, found)
      BY <3>1 DEF Cron!Candidates
    <3>3. found.day = cursor.day /\ found.hour \in 0 .. Hours - 1 /\ found.minute \in 0 .. Minutes - 1
      BY <3>2, MinuteFields
    <3>4. Cron!Fires(found)
      BY <2>1, <3>1, <3>3 DEF Cron!Fires, Cron!Candidates
    <3>5. ASSUME NEW t \in Cron!Upcoming(found.day - from.day), Cron!Earlier(t, found), Cron!Fires(t)
          PROVE  FALSE
      <4>1. PICK c \in from.day .. from.day + (found.day - from.day) : t \in Cron!MinutesOf(c)
        BY DEF Cron!Upcoming
      <4>2. Cron!Earlier(from, t)
        BY DEF Cron!Upcoming
      <4>3. c \in from.day .. cursor.day
        BY <1>2, <3>3, <4>1
      <4>4. ~Cron!Earlier(t, cursor)
        BY <3>5, <4>1, <4>2, <4>3 DEF CronInv
      <4>5. t.day = c /\ t.hour \in 0 .. Hours - 1 /\ t.minute \in 0 .. Minutes - 1
        BY <4>1, MinuteFields
      <4>6. c = cursor.day
        BY <1>2, <4>3, <4>4, <4>5 DEF Cron!Earlier
      <4>7. t \in Cron!Candidates
        BY <3>5, <4>1, <4>2, <4>4, <4>6 DEF Cron!Candidates, Cron!Fires
      <4>8. t # found
        BY <1>2, <3>3, <3>5, CronNumbers DEF Cron!Earlier
      <4>9. Cron!Earlier(found, t)
        BY <3>1, <4>7, <4>8
      <4> QED
        BY <1>2, <3>3, <3>5, <4>5, <4>6, <4>9, CronNumbers DEF Cron!Earlier
    <3> QED BY <3>2, <3>4, <3>5
  <2>3. \A t : Cron!Fires(t)' = Cron!Fires(t)
    BY <2>1, FiringStays
  <2>4. \A n : Cron!Upcoming(n)' = Cron!Upcoming(n)
    BY <2>1, FiringStays
  <2> QED
    BY <2>1, <2>2, <2>3, <2>4 DEF CronInv, Cron!MinutesOf, Cron!Earlier
<1> QED
  BY <1>1, <1>3, <1>4, <1>5, <1>6 DEF Cron!CronNext, Cron!TryDay

\* The time the schedule answers with is the first after its start at which the
\* expression fires, and it answers with none only when it fires at no minute of as
\* many days as the horizon has (nextOccurrence, cron.ts): for every calendar, every
\* expression and every start.
THEOREM FiresNextAlways == Spec => []FiresNext
<1> DEFINE Inv == part = "cron" => CronInv
<1>1. Init => Inv
  BY CronStart
<1>2. Inv /\ [Next]_platformVars => Inv'
  BY CronSteps, CronStep, PartStays
<1>3. Inv => FiresNext
  <2> SUFFICES ASSUME CronInv PROVE Cron!FiresNext
    BY DEF FiresNext
  <2>1. ASSUME turns = Horizon, NEW t \in Cron!Upcoming(Horizon - 1)
        PROVE  ~Cron!Fires(t)
    <3>1. PICK c \in from.day .. from.day + (Horizon - 1) : t \in Cron!MinutesOf(c)
      BY DEF Cron!Upcoming
    <3>2. Cron!Earlier(from, t) /\ t.day = c
      BY <3>1, MinuteFields DEF Cron!Upcoming
    <3>3. /\ from.day \in Nat /\ cursor.day \in Nat /\ Horizon \in Nat
          /\ from.day + Horizon <= cursor.day
      BY <2>1, CronNumbers DEF CronInv
    <3>4. c \in from.day .. cursor.day /\ c < cursor.day
      BY <3>1, <3>3
    <3>5. Cron!Earlier(t, cursor)
      BY <3>2, <3>4 DEF Cron!Earlier
    <3> QED BY <3>1, <3>2, <3>4, <3>5 DEF CronInv
  <2> QED BY <2>1 DEF CronInv, Cron!FiresNext
<1> QED
  BY <1>1, <1>2, <1>3, PTL DEF Spec, platformVars

-----------------------------------------------------------------------------
(* Searches of a graph.  Both that the code knows are rounds of a function that    *)
(* keeps the order of sets, and end at its least fixed point.                        *)

\* A search in n rounds, and what it has found after as many as there are nodes.
SearchRounds(r, n, start, along) ==
  r = [i \in 0 .. n |->
         IF i = 0 THEN start ELSE r[i - 1] \cup {e.to : e \in {f \in along : f.from \in r[i - 1]}}]
Reach(N, start, along) ==
  (CHOOSE r : SearchRounds(r, Cardinality(N), start, along))[Cardinality(N)]

\* And one that takes the nodes with nothing but taken ones before them.
FreeRounds(r, n, N, along) ==
  r = [i \in 0 .. n |->
         IF i = 0 THEN {} ELSE {m \in N : \A e \in {f \in along : f.to = m} : e.from \in r[i - 1]}]
Free(N, along) == (CHOOSE r : FreeRounds(r, Cardinality(N), N, along))[Cardinality(N)]

\* Rounds of a function of sets, one that keeps the order of sets and adds to the first,
\* and where they may end.
IsRounds(r, n, F, X, S) ==
  r \in [0 .. n -> SUBSET S] /\ r[0] = X /\ \A i \in 1 .. n : r[i] = F[r[i - 1]]
Climbs(F, X0, S) ==
  /\ F \in [SUBSET S -> SUBSET S] /\ X0 \in SUBSET S /\ X0 \subseteq F[X0]
  /\ \A X, Y \in SUBSET S : X \subseteq Y => F[X] \subseteq F[Y]
LeastClosed(V, F, X0, S) ==
  /\ V \in SUBSET S /\ X0 \subseteq V /\ F[V] = V
  /\ \A X \in SUBSET S : X0 \subseteq X /\ F[X] \subseteq X => V \subseteq X

\* There are rounds.
LEMMA RoundsExist ==
  ASSUME NEW S, NEW F, NEW X, Climbs(F, X, S), NEW n \in Nat
  PROVE  \E r : IsRounds(r, n, F, X, S)
<1>0. F \in [SUBSET S -> SUBSET S] /\ X \in SUBSET S
  BY DEF Climbs
<1> DEFINE Good(k) == \E r \in [0 .. k -> SUBSET S] : r[0] = X /\ \A i \in 1 .. k : r[i] = F[r[i - 1]]
           B == {k \in Nat : ~Good(k)}
<1>1. ASSUME B # {} PROVE FALSE
  <2>1. B \in SUBSET Nat
    OBVIOUS
  <2>2. PICK k \in B : \A m \in B : k <= m
    BY <1>1, <2>1, LeastNat
  <2>3. k \in Nat /\ ~Good(k)
    OBVIOUS
  <2>4. CASE k = 0
    <3> DEFINE r == [i \in 0 .. 0 |-> X]
    <3>1. r \in [0 .. 0 -> SUBSET S] /\ r[0] = X /\ \A i \in 1 .. 0 : r[i] = F[r[i - 1]]
      BY <1>0
    <3> QED BY <2>3, <2>4, <3>1
  <2>5. CASE k # 0
    <3> HIDE DEF Good
    <3>1. k - 1 \in Nat /\ k - 1 < k
      BY <2>3, <2>5
    <3>8. k - 1 \notin B
      BY <2>2, <2>3, <3>1
    <3>9. Good(k - 1)
      BY <3>1, <3>8
    <3> USE DEF Good
    <3>2. PICK r \in [0 .. k - 1 -> SUBSET S] : r[0] = X /\ \A i \in 1 .. k - 1 : r[i] = F[r[i - 1]]
      BY <3>9
    <3> DEFINE g == [i \in 0 .. k |-> IF i = k THEN F[r[k - 1]] ELSE r[i]]
    <3>3. \A i \in 0 .. k - 1 : i \in 0 .. k /\ i # k /\ g[i] = r[i] /\ r[i] \in SUBSET S
      BY <2>3
    <3>4. g[k] = F[r[k - 1]] /\ F[r[k - 1]] \in SUBSET S
      <4>1. k \in 0 .. k /\ k - 1 \in 0 .. k - 1
        BY <2>3, <3>1
      <4> QED BY <1>0, <3>3, <4>1
    <3>5. g \in [0 .. k -> SUBSET S]
      <4>1. \A i \in 0 .. k : i = k \/ i \in 0 .. k - 1
        BY <2>3
      <4> QED BY <3>3, <3>4, <4>1
    <3> HIDE DEF g
    <3>6. g[0] = X
      <4>1. 0 \in 0 .. k - 1
        BY <3>1
      <4> QED BY <3>2, <3>3, <4>1
    <3>7. ASSUME NEW i \in 1 .. k PROVE g[i] = F[g[i - 1]]
      <4>1. i - 1 \in 0 .. k - 1
        BY <2>3
      <4>2. g[i - 1] = r[i - 1]
        BY <3>3, <4>1
      <4>3. i = k \/ (i \in 1 .. k - 1 /\ i \in 0 .. k - 1)
        BY <2>3
      <4> QED BY <3>2, <3>3, <3>4, <4>2, <4>3
    <3> QED BY <2>3, <3>5, <3>6, <3>7
  <2> QED BY <2>4, <2>5
<1>2. n \notin B
  BY <1>1
<1>3. Good(n)
  BY <1>2
<1> QED
  BY <1>3 DEF IsRounds

\* A search that only adds is over after as many rounds as there are nodes.
LEMMA RoundsClose ==
  ASSUME NEW S, IsFiniteSet(S), NEW F, NEW X0, Climbs(F, X0, S),
         NEW n, n = Cardinality(S), NEW r, IsRounds(r, n, F, X0, S)
  PROVE  LeastClosed(r[n], F, X0, S)
<1>a. n \in Nat /\ r \in [0 .. n -> SUBSET S]
  BY FS_CardinalityType DEF IsRounds
<1>b. r[0] = X0 /\ r[0] \subseteq F[r[0]] /\ \A i \in 1 .. n : r[i] = F[r[i - 1]]
  BY DEF IsRounds, Climbs
<1>c. F \in [SUBSET S -> SUBSET S] /\ \A X, Y \in SUBSET S : X \subseteq Y => F[X] \subseteq F[Y]
  BY DEF Climbs
<1>0. n \in 0 .. n /\ 0 \in 0 .. n /\ \A i \in 0 .. n : r[i] \in SUBSET S
  BY <1>a
<1> USE <1>a, <1>b, <1>c
<1>1. \A i \in 0 .. n : r[i] \subseteq F[r[i]]
  <2> DEFINE B == {k \in 0 .. n : ~(r[k] \subseteq F[r[k]])}
  <2>1. ASSUME B # {} PROVE FALSE
    <3>1. B \in SUBSET Nat
      OBVIOUS
    <3>2. PICK k \in B : \A m \in B : k <= m
      BY <2>1, <3>1, LeastNat
    <3>3. k \in 0 .. n /\ ~(r[k] \subseteq F[r[k]]) /\ k # 0
      OBVIOUS
    <3>4. k - 1 \in 0 .. n /\ k \in 1 .. n /\ k - 1 < k
      BY <3>3
    <3>5. r[k - 1] \subseteq F[r[k - 1]]
      BY <3>2, <3>3, <3>4
    <3>6. r[k - 1] \subseteq r[k] /\ r[k] = F[r[k - 1]]
      BY <3>4, <3>5
    <3>7. F[r[k - 1]] \subseteq F[r[k]]
      <4>1. r[k - 1] \in SUBSET S /\ r[k] \in SUBSET S
        BY <1>0, <3>3, <3>4
      <4> QED BY <3>6, <4>1, Zenon
    <3> QED BY <3>3, <3>6, <3>7
  <2> QED BY <2>1
<1>2. \A i \in 1 .. n : i - 1 \in 0 .. n /\ r[i - 1] \subseteq r[i]
  <2> TAKE i \in 1 .. n
  <2>1. i - 1 \in 0 .. n
    OBVIOUS
  <2> QED BY <1>1, <2>1
<1>3. \A i \in 0 .. n : IsFiniteSet(r[i]) /\ Cardinality(r[i]) \in Nat /\ Cardinality(r[i]) <= n
  BY <1>0, FS_Subset, FS_CardinalityType
<1>4. \A i \in 0 .. n : r[0] \subseteq r[i]
  <2> DEFINE B == {k \in 0 .. n : ~(r[0] \subseteq r[k])}
  <2>1. ASSUME B # {} PROVE FALSE
    <3>1. B \in SUBSET Nat
      OBVIOUS
    <3>2. PICK k \in B : \A m \in B : k <= m
      BY <2>1, <3>1, LeastNat
    <3>3. k \in 0 .. n /\ ~(r[0] \subseteq r[k]) /\ k # 0
      OBVIOUS
    <3>4. k - 1 \in 0 .. n /\ k \in 1 .. n /\ k - 1 < k
      BY <3>3
    <3>5. r[0] \subseteq r[k - 1]
      BY <3>2, <3>3, <3>4
    <3> QED BY <1>2, <3>3, <3>4, <3>5
  <2> QED BY <2>1
<1>5. ASSUME NEW X \in SUBSET S, r[0] \subseteq X, F[X] \subseteq X PROVE r[n] \subseteq X
  <2> DEFINE B == {k \in 0 .. n : ~(r[k] \subseteq X)}
  <2>1. ASSUME B # {} PROVE FALSE
    <3>1. B \in SUBSET Nat
      OBVIOUS
    <3>2. PICK k \in B : \A m \in B : k <= m
      BY <2>1, <3>1, LeastNat
    <3>3. k \in 0 .. n /\ ~(r[k] \subseteq X) /\ k # 0
      BY <1>5
    <3>4. k - 1 \in 0 .. n /\ k \in 1 .. n /\ k - 1 < k
      BY <3>3
    <3>5. r[k - 1] \subseteq X
      BY <3>2, <3>3, <3>4
    <3>6. r[k] = F[r[k - 1]] /\ F[r[k - 1]] \subseteq F[X]
      <4>1. r[k - 1] \in SUBSET S
        BY <1>0, <3>4
      <4>2. F[r[k - 1]] \subseteq F[X]
        BY <3>5, <4>1, Zenon
      <4> QED BY <3>4, <4>2
    <3> QED BY <1>5, <3>3, <3>6
  <2>2. n \notin B
    BY <2>1
  <2> QED BY <1>0, <2>2
<1>6. CASE \A i \in 1 .. n : r[i - 1] # r[i]
  <2> DEFINE B == {k \in 0 .. n : ~(Cardinality(r[k]) >= k)}
  <2>1. ASSUME B # {} PROVE FALSE
    <3>1. B \in SUBSET Nat
      OBVIOUS
    <3>2. PICK k \in B : \A m \in B : k <= m
      BY <2>1, <3>1, LeastNat
    <3>3. k \in 0 .. n /\ ~(Cardinality(r[k]) >= k) /\ k # 0
      BY <1>3
    <3>4. k - 1 \in 0 .. n /\ k \in 1 .. n /\ k - 1 < k
      BY <3>3
    <3>5. Cardinality(r[k - 1]) >= k - 1
      BY <3>2, <3>3, <3>4
    <3>6. Cardinality(r[k - 1]) < Cardinality(r[k])
      <4>1. IsFiniteSet(r[k]) /\ r[k - 1] \subseteq r[k] /\ r[k - 1] # r[k]
        BY <1>2, <1>3, <1>6, <3>4
      <4>2. /\ Cardinality(r[k - 1]) <= Cardinality(r[k])
            /\ Cardinality(r[k - 1]) = Cardinality(r[k]) => r[k - 1] = r[k]
        BY <4>1, FS_Subset
      <4> QED BY <1>3, <3>3, <3>4, <4>1, <4>2
    <3> QED BY <1>3, <3>3, <3>4, <3>5, <3>6
  <2>2. Cardinality(r[n]) >= n
    <3>1. n \notin B
      BY <2>1
    <3> QED BY <1>0, <3>1
  <2>3. r[n] = S
    <3>1. Cardinality(r[n]) = Cardinality(S)
      BY <1>0, <1>3, <2>2
    <3> QED BY <1>0, <3>1, FS_Subset
  <2>4. F[r[n]] = r[n]
    <3>1. F[r[n]] \in SUBSET S /\ r[n] \subseteq F[r[n]]
      BY <1>0, <1>1
    <3> QED BY <2>3, <3>1
  <2> QED BY <1>0, <1>4, <1>5, <2>4 DEF LeastClosed
<1>7. CASE \E i \in 1 .. n : r[i - 1] = r[i]
  <2>1. PICK i \in 1 .. n : r[i - 1] = r[i]
    BY <1>7
  <2>2. F[r[i]] = r[i] /\ i \in 0 .. n
    <3>1. r[i] = F[r[i - 1]]
      OBVIOUS
    <3> QED BY <2>1, <3>1
  <2>3. r[n] \subseteq r[i]
    <3>1. r[i] \in SUBSET S /\ F[r[i]] \subseteq r[i]
      BY <1>0, <2>2
    <3> QED BY <1>4, <1>5, <2>2, <3>1
  <2>4. r[i] \subseteq r[n]
    <3> DEFINE B == {k \in i .. n : ~(r[i] \subseteq r[k])}
    <3>1. ASSUME B # {} PROVE FALSE
      <4>1. B \in SUBSET Nat
        OBVIOUS
      <4>2. PICK k \in B : \A m \in B : k <= m
        BY <3>1, <4>1, LeastNat
      <4>3. k \in i .. n /\ ~(r[i] \subseteq r[k]) /\ k # i
        OBVIOUS
      <4>4. k - 1 \in i .. n /\ k \in 1 .. n /\ k - 1 < k
        BY <4>3
      <4>5. r[i] \subseteq r[k - 1]
        BY <4>2, <4>3, <4>4
      <4> QED BY <1>2, <4>3, <4>4, <4>5
    <3>2. n \notin B /\ n \in i .. n
      BY <3>1
    <3> QED BY <3>2
  <2>5. r[n] = r[i]
    BY <2>3, <2>4
  <2> QED BY <1>0, <1>4, <1>5, <2>2, <2>5 DEF LeastClosed
<1> QED
  BY <1>6, <1>7

Closed(X, along) == \A e \in along : e.from \in X => e.to \in X

\* What a search finds is the least set that has the start and lacks no successor.
LEMMA ReachLeast ==
  ASSUME NEW N, IsFiniteSet(N), NEW start \in SUBSET N,
         NEW along, \A e \in along : e.to \in N
  PROVE  /\ start \subseteq Reach(N, start, along)
         /\ Reach(N, start, along) \subseteq N
         /\ Closed(Reach(N, start, along), along)
         /\ \A X : start \subseteq X /\ Closed(X, along) => Reach(N, start, along) \subseteq X
<1>0. start \in SUBSET N /\ \A e \in along : e.to \in N
  OBVIOUS
<1>1. PICK n : n = Cardinality(N) /\ n \in Nat
  BY <1>0, FS_CardinalityType
<1>2. PICK F : F = [X \in SUBSET N |-> X \cup {e.to : e \in {f \in along : f.from \in X}}]
  OBVIOUS
<1>a. F \in [SUBSET N -> SUBSET N] /\ \A X \in SUBSET N : F[X] = X \cup {e.to : e \in {f \in along : f.from \in X}}
  BY <1>0, <1>2
<1>3. Climbs(F, start, N)
  <2> SUFFICES ASSUME NEW X \in SUBSET N, NEW Y \in SUBSET N, X \subseteq Y PROVE F[X] \subseteq F[Y]
    BY <1>0, <1>a DEF Climbs
  <2>1. /\ F[X] = X \cup {e.to : e \in {f \in along : f.from \in X}}
        /\ F[Y] = Y \cup {e.to : e \in {f \in along : f.from \in Y}}
    BY <1>a
  <2> QED BY <2>1
<1>4. \E r : SearchRounds(r, n, start, along)
  <2>0. PICK r : IsRounds(r, n, F, start, N)
    BY <1>0, <1>1, <1>3, RoundsExist
  <2>1. r \in [0 .. n -> SUBSET N] /\ r[0] = start /\ \A i \in 1 .. n : r[i] = F[r[i - 1]]
    BY <2>0 DEF IsRounds
  <2>2. ASSUME NEW i \in 0 .. n
        PROVE  r[i] = IF i = 0 THEN start
                      ELSE r[i - 1] \cup {e.to : e \in {f \in along : f.from \in r[i - 1]}}
    <3>1. CASE i = 0
      BY <2>1, <3>1
    <3>2. CASE i # 0
      <4>1. i \in 1 .. n /\ i - 1 \in 0 .. n
        BY <1>1, <3>2
      <4>2. r[i - 1] \in SUBSET N /\ r[i] = F[r[i - 1]]
        BY <2>1, <4>1
      <4> QED BY <1>a, <3>2, <4>2
    <3> QED BY <3>1, <3>2
  <2>3. r = [i \in 0 .. n |-> r[i]]
    BY <2>1
  <2>4. SearchRounds(r, n, start, along)
    BY <2>2, <2>3, Zenon DEF SearchRounds
  <2> QED BY <2>4
<1>5. PICK r : SearchRounds(r, n, start, along) /\ Reach(N, start, along) = r[n]
  BY <1>1, <1>4 DEF Reach
<1>6. /\ DOMAIN r = 0 .. n
      /\ \A i \in 0 .. n : r[i] = IF i = 0 THEN start
                                  ELSE r[i - 1] \cup {e.to : e \in {f \in along : f.from \in r[i - 1]}}
  BY <1>5 DEF SearchRounds
<1>7. \A i \in 0 .. n : r[i] \in SUBSET N
  <2> DEFINE B == {k \in 0 .. n : r[k] \notin SUBSET N}
  <2>1. ASSUME B # {} PROVE FALSE
    <3>1. B \in SUBSET Nat
      BY <1>1
    <3>2. PICK k \in B : \A m \in B : k <= m
      BY <2>1, <3>1, LeastNat
    <3>3. k \in 0 .. n /\ r[k] \notin SUBSET N /\ k # 0
      BY <1>0, <1>6
    <3>4. k - 1 \in 0 .. n /\ k - 1 < k
      BY <1>1, <3>3
    <3>5. r[k - 1] \in SUBSET N
      BY <3>2, <3>3, <3>4
    <3>6. r[k] = r[k - 1] \cup {e.to : e \in {f \in along : f.from \in r[k - 1]}}
      BY <1>6, <3>3
    <3> QED BY <1>0, <3>3, <3>5, <3>6
  <2> QED BY <2>1
<1>8. /\ r[0] = start /\ 0 \in 0 .. n /\ n \in 0 .. n
      /\ \A i \in 1 .. n : r[i] = F[r[i - 1]]
  <2>1. r[0] = start /\ 0 \in 0 .. n /\ n \in 0 .. n
    BY <1>1, <1>6
  <2>2. ASSUME NEW i \in 1 .. n PROVE r[i] = F[r[i - 1]]
    <3>1. i \in 0 .. n /\ i - 1 \in 0 .. n /\ i # 0
      BY <1>1
    <3>2. r[i] = r[i - 1] \cup {e.to : e \in {f \in along : f.from \in r[i - 1]}}
      BY <1>6, <3>1
    <3> QED BY <1>a, <1>7, <3>1, <3>2
  <2> QED BY <2>1, <2>2
<1>9. r \in [0 .. n -> SUBSET N]
  <2>1. r = [i \in 0 .. n |-> r[i]]
    BY <1>5 DEF SearchRounds
  <2> QED BY <1>7, <2>1
<1>10. start \in SUBSET N
  BY <1>0
<1>11. LeastClosed(r[n], F, start, N)
  <2>1. IsRounds(r, n, F, start, N)
    BY <1>8, <1>9 DEF IsRounds
  <2> QED BY <1>0, <1>1, <1>3, <2>1, RoundsClose
<1>12. r[n] \in SUBSET N
  BY <1>7, <1>8
<1>13. Closed(r[n], along)
  <2>1. r[n] = r[n] \cup {e.to : e \in {f \in along : f.from \in r[n]}}
    BY <1>a, <1>11, <1>12 DEF LeastClosed
  <2> QED BY <2>1 DEF Closed
<1>14. ASSUME NEW X, start \subseteq X, Closed(X, along) PROVE r[n] \subseteq X
  <2>1. PICK Y : Y = X \cap N
    OBVIOUS
  <2>2. Y \in SUBSET N /\ start \subseteq Y
    BY <1>10, <1>14, <2>1
  <2>3. F[Y] \subseteq Y
    <3>1. F[Y] = Y \cup {e.to : e \in {f \in along : f.from \in Y}}
      BY <1>a, <2>2
    <3>2. \A e \in along : e.from \in Y => e.to \in Y
      BY <1>0, <1>14, <2>1 DEF Closed
    <3> QED BY <3>1, <3>2
  <2>4. r[n] \subseteq Y
    BY <1>11, <2>2, <2>3 DEF LeastClosed
  <2> QED BY <2>1, <2>4
<1> QED
  BY <1>0, <1>5, <1>11, <1>12, <1>13, <1>14 DEF LeastClosed

\* The nodes a topological order takes are the least set that takes a node once it has
\* taken those before it.
Takes(X, N, along) == \A m \in N : (\A e \in along : e.to = m => e.from \in X) => m \in X

LEMMA FreeLeast ==
  ASSUME NEW N, IsFiniteSet(N), NEW along
  PROVE  /\ Free(N, along) \subseteq N /\ Takes(Free(N, along), N, along)
         /\ \A m \in Free(N, along) : \A e \in along : e.to = m => e.from \in Free(N, along)
         /\ \A X : Takes(X, N, along) => Free(N, along) \subseteq X
<1>1. PICK n : n = Cardinality(N) /\ n \in Nat
  BY FS_CardinalityType
<1>2. PICK F : F = [X \in SUBSET N |-> {m \in N : \A e \in {f \in along : f.to = m} : e.from \in X}]
  OBVIOUS
<1>a. F \in [SUBSET N -> SUBSET N] /\ \A X \in SUBSET N : F[X] = {m \in N : \A e \in {f \in along : f.to = m} : e.from \in X}
  BY <1>2
<1>3. Climbs(F, {}, N)
  <2> SUFFICES ASSUME NEW X \in SUBSET N, NEW Y \in SUBSET N, X \subseteq Y PROVE F[X] \subseteq F[Y]
    BY <1>a DEF Climbs
  <2> QED BY <1>a
<1>4. \E r : FreeRounds(r, n, N, along)
  <2>0. PICK r : IsRounds(r, n, F, {}, N)
    BY <1>1, <1>3, RoundsExist
  <2>1. r \in [0 .. n -> SUBSET N] /\ r[0] = {} /\ \A i \in 1 .. n : r[i] = F[r[i - 1]]
    BY <2>0 DEF IsRounds
  <2>2. ASSUME NEW i \in 0 .. n
        PROVE  r[i] = IF i = 0 THEN {} ELSE {m \in N : \A e \in {f \in along : f.to = m} : e.from \in r[i - 1]}
    <3>1. CASE i = 0
      BY <2>1, <3>1
    <3>2. CASE i # 0
      <4>1. i \in 1 .. n /\ i - 1 \in 0 .. n
        BY <1>1, <3>2
      <4>2. r[i - 1] \in SUBSET N /\ r[i] = F[r[i - 1]]
        BY <2>1, <4>1
      <4> QED BY <1>a, <3>2, <4>2
    <3> QED BY <3>1, <3>2
  <2>3. r = [i \in 0 .. n |-> r[i]]
    BY <2>1
  <2>4. FreeRounds(r, n, N, along)
    BY <2>2, <2>3, Zenon DEF FreeRounds
  <2> QED BY <2>4
<1>5. PICK r : FreeRounds(r, n, N, along) /\ Free(N, along) = r[n]
  BY <1>1, <1>4 DEF Free
<1>6. \A i \in 0 .. n : r[i] = IF i = 0 THEN {} ELSE {m \in N : \A e \in {f \in along : f.to = m} : e.from \in r[i - 1]}
  BY <1>5 DEF FreeRounds
<1>7. \A i \in 0 .. n : r[i] \in SUBSET N
  BY <1>6
<1>8. r \in [0 .. n -> SUBSET N]
  <2>1. r = [i \in 0 .. n |-> r[i]]
    BY <1>5 DEF FreeRounds
  <2> QED BY <1>7, <2>1
<1>9. /\ r[0] = {} /\ n \in 0 .. n
      /\ \A i \in 1 .. n : r[i] = F[r[i - 1]]
  <2>0. 0 \in 0 .. n /\ n \in 0 .. n
    BY <1>1
  <2>1. r[0] = {} /\ n \in 0 .. n
    BY <1>6, <2>0, Zenon
  <2>2. ASSUME NEW i \in 1 .. n PROVE r[i] = F[r[i - 1]]
    <3>1. i \in 0 .. n /\ i - 1 \in 0 .. n /\ i # 0
      BY <1>1
    <3>2. r[i] = {m \in N : \A e \in {f \in along : f.to = m} : e.from \in r[i - 1]}
      BY <1>6, <3>1
    <3> QED BY <1>a, <1>7, <3>1, <3>2
  <2> QED BY <2>1, <2>2
<1>10. LeastClosed(r[n], F, {}, N)
  <2>1. IsRounds(r, n, F, {}, N)
    BY <1>8, <1>9 DEF IsRounds
  <2> QED BY <1>1, <1>3, <2>1, RoundsClose
<1>11. r[n] \in SUBSET N /\ r[n] = {m \in N : \A e \in {f \in along : f.to = m} : e.from \in r[n]}
  BY <1>a, <1>10 DEF LeastClosed
<1>12. ASSUME NEW X, Takes(X, N, along) PROVE r[n] \subseteq X
  <2>1. PICK Y : Y = X \cap N
    OBVIOUS
  <2>2. Y \in SUBSET N /\ {} \subseteq Y
    BY <2>1
  <2>3. F[Y] \subseteq Y
    <3>1. F[Y] = {m \in N : \A e \in {f \in along : f.to = m} : e.from \in Y}
      BY <1>a, <2>2
    <3>2. \A m \in N : (\A e \in {f \in along : f.to = m} : e.from \in Y) => m \in Y
      BY <1>12, <2>1 DEF Takes
    <3> QED BY <3>1, <3>2
  <2> QED BY <1>10, <2>1, <2>2, <2>3 DEF LeastClosed
<1>13. Takes(r[n], N, along) /\ \A m \in r[n] : \A e \in along : e.to = m => e.from \in r[n]
  BY <1>11 DEF Takes
<1> QED
  BY <1>5, <1>11, <1>12, <1>13

\* What a search finds after a node, along edges between nodes.
Between(along, N) == \A e \in along : e.from \in N /\ e.to \in N
Beyond(n, N, along) == Reach(N, {e.to : e \in {f \in along : f.from = n}}, along)

LEMMA BeyondLeast ==
  ASSUME NEW N, IsFiniteSet(N), NEW along, Between(along, N), NEW n
  PROVE  /\ \A e \in along : e.from = n => e.to \in Beyond(n, N, along)
         /\ Beyond(n, N, along) \subseteq N
         /\ Closed(Beyond(n, N, along), along)
         /\ \A X : (\A e \in along : e.from = n => e.to \in X) /\ Closed(X, along)
                   => Beyond(n, N, along) \subseteq X
<1>1. PICK start : start = {e.to : e \in {f \in along : f.from = n}}
  OBVIOUS
<1>2. start \in SUBSET N /\ \A e \in along : e.to \in N
  BY <1>1 DEF Between
<1>3. \A X : start \subseteq X <=> \A e \in along : e.from = n => e.to \in X
  BY <1>1
<1>4. Beyond(n, N, along) = Reach(N, start, along)
  BY <1>1 DEF Beyond
<1> QED
  BY <1>2, <1>3, <1>4, ReachLeast

\* What comes after a successor comes after the node.
LEMMA BeyondShrinks ==
  ASSUME NEW N, IsFiniteSet(N), NEW along, Between(along, N), NEW n, NEW e \in along, e.from = n
  PROVE  e.to \in Beyond(n, N, along) /\ Beyond(e.to, N, along) \subseteq Beyond(n, N, along)
<1>1. e.to \in Beyond(n, N, along) /\ Closed(Beyond(n, N, along), along)
  BY BeyondLeast
<1>2. \A f \in along : f.from = e.to => f.to \in Beyond(n, N, along)
  BY <1>1 DEF Closed
<1> QED
  BY <1>1, <1>2, BeyondLeast

\* A graph whose nodes can all be taken in order has no cycle.
LEMMA NoCycle ==
  ASSUME NEW N, IsFiniteSet(N), NEW all, Between(all, N), Free(N, all) = N,
         NEW along \in SUBSET all, NEW n \in N
  PROVE  n \notin Beyond(n, N, along)
<1>0. Between(along, N)
  BY DEF Between
<1>1. PICK X : X = {m \in N : m \notin Beyond(m, N, along)}
  OBVIOUS
<1>2. ASSUME NEW m \in N, \A e \in all : e.to = m => e.from \in X, m \in Beyond(m, N, along)
      PROVE  FALSE
  <2>1. PICK e \in along : e.to = m /\ (e.from = m \/ e.from \in Beyond(m, N, along))
    <3>1. SUFFICES ASSUME \A e \in along : e.to = m => e.from # m /\ e.from \notin Beyond(m, N, along)
                   PROVE  FALSE
      OBVIOUS
    <3>2. PICK Y : Y = Beyond(m, N, along) \ {m}
      OBVIOUS
    <3>3. \A e \in along : e.from = m => e.to \in Y
      BY <1>0, <3>1, <3>2, BeyondLeast
    <3>4. Closed(Y, along)
      BY <1>0, <3>1, <3>2, BeyondLeast DEF Closed
    <3>5. Beyond(m, N, along) \subseteq Y
      BY <1>0, <3>3, <3>4, BeyondLeast
    <3> QED BY <1>2, <3>2, <3>5
  <2>2. e.from \in X
    BY <1>2, <2>1
  <2>3. CASE e.from = m
    BY <1>1, <1>2, <2>2, <2>3
  <2>4. CASE e.from \in Beyond(m, N, along)
    <3>1. Beyond(m, N, along) \subseteq Beyond(e.from, N, along)
      BY <1>0, <2>1, BeyondShrinks
    <3> QED BY <1>1, <2>2, <2>4, <3>1
  <2> QED BY <2>1, <2>3, <2>4
<1>3. Takes(X, N, all)
  BY <1>1, <1>2 DEF Takes
<1>4. N \subseteq X
  BY <1>3, FreeLeast
<1> QED
  BY <1>1, <1>4

\* Nodes each of which has one of them after it: some of them is on a cycle.
LEMMA SomeCycle ==
  ASSUME NEW N, IsFiniteSet(N), NEW along, Between(along, N), NEW W \in SUBSET N, W # {},
         \A m \in W : \E e \in along : e.from = m /\ e.to \in W
  PROVE  \E m \in W : m \in Beyond(m, N, along)
<1>1. SUFFICES ASSUME \A m \in W : m \notin Beyond(m, N, along) PROVE FALSE
  OBVIOUS
<1>2. \A m \in W : IsFiniteSet(Beyond(m, N, along)) /\ Cardinality(Beyond(m, N, along)) \in Nat
  BY BeyondLeast, FS_Subset, FS_CardinalityType
<1>3. PICK S : S = {Cardinality(Beyond(m, N, along)) : m \in W}
  OBVIOUS
<1>4. PICK m \in W : \A k \in W : Cardinality(Beyond(m, N, along)) <= Cardinality(Beyond(k, N, along))
  <2>1. S \in SUBSET Nat /\ S # {}
    BY <1>2, <1>3
  <2>2. PICK v \in S : \A u \in S : v <= u
    BY <2>1, LeastNat
  <2> QED BY <1>3, <2>2
<1>5. PICK e \in along : e.from = m /\ e.to \in W
  OBVIOUS
<1>6. PICK x, y : x = Beyond(e.to, N, along) /\ y = Beyond(m, N, along)
  OBVIOUS
<1>7. x \subseteq y /\ x # y /\ IsFiniteSet(y) /\ Cardinality(x) \in Nat /\ Cardinality(y) \in Nat
  BY <1>1, <1>2, <1>5, <1>6, BeyondShrinks
<1>8. Cardinality(x) < Cardinality(y)
  BY <1>7, FS_Subset
<1> QED
  BY <1>4, <1>5, <1>6, <1>7, <1>8

\* Nodes none of which can come first: each has one of them before it.
Fed(D, along) == \A m \in D : \E e \in along : e.to = m /\ e.from \in D

\* Nodes none of which can come last.
Onward(D, along) == \A m \in D : \E e \in along : e.from = m /\ e.to \in D

\* Of such sets there is one in which each node has one of them after it, too.
LEMMA FedBothWays ==
  ASSUME NEW N, IsFiniteSet(N), NEW along, NEW C \in SUBSET N, C # {}, Fed(C, along)
  PROVE  \E D \in SUBSET N : D # {} /\ Onward(D, along)
<1>1. PICK B : B = {D \in SUBSET N : D # {} /\ Fed(D, along)}
  OBVIOUS
<1>2. PICK D \in B : \A m \in D : D \ {m} \notin B
  <2>1. B \in SUBSET (SUBSET N) /\ B # {}
    BY <1>1
  <2> QED BY <2>1, LeastSet
<1>3. D \in SUBSET N /\ D # {} /\ Fed(D, along)
  BY <1>1
<1>4. ASSUME NEW m \in D, \A e \in along : e.from = m => e.to \notin D PROVE FALSE
  <2>1. ASSUME NEW k \in D PROVE \E e \in along : e.to = k /\ e.from \in D \ {m}
    BY <1>3, <1>4 DEF Fed
  <2>2. D \ {m} # {} /\ Fed(D \ {m}, along)
    BY <2>1 DEF Fed
  <2> QED BY <1>1, <1>2, <1>3, <2>2
<1> QED
  BY <1>3, <1>4 DEF Onward

\* So a graph whose nodes cannot all be taken has such a set.
LEMMA Knot ==
  ASSUME NEW N, IsFiniteSet(N), NEW all, Between(all, N), Free(N, all) # N
  PROVE  \E D \in SUBSET N : D # {} /\ Onward(D, all)
<1>1. PICK C : C = N \ Free(N, all)
  OBVIOUS
<1>2. C \in SUBSET N /\ C # {}
  BY <1>1, FreeLeast
<1>3. ASSUME NEW m \in C PROVE \E e \in all : e.to = m /\ e.from \in C
  <2>1. PICK e \in all : e.to = m /\ e.from \notin Free(N, all)
    BY <1>1, FreeLeast DEF Takes
  <2> QED BY <1>1, <2>1 DEF Between
<1>4. Fed(C, all)
  BY <1>3 DEF Fed
<1> QED
  BY <1>2, <1>4, FedBothWays

LEMMA PairOf ==
  ASSUME NEW S, IsFiniteSet(S), Cardinality(S) = 2
  PROVE  \E x, y : x # y /\ S = {x, y}
<1>1. PICK x \in S : TRUE
  BY FS_EmptySet
<1>2. IsFiniteSet(S \ {x}) /\ Cardinality(S \ {x}) = 1
  BY <1>1, FS_RemoveElement
<1>3. PICK y : S \ {x} = {y}
  BY <1>2, FS_Singleton
<1> QED
  BY <1>1, <1>3

LEMMA PairHas == ASSUME NEW u, NEW v, u # v PROVE Cardinality({u, v}) = 2
<1>1. IsFiniteSet({u}) /\ Cardinality({u}) = 1
  BY FS_Singleton
<1>2. Cardinality({u} \cup {v}) = 2
  BY <1>1, FS_AddElement
<1>3. {u} \cup {v} = {u, v}
  OBVIOUS
<1> QED
  BY <1>2, <1>3

LEMMA OneAtMost ==
  ASSUME NEW S, IsFiniteSet(S)
  PROVE  Cardinality(S) <= 1 <=> \A x, y \in S : x = y
<1>1. Cardinality(S) \in Nat
  BY FS_CardinalityType
<1>2. ASSUME Cardinality(S) <= 1, NEW x \in S, NEW y \in S PROVE x = y
  <2>1. Cardinality(S) # 0
    BY FS_EmptySet
  <2>2. PICK z : S = {z}
    BY <1>1, <1>2, <2>1, FS_Singleton
  <2> QED BY <2>2
<1>3. ASSUME \A x, y \in S : x = y PROVE Cardinality(S) <= 1
  <2>1. CASE S = {}
    BY <2>1, FS_EmptySet
  <2>2. CASE S # {}
    <3>1. PICK x : S = {x}
      BY <1>3, <2>2
    <3> QED BY <3>1, FS_Singleton
  <2> QED BY <2>1, <2>2
<1> QED
  BY <1>2, <1>3


-----------------------------------------------------------------------------
(* The graphs a merchant draws.                                             *)

\* Edges between nodes, finitely many.
GraphInv == shape \in Shapes /\ edges \in SUBSET Graph!Edge /\ IsFiniteSet(edges)

\* What a walk visits.
Walk(a) == Graph!Visited(Graph!Of("TRIGGER"), Graph!Taken(a))

LEMMA GraphCardinality == \A S : Graph!Cardinality(S) = Cardinality(S)
BY DEF Graph!Cardinality, Cardinality

\* The searches of the validation are those above.
LEMMA GraphSearches ==
  /\ Graph!Removed = Free(Graph!Nodes, edges)
  /\ \A start, along : Graph!Visited(start, along) = Reach(Graph!Nodes, start, along)
<1>1. PICK n : n = Cardinality(Graph!Nodes)
  OBVIOUS
<1>2. Graph!Cardinality(Graph!Nodes) = n
  BY <1>1, GraphCardinality
<1>3. Graph!Removed = Free(Graph!Nodes, edges)
  BY <1>1, <1>2 DEF Graph!Removed, Graph!In, Free, FreeRounds
<1>4. ASSUME NEW start, NEW along PROVE Graph!Visited(start, along) = Reach(Graph!Nodes, start, along)
  BY <1>1, <1>2, Zenon DEF Graph!Visited, Reach, SearchRounds
<1> QED
  BY <1>3, <1>4

LEMMA GraphFacts ==
  ASSUME GraphInv
  PROVE  /\ IsFiniteSet(Graph!Nodes) /\ IsFiniteSet(edges)
         /\ \A n \in Graph!Nodes : shape[n] \in {"TRIGGER", "CONDITION", "DELAY", "ACTION"}
         /\ \A e \in edges : /\ e.from \in Graph!Nodes /\ e.to \in Graph!Nodes
                             /\ e.branch \in {"none", "YES", "NO"}
         /\ \A k : Graph!Of(k) \in SUBSET Graph!Nodes
         /\ \A a : Graph!Taken(a) \in SUBSET edges /\ Between(Graph!Taken(a), Graph!Nodes)
         /\ Between(edges, Graph!Nodes)
<1>1. IsFiniteSet(Graph!Nodes) /\ \A n \in Graph!Nodes : shape[n] \in {"TRIGGER", "CONDITION", "DELAY", "ACTION"}
  BY GraphAssumption DEF GraphInv, Graph!Nodes
<1>2. \A e \in edges : e.from \in Graph!Nodes /\ e.to \in Graph!Nodes /\ e.branch \in {"none", "YES", "NO"}
  BY DEF GraphInv, Graph!Edge
<1>3. \A a : Graph!Taken(a) \in SUBSET edges
  BY DEF Graph!Taken
<1> QED
  BY <1>1, <1>2, <1>3 DEF GraphInv, Graph!Of, Between

LEMMA WalkLeast ==
  ASSUME GraphInv, NEW a
  PROVE  /\ Graph!Of("TRIGGER") \subseteq Walk(a) /\ Walk(a) \subseteq Graph!Nodes
         /\ Closed(Walk(a), Graph!Taken(a))
         /\ \A X : Graph!Of("TRIGGER") \subseteq X /\ Closed(X, Graph!Taken(a)) => Walk(a) \subseteq X
<1>1. \A e \in Graph!Taken(a) : e.to \in Graph!Nodes
  BY GraphFacts DEF Between
<1> QED
  BY <1>1, GraphFacts, GraphSearches, ReachLeast DEF Walk

\* A walk comes to a node whatever it will answer there.
LEMMA Switch ==
  ASSUME GraphInv, NEW a, NEW b, NEW p, \A c \in Graph!Of("CONDITION") : c # p => a[c] = b[c],
         p \in Walk(a)
  PROVE  p \in Walk(b)
<1> SUFFICES ASSUME p \notin Walk(b) PROVE FALSE
  OBVIOUS
<1>1. ASSUME NEW e \in Graph!Taken(a), e.from \in Walk(b) PROVE e.to \in Walk(b)
  <2>1. e \in edges /\ e.from # p /\ (shape[e.from] = "CONDITION" => e.branch = a[e.from])
    BY <1>1 DEF Graph!Taken
  <2>2. shape[e.from] = "CONDITION" => a[e.from] = b[e.from]
    BY <2>1, GraphFacts DEF Graph!Of
  <2>3. e \in Graph!Taken(b)
    BY <2>1, <2>2 DEF Graph!Taken
  <2> QED BY <1>1, <2>3, WalkLeast DEF Closed
<1>2. Walk(a) \subseteq Walk(b)
  BY <1>1, WalkLeast DEF Closed
<1> QED
  BY <1>2

Labels == {"YES", "NO"}

\* Of the answers there are some, and one of them may be changed.
LEMMA AnswersThere ==
  /\ \A v \in {"YES", "NO"} : [c \in Graph!Of("CONDITION") |-> v] \in Graph!Answers
  /\ \A a \in Graph!Answers, c \in Graph!Of("CONDITION") : a[c] \in {"YES", "NO"}
BY DEF Graph!Answers

LEMMA AnswerChanged ==
  ASSUME NEW a \in Graph!Answers, NEW p \in Graph!Of("CONDITION"), NEW v \in Labels
  PROVE  \E b \in Graph!Answers : b[p] = v /\ \A c \in Graph!Of("CONDITION") : c # p => a[c] = b[c]
<1>1. PICK b : b = [a EXCEPT ![p] = v]
  OBVIOUS
<1>2. b \in Graph!Answers /\ b[p] = v /\ \A c \in Graph!Of("CONDITION") : c # p => a[c] = b[c]
  BY <1>1 DEF Graph!Answers, Labels
<1> QED
  BY <1>2

\* The edges a walk takes from a node are among those that leave it.
On(a, n) == {e \in Graph!Taken(a) : e.from = n}

LEMMA OnOut ==
  ASSUME GraphInv, NEW a \in Graph!Answers, NEW n \in Graph!Nodes
  PROVE  /\ On(a, n) = IF shape[n] = "CONDITION" THEN {e \in Graph!Out(n) : e.branch = a[n]} ELSE Graph!Out(n)
         /\ IsFiniteSet(On(a, n)) /\ IsFiniteSet(Graph!Out(n)) /\ Graph!Out(n) \subseteq edges
         /\ n \in Walk(a) => \A e \in On(a, n) : e.to \in Walk(a)
<1>1. On(a, n) = IF shape[n] = "CONDITION" THEN {e \in Graph!Out(n) : e.branch = a[n]} ELSE Graph!Out(n)
  BY DEF On, Graph!Taken, Graph!Out
<1>2. Graph!Out(n) \in SUBSET edges /\ On(a, n) \in SUBSET edges
  BY DEF On, Graph!Taken, Graph!Out
<1>3. IsFiniteSet(On(a, n)) /\ IsFiniteSet(Graph!Out(n))
  BY <1>2, GraphFacts, FS_Subset
<1>4. n \in Walk(a) => \A e \in On(a, n) : e.to \in Walk(a)
  BY WalkLeast DEF On, Closed
<1> QED
  BY <1>1, <1>2, <1>3, <1>4

\* What the validation and a walk ask for, in these words.
LEMMA AcceptedMeans ==
  ASSUME GraphInv
  PROVE  Graph!Accepted <=>
           /\ \E t \in Graph!Nodes : Graph!Of("TRIGGER") = {t}
           /\ Graph!WellLabelled
           /\ \A n \in Graph!Of("TRIGGER") : Graph!In(n) = {}
           /\ \A n \in Graph!Nodes \ Graph!Of("TRIGGER") :
                IF shape[n] = "CONDITION"
                THEN \E x, y : Graph!Out(n) = {x, y} /\ x.branch # y.branch
                ELSE /\ \A x, y \in Graph!Out(n) : x = y
                     /\ shape[n] = "DELAY" => Graph!Out(n) # {}
           /\ Graph!Removed = Graph!Nodes
           /\ Graph!Visited(Graph!Of("TRIGGER"), edges) = Graph!Nodes
<1>1. Cardinality(Graph!Of("TRIGGER")) = 1 <=> \E t \in Graph!Nodes : Graph!Of("TRIGGER") = {t}
  <2>1. IsFiniteSet(Graph!Of("TRIGGER")) /\ Graph!Of("TRIGGER") \in SUBSET Graph!Nodes
    BY GraphFacts, FS_Subset
  <2> QED BY <2>1, FS_Singleton
<1>2. ASSUME NEW n \in Graph!Nodes
      PROVE  Cardinality(Graph!Out(n)) = 2 /\ Cardinality({e.branch : e \in Graph!Out(n)}) = 2
               <=> \E x, y : Graph!Out(n) = {x, y} /\ x.branch # y.branch
  <2>0. IsFiniteSet(Graph!Out(n))
    <3>1. Graph!Out(n) \in SUBSET edges
      BY DEF Graph!Out
    <3> QED BY <3>1, GraphFacts, FS_Subset
  <2>1. ASSUME Cardinality(Graph!Out(n)) = 2, Cardinality({e.branch : e \in Graph!Out(n)}) = 2
        PROVE  \E x, y : Graph!Out(n) = {x, y} /\ x.branch # y.branch
    <3>1. PICK x, y : x # y /\ Graph!Out(n) = {x, y}
      BY <2>0, <2>1, PairOf
    <3>2. x.branch = y.branch => {e.branch : e \in Graph!Out(n)} = {x.branch}
      BY <3>1
    <3>3. Cardinality({x.branch}) = 1
      BY FS_Singleton
    <3> QED BY <2>1, <3>1, <3>2, <3>3
  <2>2. ASSUME NEW x, NEW y, Graph!Out(n) = {x, y}, x.branch # y.branch
        PROVE  Cardinality(Graph!Out(n)) = 2 /\ Cardinality({e.branch : e \in Graph!Out(n)}) = 2
    <3>1. {e.branch : e \in Graph!Out(n)} = {x.branch, y.branch} /\ x # y
      BY <2>2
    <3>2. Cardinality({x, y}) = 2 /\ Cardinality({x.branch, y.branch}) = 2
      BY <2>2, <3>1, PairHas
    <3> QED BY <2>2, <3>1, <3>2, Zenon
  <2> QED BY <2>1, <2>2
<1>3. ASSUME NEW n \in Graph!Nodes
      PROVE  Cardinality(Graph!Out(n)) <= 1 <=> \A x, y \in Graph!Out(n) : x = y
  <2>1. Graph!Out(n) \in SUBSET edges
    BY DEF Graph!Out
  <2> QED BY <2>1, GraphFacts, FS_Subset, OneAtMost
<1>4. Graph!WellFanned <=>
        \A n \in Graph!Nodes \ Graph!Of("TRIGGER") :
           IF shape[n] = "CONDITION"
           THEN \E x, y : Graph!Out(n) = {x, y} /\ x.branch # y.branch
           ELSE /\ \A x, y \in Graph!Out(n) : x = y
                /\ shape[n] = "DELAY" => Graph!Out(n) # {}
  BY <1>2, <1>3, GraphCardinality DEF Graph!WellFanned
<1> QED
  BY <1>1, <1>4, GraphCardinality DEF Graph!Accepted

LEMMA WalkableMeans ==
  ASSUME GraphInv
  PROVE  Graph!Walkable <=>
           /\ \E t \in Graph!Nodes : Graph!Of("TRIGGER") = {t}
           /\ \A a \in Graph!Answers : \A n \in Walk(a) :
                /\ n \notin Beyond(n, Graph!Nodes, Graph!Taken(a))
                /\ shape[n] # "TRIGGER" => \A x, y \in On(a, n) : x = y
                /\ shape[n] \in {"CONDITION", "DELAY"} => On(a, n) # {}
           /\ \A n \in Graph!Nodes : \E a \in Graph!Answers : n \in Walk(a)
           /\ \A e \in edges : \E a \in Graph!Answers : e \in Graph!Taken(a)
           /\ \A e \in edges : shape[e.from] # "CONDITION" => e.branch = "none"
<1>1. ASSUME NEW a \in Graph!Answers, NEW n \in Walk(a)
      PROVE  Cardinality(On(a, n)) <= 1 <=> \A x, y \in On(a, n) : x = y
  <2>1. n \in Graph!Nodes
    BY WalkLeast
  <2> QED BY <2>1, OnOut, OneAtMost
<1>2. UNION {Walk(a) : a \in Graph!Answers} = Graph!Nodes
        <=> \A n \in Graph!Nodes : \E a \in Graph!Answers : n \in Walk(a)
  BY WalkLeast
<1>3. UNION {Graph!Taken(a) : a \in Graph!Answers} = edges
        <=> \A e \in edges : \E a \in Graph!Answers : e \in Graph!Taken(a)
  BY DEF Graph!Taken
<1>4. Graph!Walkable <=>
        /\ \E t \in Graph!Nodes : Graph!Of("TRIGGER") = {t}
        /\ \A a \in Graph!Answers : \A n \in Walk(a) :
             /\ n \notin Beyond(n, Graph!Nodes, Graph!Taken(a))
             /\ shape[n] \notin {"TRIGGER"} => Graph!Cardinality(On(a, n)) <= 1
             /\ shape[n] \in {"CONDITION", "DELAY"} => On(a, n) # {}
        /\ UNION {Walk(a) : a \in Graph!Answers} = Graph!Nodes
        /\ UNION {Graph!Taken(a) : a \in Graph!Answers} = edges
        /\ \A e \in edges : shape[e.from] # "CONDITION" => e.branch = "none"
  BY GraphSearches, Zenon DEF Graph!Walkable, Walk, Beyond, On
<1> QED
  BY <1>1, <1>2, <1>3, <1>4, GraphCardinality

\* Whatever the validation accepts can be walked.
LEMMA AcceptedWalkable == ASSUME GraphInv, Graph!Accepted PROVE Graph!Walkable
<1>1. Graph!WellLabelled
  BY AcceptedMeans
<1>2. \A e \in edges : IF shape[e.from] = "CONDITION" THEN e.branch \in {"YES", "NO"} ELSE e.branch = "none"
  BY <1>1, GraphFacts DEF Graph!WellLabelled
<1>3. ASSUME NEW a \in Graph!Answers, NEW n \in Walk(a)
      PROVE  /\ n \notin Beyond(n, Graph!Nodes, Graph!Taken(a))
             /\ shape[n] # "TRIGGER" => \A x, y \in On(a, n) : x = y
             /\ shape[n] \in {"CONDITION", "DELAY"} => On(a, n) # {}
  <2>1. n \in Graph!Nodes
    BY WalkLeast
  <2>2. n \notin Beyond(n, Graph!Nodes, Graph!Taken(a))
    <3>1. Free(Graph!Nodes, edges) = Graph!Nodes
      BY AcceptedMeans, GraphSearches
    <3> QED BY <2>1, <3>1, GraphFacts, NoCycle
  <2>3. CASE shape[n] = "TRIGGER"
    BY <2>2, <2>3
  <2>4. CASE shape[n] = "CONDITION"
    <3>1. n \in Graph!Nodes \ Graph!Of("TRIGGER")
      BY <2>1, <2>4 DEF Graph!Of
    <3>2. PICK x, y : Graph!Out(n) = {x, y} /\ x.branch # y.branch
      BY <2>4, <3>1, AcceptedMeans
    <3>3. x \in edges /\ x.from = n /\ y \in edges /\ y.from = n
      BY <3>2 DEF Graph!Out
    <3>4. x.branch \in {"YES", "NO"} /\ y.branch \in {"YES", "NO"}
      BY <1>2, <2>4, <3>3
    <3>5. a[n] \in {"YES", "NO"}
      BY <2>1, <2>4, AnswersThere DEF Graph!Of
    <3>6. On(a, n) = {e \in {x, y} : e.branch = a[n]}
      BY <2>1, <2>4, <3>2, OnOut
    <3>7. On(a, n) = {x} \/ On(a, n) = {y}
      BY <3>2, <3>4, <3>5, <3>6
    <3> QED BY <2>2, <2>4, <3>7
  <2>5. CASE shape[n] \notin {"TRIGGER", "CONDITION"}
    <3>1. n \in Graph!Nodes \ Graph!Of("TRIGGER")
      BY <2>1, <2>5 DEF Graph!Of
    <3>2. On(a, n) = Graph!Out(n)
      BY <2>1, <2>5, OnOut
    <3> QED BY <2>2, <2>5, <3>1, <3>2, AcceptedMeans
  <2> QED BY <2>3, <2>4, <2>5
<1>4. \A n \in Graph!Nodes : \E a \in Graph!Answers : n \in Walk(a)
  <2>1. PICK U : U = UNION {Walk(a) : a \in Graph!Answers}
    OBVIOUS
  <2>2. Graph!Of("TRIGGER") \subseteq U
    <3>1. PICK a \in Graph!Answers : TRUE
      BY AnswersThere
    <3>2. Graph!Of("TRIGGER") \subseteq Walk(a)
      BY WalkLeast
    <3> QED BY <2>1, <3>2
  <2>3. ASSUME NEW e \in edges, NEW a \in Graph!Answers, e.from \in Walk(a)
        PROVE  \E b \in Graph!Answers : e.to \in Walk(b)
    <3>1. CASE shape[e.from] # "CONDITION"
      <4>1. e \in Graph!Taken(a)
        BY <3>1 DEF Graph!Taken
      <4> QED BY <2>3, <4>1, WalkLeast DEF Closed
    <3>2. CASE shape[e.from] = "CONDITION"
      <4>1. e.branch \in Labels /\ e.from \in Graph!Of("CONDITION")
        BY <1>2, <3>2, GraphFacts DEF Graph!Of, Labels
      <4>3. PICK b \in Graph!Answers : /\ b[e.from] = e.branch
                                      /\ \A c \in Graph!Of("CONDITION") : c # e.from => a[c] = b[c]
        BY <4>1, AnswerChanged
      <4>4. e.from \in Walk(b)
        BY <2>3, <4>3, Switch
      <4>5. e \in Graph!Taken(b)
        BY <4>3 DEF Graph!Taken
      <4> QED BY <4>3, <4>4, <4>5, WalkLeast DEF Closed
    <3> QED BY <3>1, <3>2
  <2>4. Closed(U, edges)
    BY <2>1, <2>3 DEF Closed
  <2>5. Graph!Visited(Graph!Of("TRIGGER"), edges) \subseteq U
    BY <2>2, <2>4, GraphFacts, GraphSearches, ReachLeast
  <2> QED BY <2>1, <2>5, AcceptedMeans
<1>5. ASSUME NEW e \in edges PROVE \E a \in Graph!Answers : e \in Graph!Taken(a)
  <2>1. PICK v \in {"YES", "NO"} : shape[e.from] = "CONDITION" => e.branch = v
    BY <1>2
  <2>2. PICK a : a = [c \in Graph!Of("CONDITION") |-> v]
    OBVIOUS
  <2>3. a \in Graph!Answers
    BY <2>2, AnswersThere
  <2>4. shape[e.from] = "CONDITION" => a[e.from] = v
    BY <2>2, GraphFacts DEF Graph!Of
  <2>5. e \in Graph!Taken(a)
    BY <2>1, <2>4 DEF Graph!Taken
  <2> QED BY <2>3, <2>5
<1> QED
  BY <1>2, <1>3, <1>4, <1>5, AcceptedMeans, WalkableMeans

\* A graph every walk gets through has an order of its nodes.
LEMMA WalkableOrdered == ASSUME GraphInv, Graph!Walkable PROVE Graph!Removed = Graph!Nodes
<1>1. ASSUME Graph!Removed # Graph!Nodes PROVE FALSE
  <2>1. PICK D \in SUBSET Graph!Nodes : D # {} /\ Onward(D, edges)
    BY <1>1, GraphFacts, GraphSearches, Knot
  <2>2. PICK s : s = [m \in D |-> CHOOSE e \in edges : e.from = m /\ e.to \in D]
    OBVIOUS
  <2>3. \A m \in D : s[m] \in edges /\ s[m].from = m /\ s[m].to \in D
    BY <2>1, <2>2 DEF Onward
  <2>4. PICK k \in D, b \in Graph!Answers : k \in Walk(b)
    BY <2>1, WalkableMeans
  <2>5. PICK a : a = [c \in Graph!Of("CONDITION") |-> IF c \in D THEN s[c].branch ELSE b[c]]
    OBVIOUS
  <2>6. /\ \A c \in Graph!Of("CONDITION") : a[c] = IF c \in D THEN s[c].branch ELSE b[c]
        /\ a = [c \in Graph!Of("CONDITION") |-> a[c]]
    BY <2>5
  <2>7. a \in Graph!Answers
    <3>1. ASSUME NEW c \in Graph!Of("CONDITION"), c \in D PROVE s[c].branch \in {"YES", "NO"}
      <4>1. PICK d \in Graph!Answers : s[c] \in Graph!Taken(d)
        BY <2>3, <3>1, WalkableMeans
      <4>2. s[c].branch = d[c]
        BY <2>3, <3>1, <4>1 DEF Graph!Taken, Graph!Of
      <4> QED BY <4>2, AnswersThere
    <3>2. \A c \in Graph!Of("CONDITION") : a[c] \in {"YES", "NO"}
      BY <2>6, <3>1, AnswersThere
    <3> QED BY <2>6, <3>2 DEF Graph!Answers
  <2>8. \A m \in D : s[m] \in Graph!Taken(a)
    <3>1. \A m \in D : shape[m] = "CONDITION" => m \in Graph!Of("CONDITION")
      BY DEF Graph!Of
    <3> QED BY <2>3, <2>6, <3>1 DEF Graph!Taken
  <2>9. PICK W : W = D \cap Walk(a)
    OBVIOUS
  <2>10. W # {}
    <3>1. SUFFICES ASSUME \A m \in Walk(a) : m \notin D PROVE FALSE
      BY <2>9
    <3>2. ASSUME NEW e \in Graph!Taken(b), e.from \in Walk(a) PROVE e \in Graph!Taken(a)
      <4>1. e.from \notin D /\ (shape[e.from] = "CONDITION" => e.from \in Graph!Of("CONDITION"))
        BY <3>1, <3>2, WalkLeast DEF Graph!Of
      <4> QED BY <2>6, <4>1 DEF Graph!Taken
    <3>3. Closed(Walk(a), Graph!Taken(b))
      BY <3>2, WalkLeast DEF Closed
    <3>4. Walk(b) \subseteq Walk(a)
      BY <3>3, WalkLeast
    <3> QED BY <2>4, <3>1, <3>4
  <2>11. \A m \in W : \E e \in Graph!Taken(a) : e.from = m /\ e.to \in W
    BY <2>3, <2>8, <2>9, WalkLeast DEF Closed
  <2>12. PICK m \in W : m \in Beyond(m, Graph!Nodes, Graph!Taken(a))
    <3>1. W \in SUBSET Graph!Nodes
      BY <2>9
    <3> QED BY <2>10, <2>11, <3>1, GraphFacts, SomeCycle
  <2> QED BY <2>7, <2>9, <2>12, WalkableMeans
<1> QED
  BY <1>1

\* Every edge is on the way of a walk.
LEMMA OnTheWay ==
  ASSUME GraphInv, Graph!Walkable, NEW e \in edges
  PROVE  \E b \in Graph!Answers : e \in On(b, e.from) /\ e.from \in Walk(b)
<1>1. PICK d \in Graph!Answers, c \in Graph!Answers : e \in Graph!Taken(d) /\ e.from \in Walk(c)
  BY GraphFacts, WalkableMeans
<1>2. CASE shape[e.from] # "CONDITION"
  BY <1>1, <1>2 DEF On, Graph!Taken
<1>3. CASE shape[e.from] = "CONDITION"
  <2>1. e.from \in Graph!Of("CONDITION") /\ e.branch = d[e.from]
    BY <1>1, <1>3, GraphFacts DEF Graph!Of, Graph!Taken
  <2>2. e.branch \in Labels /\ e.from \in Graph!Of("CONDITION")
    BY <2>1, AnswersThere DEF Labels
  <2>3. PICK b \in Graph!Answers : /\ b[e.from] = e.branch
                                   /\ \A p \in Graph!Of("CONDITION") : p # e.from => c[p] = b[p]
    BY <2>2, AnswerChanged
  <2>4. e.from \in Walk(b)
    BY <1>1, <2>3, Switch
  <2>5. e \in On(b, e.from)
    BY <2>3 DEF On, Graph!Taken
  <2> QED BY <2>4, <2>5
<1> QED
  BY <1>2, <1>3

\* A graph every walk gets through is fanned as the validation asks.
LEMMA WalkableFanned ==
  ASSUME GraphInv, Graph!Walkable, NEW n \in Graph!Nodes \ Graph!Of("TRIGGER"),
         \A e \in edges : shape[e.from] = "CONDITION" => e.branch \in {"YES", "NO"}
  PROVE  IF shape[n] = "CONDITION"
         THEN \E x, y : Graph!Out(n) = {x, y} /\ x.branch # y.branch
         ELSE /\ \A x, y \in Graph!Out(n) : x = y
              /\ shape[n] = "DELAY" => Graph!Out(n) # {}
<1>1. PICK c \in Graph!Answers : n \in Walk(c)
  BY WalkableMeans
<1>2. shape[n] # "TRIGGER"
  BY DEF Graph!Of
<1>3. CASE shape[n] # "CONDITION"
  <2>1. On(c, n) = Graph!Out(n)
    BY <1>3, OnOut
  <2> QED BY <1>1, <1>2, <1>3, <2>1, WalkableMeans
<1>4. CASE shape[n] = "CONDITION"
  <2>1. n \in Graph!Of("CONDITION")
    BY <1>4 DEF Graph!Of
  <2>2. ASSUME NEW v \in Labels
        PROVE  \E x : {e \in Graph!Out(n) : e.branch = v} = {x}
    <3>1. PICK b \in Graph!Answers : /\ b[n] = v
                                     /\ \A d \in Graph!Of("CONDITION") : d # n => c[d] = b[d]
      BY <1>1, <2>1, AnswerChanged
    <3>2. n \in Walk(b)
      BY <1>1, <3>1, Switch
    <3>3. On(b, n) # {} /\ \A x, y \in On(b, n) : x = y
      BY <1>2, <1>4, <3>2, WalkableMeans
    <3>4. On(b, n) = {e \in Graph!Out(n) : e.branch = v}
      BY <1>4, <3>1, OnOut
    <3> QED BY <3>3, <3>4
  <2>3. PICK x : {e \in Graph!Out(n) : e.branch = "YES"} = {x}
    BY <2>2 DEF Labels
  <2>4. PICK y : {e \in Graph!Out(n) : e.branch = "NO"} = {y}
    BY <2>2 DEF Labels
  <2>5. \A e \in Graph!Out(n) : e.branch \in {"YES", "NO"}
    BY <1>4 DEF Graph!Out
  <2>6. Graph!Out(n) = {x, y} /\ x.branch = "YES" /\ y.branch = "NO"
    BY <2>3, <2>4, <2>5
  <2> QED BY <1>4, <2>6
<1> QED
  BY <1>3, <1>4

\* Whatever can be walked the validation accepts.
LEMMA WalkableAccepted == ASSUME GraphInv, Graph!Walkable PROVE Graph!Accepted
<1>1. PICK t \in Graph!Nodes : Graph!Of("TRIGGER") = {t}
  BY WalkableMeans
<1>2. IsFiniteSet(Graph!Nodes) /\ \A a : Graph!Taken(a) \in SUBSET edges /\ Between(Graph!Taken(a), Graph!Nodes)
  BY GraphFacts
<1>3. ASSUME NEW e \in edges
      PROVE  e.from # e.to /\ (shape[e.from] = "CONDITION" => e.branch \in {"YES", "NO"})
  <2>1. PICK b \in Graph!Answers : e \in On(b, e.from) /\ e.from \in Walk(b)
    BY OnTheWay
  <2>2. e.to \in Beyond(e.from, Graph!Nodes, Graph!Taken(b)) /\ e.from \notin Beyond(e.from, Graph!Nodes, Graph!Taken(b))
    BY <1>2, <2>1, BeyondLeast, WalkableMeans DEF On
  <2>3. shape[e.from] = "CONDITION" => e.branch = b[e.from] /\ e.from \in Graph!Of("CONDITION")
    BY <2>1, GraphFacts DEF On, Graph!Taken, Graph!Of
  <2> QED BY <2>2, <2>3, AnswersThere
<1>4. Graph!WellLabelled
  BY <1>3, WalkableMeans DEF Graph!WellLabelled
<1>5. ASSUME NEW e \in edges, e.to = t PROVE FALSE
  <2>1. PICK b \in Graph!Answers : e \in On(b, e.from) /\ e.from \in Walk(b)
    BY OnTheWay
  <2>2. PICK X : X = {t} \cup Beyond(t, Graph!Nodes, Graph!Taken(b))
    OBVIOUS
  <2>3. Graph!Of("TRIGGER") \subseteq X /\ Closed(X, Graph!Taken(b))
    BY <1>1, <1>2, <2>2, BeyondLeast DEF Closed
  <2>4. e.from \in X
    BY <2>1, <2>3, WalkLeast
  <2>5. t \in Beyond(t, Graph!Nodes, Graph!Taken(b))
    BY <1>2, <1>5, <2>1, <2>2, <2>4, BeyondLeast DEF Closed, On
  <2>6. t \in Walk(b)
    BY <1>1, WalkLeast
  <2> QED BY <2>5, <2>6, WalkableMeans
<1>6. \A n \in Graph!Of("TRIGGER") : Graph!In(n) = {}
  BY <1>1, <1>5 DEF Graph!In
<1>7. Graph!Visited(Graph!Of("TRIGGER"), edges) = Graph!Nodes
  <2>1. PICK V : V = Graph!Visited(Graph!Of("TRIGGER"), edges)
    OBVIOUS
  <2>2. V \subseteq Graph!Nodes /\ Graph!Of("TRIGGER") \subseteq V /\ Closed(V, edges)
    BY <2>1, GraphFacts, GraphSearches, ReachLeast
  <2>3. \A a : Closed(V, Graph!Taken(a))
    BY <1>2, <2>2 DEF Closed
  <2>4. \A a : Walk(a) \subseteq V
    BY <2>2, <2>3, WalkLeast
  <2> QED BY <2>1, <2>2, <2>4, WalkableMeans
<1> QED
  BY <1>1, <1>3, <1>4, <1>6, <1>7, WalkableFanned, WalkableOrdered, AcceptedMeans

LEMMA GraphMeans == GraphInv => Graph!AcceptsTheWalkable
BY AcceptedWalkable, WalkableAccepted DEF Graph!AcceptsTheWalkable

LEMMA GraphStart == Init /\ part = "graph" => GraphInv
BY FS_EmptySet DEF Init, Graph!Init, GraphInv

LEMMA GraphSteps ==
  ASSUME part = "graph", [Next]_platformVars
  PROVE  [Graph!GraphNext]_graphVars
BY DEF Next, Only, platformVars

LEMMA GraphStep == GraphInv /\ [Graph!GraphNext]_graphVars => GraphInv'
<1>1. ASSUME GraphInv, NEW e \in Graph!Edge, Graph!Draw(e) PROVE GraphInv'
  <2>1. IsFiniteSet(edges \cup {e})
    BY <1>1, FS_AddElement DEF GraphInv
  <2> QED BY <1>1, <2>1 DEF GraphInv, Graph!Draw, Graph!Edge, Graph!Nodes
<1>2. GraphInv /\ UNCHANGED graphVars => GraphInv'
  BY DEF GraphInv, graphVars, Graph!Edge, Graph!Nodes
<1> QED
  BY <1>1, <1>2 DEF Graph!GraphNext

-----------------------------------------------------------------------------
(* The canvas.                                                              *)

LEMMA EditorCardinality == \A S : Editor!Cardinality(S) = Cardinality(S) /\ Editor!Server!Cardinality(S) = Cardinality(S)
BY DEF Editor!Cardinality, Editor!Server!Cardinality, Cardinality

\* The searches of the page and of the server it is for are those above.
LEMMA EditorSearches ==
  /\ Editor!Server!Nodes = drawn
  /\ Editor!Server!Removed = Free(drawn, links)
  /\ \A start, along : Editor!Server!Visited(start, along) = Reach(drawn, start, along)
  /\ \A start : Editor!Reached(start) = Reach(drawn, start, links)
<1>0. Editor!Server!Nodes = drawn
  BY DEF Editor!Server!Nodes
<1>1. PICK n : n = Cardinality(drawn)
  OBVIOUS
<1>2. Editor!Cardinality(drawn) = n /\ Editor!Server!Cardinality(drawn) = n
  BY <1>1, EditorCardinality
<1>3. Editor!Server!Removed = Free(drawn, links)
  BY <1>0, <1>1, <1>2 DEF Editor!Server!Removed, Editor!Server!In, Free, FreeRounds
<1>4. ASSUME NEW start, NEW along PROVE Editor!Server!Visited(start, along) = Reach(drawn, start, along)
  BY <1>0, <1>1, <1>2, Zenon DEF Editor!Server!Visited, Reach, SearchRounds
<1>5. ASSUME NEW start PROVE Editor!Reached(start) = Reach(drawn, start, links)
  BY <1>1, <1>2, Zenon DEF Editor!Reached, Reach, SearchRounds
<1> QED
  BY <1>0, <1>3, <1>4, <1>5

EditorKinds == {"TRIGGER"} \cup Editor!NodeKinds

\* A link of the canvas leads from one node to another, not to the trigger, and has a
\* branch just where a condition decides; no two from a node have the same.
Joins(l) ==
  /\ l.from \in drawn /\ l.to \in drawn /\ l.from # l.to /\ l.to # Editor!Trigger
  /\ IF Editor!KindOf(l.from) = "CONDITION" THEN l.branch \in {"YES", "NO"} ELSE l.branch = "none"

EditorInv ==
  /\ drawn \in SUBSET (EditorKinds \X Nat) /\ IsFiniteSet(drawn) /\ IsFiniteSet(links)
  /\ Editor!Trigger \in drawn /\ \A n \in drawn : Editor!KindOf(n) = "TRIGGER" => n = Editor!Trigger
  /\ \A l \in links : Joins(l)
  /\ \A l, m \in links : l.from = m.from /\ l.branch = m.branch => l = m

\* While there is room on the canvas there is a name that is free.
LEMMA FreeName ==
  ASSUME EditorInv, NEW k \in Editor!NodeKinds, Cardinality(drawn) < MaxNodes
  PROVE  \E i \in 1 .. MaxNodes : Editor!NextNodeId(k) = <<k, i>>
<1>1. PICK C : C = {i \in 1 .. MaxNodes : <<k, i>> \notin drawn}
  OBVIOUS
<1>2. C \in SUBSET Nat /\ MaxNodes \in Nat
  BY <1>1, EditorAssumption
<1>3. C # {}
  <2>1. SUFFICES ASSUME \A i \in 1 .. MaxNodes : <<k, i>> \in drawn PROVE FALSE
    BY <1>1
  <2>2. PICK f : f = [i \in 1 .. MaxNodes |-> <<k, i>>]
    OBVIOUS
  <2>3. f \in [1 .. MaxNodes -> drawn] /\ \A i, j \in 1 .. MaxNodes : f[i] = f[j] => i = j
    BY <2>1, <2>2
  <2>4. IsFiniteSet(1 .. MaxNodes) /\ Cardinality(1 .. MaxNodes) = MaxNodes
    BY <1>2, FS_Interval
  <2>5. IsFiniteSet(drawn) /\ Cardinality(drawn) < Cardinality(1 .. MaxNodes)
    BY <2>4 DEF EditorInv
  <2>6. \E i, j \in 1 .. MaxNodes : i # j /\ f[i] = f[j]
    <3>1. PICK S : S = 1 .. MaxNodes
      OBVIOUS
    <3>2. IsFiniteSet(S) /\ IsFiniteSet(drawn) /\ Cardinality(drawn) < Cardinality(S) /\ f \in [S -> drawn]
      BY <2>3, <2>4, <2>5, <3>1
    <3>3. \E i, j \in S : i # j /\ f[i] = f[j]
      BY <3>2, FS_PigeonHole, Zenon
    <3> QED BY <3>1, <3>3
  <2> QED BY <2>3, <2>6
<1>4. PICK i \in C : \A j \in C : i <= j
  BY <1>2, <1>3, LeastNat
<1>5. i \in 1 .. MaxNodes /\ <<k, i>> \notin drawn /\ \A j \in 1 .. i - 1 : <<k, j>> \in drawn
  <2>1. i \in 1 .. MaxNodes /\ <<k, i>> \notin drawn
    BY <1>1
  <2>2. ASSUME NEW j \in 1 .. i - 1 PROVE <<k, j>> \in drawn
    <3>1. j \in 1 .. MaxNodes /\ ~(i <= j)
      BY <1>2, <2>1, <2>2
    <3> QED BY <1>1, <1>4, <3>1
  <2> QED BY <2>1, <2>2
<1>6. PICK S : S = {<<k, j>> : j \in 1 .. MaxNodes}
  OBVIOUS
<1>7. \E n \in S : n \notin drawn /\ \A j \in 1 .. n[2] - 1 : <<k, j>> \in drawn
  <2>1. <<k, i>> \in S /\ <<k, i>>[2] = i
    BY <1>5, <1>6
  <2> QED BY <1>5, <2>1
<1>8. Editor!NextNodeId(k) \in S
  BY <1>6, <1>7 DEF Editor!NextNodeId
<1> QED
  BY <1>6, <1>8

LEMMA AddNodeKept ==
  ASSUME EditorInv, NEW k \in Editor!NodeKinds, Editor!AddNode(k)
  PROVE  EditorInv'
<1>1. PICK i \in 1 .. MaxNodes : Editor!NextNodeId(k) = <<k, i>>
  BY FreeName, EditorCardinality DEF Editor!AddNode
<1>2. drawn' = drawn \cup {<<k, i>>} /\ UNCHANGED <<links, linking>>
  BY <1>1 DEF Editor!AddNode
<1>3. <<k, i>> \in EditorKinds \X Nat /\ <<k, i>>[1] # "TRIGGER"
  BY DEF EditorKinds, Editor!NodeKinds
<1>4. IsFiniteSet(drawn \cup {<<k, i>>})
  BY FS_AddElement DEF EditorInv
<1> QED
  BY <1>2, <1>3, <1>4 DEF EditorInv, Joins, Editor!KindOf, Editor!Trigger

LEMMA LinksGone ==
  ASSUME EditorInv, links' \subseteq links, drawn' = drawn
  PROVE  EditorInv'
BY FS_Subset DEF EditorInv, Joins, Editor!KindOf, Editor!Trigger

LEMMA RemoveNodeKept ==
  ASSUME EditorInv, NEW n \in drawn, Editor!RemoveNode(n)
  PROVE  EditorInv'
<1>1. /\ drawn' = drawn \ {n} /\ n # Editor!Trigger
      /\ links' = {l \in links : n \notin {l.from, l.to}}
  BY DEF Editor!RemoveNode
<1>2. IsFiniteSet(drawn \ {n}) /\ links' \subseteq links /\ IsFiniteSet(links')
  BY <1>1, FS_RemoveElement, FS_Subset DEF EditorInv
<1>3. \A l \in links' : Joins(l)'
  BY <1>1 DEF EditorInv, Joins, Editor!KindOf, Editor!Trigger
<1> QED
  BY <1>1, <1>2, <1>3 DEF EditorInv, Editor!KindOf, Editor!Trigger

\* A link that may be drawn gets the branch its node lacks.
LEMMA NewBranch ==
  ASSUME EditorInv, NEW p, NEW q, Editor!CanConnect(p, q)
  PROVE  /\ \A l \in links : l.from = p => l.branch # Editor!Branch(p)
         /\ Joins([from |-> p, to |-> q, branch |-> Editor!Branch(p)])
<1>1. PICK S : S = Editor!outgoing(p)
  OBVIOUS
<1>2. S \in SUBSET links /\ IsFiniteSet(S) /\ Cardinality(S) \in Nat
  BY <1>1, FS_Subset, FS_CardinalityType DEF Editor!outgoing, EditorInv
<1>3. \A l \in links : l.from = p <=> l \in S
  BY <1>1 DEF Editor!outgoing
<1>4. p # q /\ p \in drawn /\ q \in drawn /\ q # Editor!Trigger
  BY DEF Editor!CanConnect
<1>5. CASE Editor!KindOf(p) # "CONDITION"
  <2>1. Cardinality(S) < 1
    BY <1>1, <1>5, EditorCardinality DEF Editor!CanConnect
  <2>2. S = {}
    BY <1>2, <2>1, FS_EmptySet
  <2>3. Editor!Branch(p) = "none"
    BY <1>1, <1>5, <2>2 DEF Editor!Branch
  <2> QED BY <1>3, <1>4, <1>5, <2>2, <2>3 DEF Joins
<1>6. CASE Editor!KindOf(p) = "CONDITION"
  <2>1. Cardinality(S) <= 1
    BY <1>1, <1>2, <1>6, EditorCardinality DEF Editor!CanConnect
  <2>2. \A l, m \in S : l = m
    BY <1>2, <2>1, OneAtMost
  <2>3. Editor!Branch(p) = IF \E l \in S : l.branch = "YES" THEN "NO" ELSE "YES"
    BY <1>1, <1>6 DEF Editor!Branch
  <2>4. \A l \in S : l.branch # Editor!Branch(p)
    BY <2>2, <2>3
  <2> QED BY <1>3, <1>4, <1>6, <2>3, <2>4 DEF Joins
<1> QED
  BY <1>5, <1>6

LEMMA ClickKept ==
  ASSUME EditorInv, NEW n \in drawn, Editor!Click(n)
  PROVE  EditorInv'
<1>1. CASE ~Editor!CanConnect(linking, n)
  BY <1>1, LinksGone DEF Editor!Click
<1>2. CASE Editor!CanConnect(linking, n)
  <2>1. PICK x : x = [from |-> linking, to |-> n, branch |-> Editor!Branch(linking)]
    OBVIOUS
  <2>2. links' = links \cup {x} /\ drawn' = drawn
    BY <1>2, <2>1 DEF Editor!Click
  <2>3. Joins(x) /\ \A l \in links : l.from = x.from => l.branch # x.branch
    BY <1>2, <2>1, NewBranch
  <2>4. IsFiniteSet(links \cup {x})
    BY FS_AddElement DEF EditorInv
  <2>5. \A l : Joins(l)' = Joins(l)
    BY <2>2 DEF Joins, Editor!KindOf, Editor!Trigger
  <2>6. \A l, m \in links' : l.from = m.from /\ l.branch = m.branch => l = m
    BY <2>2, <2>3 DEF EditorInv
  <2>7. \A l \in links' : Joins(l)'
    BY <2>2, <2>3, <2>5 DEF EditorInv
  <2> QED BY <2>2, <2>4, <2>6, <2>7 DEF EditorInv, Editor!KindOf, Editor!Trigger
<1> QED
  BY <1>1, <1>2

LEMMA EditorStart == Init /\ part = "editor" => EditorInv
<1> SUFFICES ASSUME Init, part = "editor" PROVE EditorInv
  OBVIOUS
<1>1. drawn = {Editor!Trigger} /\ links = {}
  BY DEF Init, Editor!Init
<1>2. IsFiniteSet(drawn) /\ IsFiniteSet(links)
  BY <1>1, FS_EmptySet, FS_Singleton
<1>3. Editor!Trigger \in EditorKinds \X Nat
  BY DEF Editor!Trigger, EditorKinds
<1> QED
  BY <1>1, <1>2, <1>3 DEF EditorInv

LEMMA EditorSteps ==
  ASSUME part = "editor", [Next]_platformVars
  PROVE  [Editor!EditorNext]_editorVars
BY DEF Next, Only, platformVars

LEMMA EditorStep == EditorInv /\ [Editor!EditorNext]_editorVars => EditorInv'
<1>1. ASSUME EditorInv, NEW n \in drawn, Editor!StartLink(n) PROVE EditorInv'
  BY <1>1, LinksGone DEF Editor!StartLink
<1>2. ASSUME EditorInv, NEW p, NEW q, Editor!Disconnect(p, q) PROVE EditorInv'
  BY <1>2, LinksGone DEF Editor!Disconnect
<1>3. EditorInv /\ UNCHANGED editorVars => EditorInv'
  BY LinksGone DEF editorVars
<1> QED
  BY <1>1, <1>2, <1>3, AddNodeKept, RemoveNodeKept, ClickKept DEF Editor!EditorNext

\* Of the links from a node no two have one branch, and of a node that decides nothing
\* there is one at most.
LEMMA Outgoing ==
  ASSUME EditorInv, NEW n \in drawn
  PROVE  /\ Editor!outgoing(n) \in SUBSET links /\ IsFiniteSet(Editor!outgoing(n))
         /\ \A l, m \in Editor!outgoing(n) : l.branch = m.branch => l = m
         /\ \A l \in Editor!outgoing(n) :
              IF Editor!KindOf(n) = "CONDITION" THEN l.branch \in {"YES", "NO"} ELSE l.branch = "none"
<1>1. Editor!outgoing(n) \in SUBSET links /\ \A l \in Editor!outgoing(n) : l.from = n
  BY DEF Editor!outgoing
<1> QED
  BY <1>1, FS_Subset DEF EditorInv, Joins

LEMMA BranchesAssigned == EditorInv => Editor!BranchesAreAssigned
<1> SUFFICES ASSUME EditorInv PROVE Editor!BranchesAreAssigned
  OBVIOUS
<1>1. ASSUME NEW n \in drawn
      PROVE  /\ Editor!KindOf(n) # "CONDITION" => Cardinality(Editor!outgoing(n)) <= 1
             /\ Cardinality({l.branch : l \in Editor!outgoing(n)}) = Cardinality(Editor!outgoing(n))
  <2>1. PICK S, T : S = Editor!outgoing(n) /\ T = {l.branch : l \in S}
    OBVIOUS
  <2>2. IsFiniteSet(S) /\ \A l, m \in S : l.branch = m.branch => l = m
    BY <2>1, Outgoing
  <2>3. Editor!KindOf(n) # "CONDITION" => Cardinality(S) <= 1
    BY <2>1, <2>2, Outgoing, OneAtMost
  <2>4. Cardinality(T) = Cardinality(S)
    <3>1. PICK f : f = [l \in S |-> l.branch]
      OBVIOUS
    <3>2. f \in Injection(S, T) /\ f \in Surjection(S, T)
      BY <2>1, <2>2, <3>1 DEF Injection, IsInjective, Surjection
    <3> QED BY <2>2, <3>2, FS_Surjection
  <2> QED BY <2>1, <2>3, <2>4
<1>2. Editor!LintGraph \cap {"TRIGGER_INCOMING", "DANGLING_EDGE", "BRANCH_ON_NON_CONDITION"} = {}
  <2>1. ~\E l \in links : l.to = Editor!Trigger
    BY DEF EditorInv, Joins
  <2>2. ~\E l \in links : ~({l.from, l.to} \subseteq drawn)
    BY DEF EditorInv, Joins
  <2>3. ~\E l \in links : Editor!KindOf(l.from) # "CONDITION" /\ l.branch # "none"
    BY DEF EditorInv, Joins
  <2> QED BY <2>1, <2>2, <2>3 DEF Editor!LintGraph
<1> QED
  BY <1>1, <1>2, EditorCardinality DEF Editor!BranchesAreAssigned

\* The page's search for a cycle finds one exactly where the server's order fails.
LEMMA CycleMeans == EditorInv => (Editor!CycleExists <=> Editor!Server!Removed # drawn)
<1> SUFFICES ASSUME EditorInv PROVE Editor!CycleExists <=> Editor!Server!Removed # drawn
  OBVIOUS
<1>1. IsFiniteSet(drawn) /\ Between(links, drawn)
  BY DEF EditorInv, Joins, Between
<1>2. Editor!CycleExists <=> \E n \in drawn : n \in Beyond(n, drawn, links)
  BY EditorSearches DEF Editor!CycleExists, Beyond, Editor!outgoing
<1>3. ASSUME Free(drawn, links) = drawn PROVE \A n \in drawn : n \notin Beyond(n, drawn, links)
  BY <1>1, <1>3, NoCycle
<1>4. ASSUME Free(drawn, links) # drawn PROVE \E n \in drawn : n \in Beyond(n, drawn, links)
  <2>1. PICK D \in SUBSET drawn : D # {} /\ Onward(D, links)
    BY <1>1, <1>4, Knot
  <2>2. \E n \in D : n \in Beyond(n, drawn, links)
    BY <1>1, <2>1, SomeCycle DEF Onward
  <2> QED BY <2>2
<1> QED
  BY <1>2, <1>3, <1>4, EditorSearches

LEMMA ServerNodes ==
  ASSUME EditorInv
  PROVE  /\ \A k : Editor!Server!Of(k) = {n \in drawn : Editor!KindOf(n) = k}
         /\ Editor!Server!Of("TRIGGER") = {Editor!Trigger}
         /\ \A n : Editor!Server!Out(n) = Editor!outgoing(n) /\ Editor!Server!In(n) = {l \in links : l.to = n}
<1>1. \A k : Editor!Server!Of(k) = {n \in drawn : Editor!KindOf(n) = k}
  BY EditorSearches DEF Editor!Server!Of, Editor!KindOf
<1>2. Editor!KindOf(Editor!Trigger) = "TRIGGER"
  BY DEF Editor!KindOf, Editor!Trigger
<1>3. Editor!Server!Of("TRIGGER") = {Editor!Trigger}
  BY <1>1, <1>2 DEF EditorInv
<1> QED
  BY <1>1, <1>3 DEF Editor!Server!Out, Editor!Server!In, Editor!outgoing

LEMMA ServerLabels == EditorInv => Editor!Server!WellLabelled
<1> SUFFICES ASSUME EditorInv, NEW l \in links
             PROVE  l.from # l.to /\ ([n \in drawn |-> n[1]][l.from] = "CONDITION" <=> l.branch # "none")
  BY DEF Editor!Server!WellLabelled
<1>1. Joins(l)
  BY DEF EditorInv
<1> QED
  BY <1>1 DEF Joins, Editor!KindOf

\* Of a condition both branches are there exactly if the server counts two.
LEMMA ServerFans ==
  ASSUME EditorInv
  PROVE  Editor!Server!WellFanned <=>
           \A n \in drawn :
             /\ Editor!KindOf(n) = "CONDITION" => {"YES", "NO"} \subseteq {l.branch : l \in Editor!outgoing(n)}
             /\ Editor!KindOf(n) = "DELAY" => Editor!outgoing(n) # {}
<1>1. ASSUME NEW n \in drawn, Editor!KindOf(n) = "CONDITION"
      PROVE  Cardinality(Editor!outgoing(n)) = 2 /\ Cardinality({l.branch : l \in Editor!outgoing(n)}) = 2
               <=> {"YES", "NO"} \subseteq {l.branch : l \in Editor!outgoing(n)}
  <2>1. PICK T : T = {l.branch : l \in Editor!outgoing(n)}
    OBVIOUS
  <2>2. T \subseteq {"YES", "NO"}
    BY <1>1, <2>1, Outgoing
  <2>3. Cardinality({"YES", "NO"}) = 2 /\ IsFiniteSet({"YES", "NO"})
    <3>1. IsFiniteSet({"YES"} \cup {"NO"}) /\ {"YES"} \cup {"NO"} = {"YES", "NO"}
      BY FS_Singleton, FS_AddElement
    <3> QED BY <3>1, PairHas
  <2>4. Cardinality(T) = 2 <=> {"YES", "NO"} \subseteq T
    BY <2>2, <2>3, FS_Subset
  <2>5. Cardinality(T) = Cardinality(Editor!outgoing(n))
    BY <2>1, BranchesAssigned, EditorCardinality DEF Editor!BranchesAreAssigned
  <2> QED BY <2>1, <2>4, <2>5
<1>2. ASSUME NEW n \in drawn, Editor!KindOf(n) # "CONDITION"
      PROVE  Cardinality(Editor!outgoing(n)) <= 1
  BY <1>2, BranchesAssigned, EditorCardinality DEF Editor!BranchesAreAssigned
<1>3. \A n \in drawn : [m \in drawn |-> m[1]][n] = Editor!KindOf(n)
  BY DEF Editor!KindOf
<1>4. Editor!KindOf(Editor!Trigger) = "TRIGGER"
  BY DEF Editor!KindOf, Editor!Trigger
<1>5. Editor!Server!WellFanned <=> \A n \in drawn \ {Editor!Trigger} :
        IF Editor!KindOf(n) = "CONDITION"
        THEN Cardinality(Editor!outgoing(n)) = 2 /\ Cardinality({l.branch : l \in Editor!outgoing(n)}) = 2
        ELSE Cardinality(Editor!outgoing(n)) <= 1 /\ (Editor!KindOf(n) = "DELAY" => Editor!outgoing(n) # {})
  BY <1>3, EditorSearches, ServerNodes, EditorCardinality DEF Editor!Server!WellFanned
<1> QED
  BY <1>1, <1>2, <1>4, <1>5

LEMMA LintForetells == EditorInv => Editor!LintForetellsTheServer
<1> SUFFICES ASSUME EditorInv PROVE Editor!LintForetellsTheServer
  OBVIOUS
<1>1. Editor!Server!Accepted <=>
        /\ Editor!Server!WellFanned /\ Editor!Server!Removed = drawn
        /\ Reach(drawn, {Editor!Trigger}, links) = drawn
  <2>1. Cardinality(Editor!Server!Of("TRIGGER")) = 1
    BY ServerNodes, FS_Singleton
  <2>2. \A n \in Editor!Server!Of("TRIGGER") : Editor!Server!In(n) = {}
    BY ServerNodes DEF EditorInv, Joins
  <2> QED BY <2>1, <2>2, ServerNodes, ServerLabels, EditorSearches, EditorCardinality DEF Editor!Server!Accepted
<1>2. Editor!LintGraph = {} <=>
        /\ \A n \in drawn : Editor!KindOf(n) = "CONDITION" =>
             {"YES", "NO"} \subseteq {l.branch : l \in Editor!outgoing(n)}
        /\ ~Editor!CycleExists /\ drawn = Reach(drawn, {Editor!Trigger}, links)
  <2>1. ~\E l \in links : l.to = Editor!Trigger
    BY DEF EditorInv, Joins
  <2>2. ~\E l \in links : ~({l.from, l.to} \subseteq drawn)
    BY DEF EditorInv, Joins
  <2>3. ~\E l \in links : Editor!KindOf(l.from) # "CONDITION" /\ l.branch # "none"
    BY DEF EditorInv, Joins
  <2> QED BY <2>1, <2>2, <2>3, EditorSearches DEF Editor!LintGraph
<1> QED
  BY <1>1, <1>2, CycleMeans, ServerFans DEF Editor!LintForetellsTheServer

-----------------------------------------------------------------------------
(* What the page and the server promise of a graph.                         *)

\* The validation of a drawn workflow (validateWorkflowDefinition, dag.ts) lets through
\* exactly the graphs that every walk of the executor gets through, whatever its
\* conditions say: for any nodes, any edges between them and any order of drawing.
\* And whatever is drawn, removed and drawn again on a canvas of any size
\* (WorkflowCanvas.tsx, workflow-builder.ts), its branches are the ones the server wants,
\* and the page (lintGraph) finds nothing wrong exactly with the graphs the server takes,
\* but for a delay that leads nowhere.
THEOREM GraphsAgreeAlways == Spec => []GraphsAgree
<1> DEFINE Inv == (part = "graph" => GraphInv) /\ (part = "editor" => EditorInv)
<1>1. Init => Inv
  BY GraphStart, EditorStart
<1>2. Inv /\ [Next]_platformVars => Inv'
  <2> SUFFICES ASSUME Inv, [Next]_platformVars PROVE Inv'
    OBVIOUS
  <2>1. part = "graph" => GraphInv'
    BY GraphSteps, GraphStep
  <2>2. part = "editor" => EditorInv'
    BY EditorSteps, EditorStep
  <2> QED BY <2>1, <2>2, PartStays
<1>3. Inv => GraphsAgree
  BY GraphMeans, BranchesAssigned, LintForetells DEF GraphsAgree
<1> QED
  BY <1>1, <1>2, <1>3, PTL DEF Spec, platformVars

=============================================================================
