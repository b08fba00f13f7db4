--------------------------- MODULE RequestProofs ----------------------------
(* Proofs about what decides on a request: the service token a call carries,  *)
(* the webhook guards, the CSRF middleware and the sessions.                  *)
EXTENDS ServiceToken, Sessions, CSRF, Webhook, TLAPS

-----------------------------------------------------------------------------
(* ServiceToken: any set of goroutines, any refresh buffer, and any lifetime *)
(* that exceeds buffer and mint delay.                                       *)

States == {"idle", "locking", "asking", "receiving", "calling"}

\* What a goroutine holds: an issued token has lost what it has been on the way
\* for, and a token in use has, with the time of its use, more than the buffer.
Carried(c) ==
  /\ tokenPc[c] = "receiving" =>
       heldFor[c] <= MintDelay /\ heldLife[c] + heldFor[c] = TokenTTL
  /\ tokenPc[c] = "calling" =>
       /\ heldFor[c] <= RefreshBuffer - Truncated
       /\ heldLife[c] + heldFor[c] > RefreshBuffer - Truncated

\* The claim of the cached token is short of expiresAt by what was cut off it.
ClaimClose == cachedClaim + Truncated >= cachedLife

\* A mint is in flight only while the cached token is within the buffer.
MintNeeded == tokenMu # NoRequester => cachedLife <= RefreshBuffer

TokenIInv ==
  /\ TokenTypeOK /\ MintNeeded /\ ClaimClose
  /\ \A c \in Requesters : Carried(c)

\* A step of one goroutine keeps what it does not touch.
LEMMA HoldsStep ==
  ASSUME TokenIInv, NEW c \in Requesters, NEW s \in States,
         NEW n \in 0..TokenTTL, Holds(c, s, n),
         tokenMu' \in Requesters \cup {NoRequester},
         \A d \in Requesters \ {c} : tokenMu' = d <=> tokenMu = d,
         tokenMu' = c <=> s \in {"asking", "receiving"},
         cachedLife' \in 0..TokenTTL, cachedClaim' \in 0..TokenTTL,
         MintNeeded', ClaimClose',
         s = "receiving" => n = TokenTTL,
         s = "calling" => n > RefreshBuffer - Truncated
  PROVE  TokenIInv'
<1> USE ServiceTokenAssumption
<1>1. /\ tokenPc' = [tokenPc EXCEPT ![c] = s]
      /\ heldLife' = [heldLife EXCEPT ![c] = n]
      /\ heldFor' = [heldFor EXCEPT ![c] = 0]
  BY Zenon DEF Holds
<1>2. /\ tokenPc' \in [Requesters -> States]
      /\ heldLife' \in [Requesters -> 0..TokenTTL]
      /\ heldFor' \in [Requesters -> Nat]
  BY <1>1, Zenon DEF TokenIInv, TokenTypeOK, States
<1>3. /\ tokenPc'[c] = s /\ heldLife'[c] = n /\ heldFor'[c] = 0
      /\ \A d \in Requesters \ {c} :
           /\ tokenPc'[d] = tokenPc[d] /\ heldLife'[d] = heldLife[d]
           /\ heldFor'[d] = heldFor[d]
  BY <1>1, Zenon DEF TokenIInv, TokenTypeOK
<1>4. \A d \in Requesters : tokenMu' = d <=> Minting(d)'
  BY <1>3 DEF TokenIInv, TokenTypeOK, Minting
<1>5. \A d \in Requesters : Carried(d)'
  <2>1. Carried(c)'
    BY <1>3 DEF Carried
  <2>2. \A d \in Requesters \ {c} : Carried(d)'
    BY <1>3, Zenon DEF Carried, TokenIInv
  <2> QED
    BY <2>1, <2>2, Zenon
<1> QED
  BY <1>2, <1>4, <1>5, Zenon DEF TokenIInv, TokenTypeOK, States

\* Token and its callers keep the invariant.
LEMMA RequesterStep ==
  ASSUME TokenIInv, NEW c \in Requesters,
         \/ TokenCall(c) \/ TokenCached(c) \/ MintBegins(c) \/ MintIssues(c)
         \/ MintFails(c) \/ MintReturns(c) \/ TokenCallEnds(c)
  PROVE  TokenIInv'
<1> USE ServiceTokenAssumption
     DEF TokenIInv, TokenTypeOK, Minting, States, cachedVars, ClaimClose
<1>1. CASE TokenCall(c)
  <2>1. UNCHANGED <<tokenMu, cachedVars>> /\ Holds(c, "locking", 0)
        /\ tokenMu # c
    BY <1>1, Zenon DEF TokenCall
  <2> QED
    BY <2>1, HoldsStep DEF MintNeeded
<1>2. CASE TokenCached(c)
  <2>1. UNCHANGED <<tokenMu, cachedVars>> /\ Holds(c, "calling", cachedClaim)
        /\ tokenMu # c /\ cachedLife > RefreshBuffer
    BY <1>2, Zenon DEF TokenCached, CacheUsable
  <2>2. cachedClaim > RefreshBuffer - Truncated
    BY <2>1
  <2> QED
    BY <2>1, <2>2, HoldsStep, Zenon DEF MintNeeded
<1>3. CASE MintBegins(c)
  <2>1. tokenMu = NoRequester /\ tokenMu' = c /\ UNCHANGED cachedVars
        /\ cachedLife <= RefreshBuffer /\ Holds(c, "asking", 0)
    BY <1>3 DEF MintBegins, MintLocks, CacheUsable
  <2> QED
    BY <2>1, HoldsStep DEF MintNeeded
<1>4. CASE MintIssues(c)
  <2>1. UNCHANGED <<tokenMu, cachedVars>> /\ Holds(c, "receiving", TokenTTL)
        /\ tokenMu = c
    BY <1>4, Zenon DEF MintIssues
  <2> QED
    BY <2>1, HoldsStep DEF MintNeeded
<1>5. CASE MintFails(c)
  <2>1. tokenMu' = NoRequester /\ UNCHANGED cachedVars
        /\ Holds(c, "idle", 0) /\ tokenMu = c
    BY <1>5, Zenon DEF MintFails, MintUnlocks
  <2> QED
    BY <2>1, HoldsStep DEF MintNeeded
<1>6. CASE MintReturns(c)
  <2>1. PICK cut \in 0..Truncated :
          /\ cachedLife' = heldLife[c] /\ cachedClaim' = heldLife[c] - cut
          /\ Holds(c, "calling", heldLife[c] - cut)
    BY <1>6, Zenon DEF MintReturns
  <2>2. tokenMu' = NoRequester /\ tokenMu = c
    BY <1>6, Zenon DEF MintReturns
  <2>3. heldLife[c] \in 0..TokenTTL /\ heldLife[c] > RefreshBuffer
    BY <1>6 DEF MintReturns, Carried
  <2>4. /\ heldLife[c] - cut \in 0..TokenTTL
        /\ heldLife[c] - cut > RefreshBuffer - Truncated
        /\ ClaimClose' /\ MintNeeded'
    BY <2>1, <2>2, <2>3 DEF MintNeeded
  <2> QED
    BY <2>1, <2>2, <2>3, <2>4, HoldsStep, Zenon
<1>7. CASE TokenCallEnds(c)
  <2>1. UNCHANGED <<tokenMu, cachedVars>> /\ Holds(c, "idle", 0)
        /\ tokenMu # c
    BY <1>7, Zenon DEF TokenCallEnds
  <2> QED
    BY <2>1, HoldsStep DEF MintNeeded
<1> QED
  BY <1>1, <1>2, <1>3, <1>4, <1>5, <1>6, <1>7, Zenon

\* Time keeps the invariant: what a token loses, its holder has held it longer.
LEMMA TokenTickStep == ASSUME TokenIInv, TokenTick PROVE TokenIInv'
<1> USE ServiceTokenAssumption
<1>1. tokenMu' = tokenMu /\ tokenPc' = tokenPc
  BY Zenon DEF TokenTick
<1>2. /\ cachedLife' \in 0..TokenTTL /\ cachedLife' <= cachedLife
      /\ cachedClaim' \in 0..TokenTTL /\ ClaimClose'
  BY DEF TokenTick, TokenIInv, TokenTypeOK, ClaimClose
<1>3. /\ heldLife' \in [Requesters -> 0..TokenTTL]
      /\ heldFor' \in [Requesters -> Nat]
  BY DEF TokenTick, TokenIInv, TokenTypeOK
<1>4. \A c \in Requesters : Carried(c)'
  <2> SUFFICES ASSUME NEW c \in Requesters PROVE Carried(c)'
    BY Zenon
  <2>1. /\ heldLife[c] \in 0..TokenTTL /\ heldFor[c] \in Nat
        /\ heldLife'[c] = IF heldLife[c] > 0 THEN heldLife[c] - 1 ELSE 0
        /\ tokenPc[c] \in {"calling", "receiving"} =>
             heldFor'[c] = heldFor[c] + 1
    BY Zenon DEF TokenTick, TokenIInv, TokenTypeOK
  <2>2. /\ tokenPc[c] = "calling" => heldFor[c] < RefreshBuffer - Truncated
        /\ tokenPc[c] = "receiving" => heldFor[c] < MintDelay
    BY Zenon DEF TokenTick
  <2> QED
    BY <1>1, <2>1, <2>2 DEF Carried, TokenIInv
<1>5. (\A c \in Requesters : tokenMu = c <=> Minting(c))'
  BY <1>1, Zenon DEF TokenIInv, TokenTypeOK, Minting
<1> QED
  BY <1>1, <1>2, <1>3, <1>4, <1>5 DEF TokenIInv, TokenTypeOK, MintNeeded

\* The invariant is inductive.
LEMMA TokenInductive == TokenSpec => []TokenIInv
<1>1. TokenInit => TokenIInv
  BY ServiceTokenAssumption
     DEF TokenInit, TokenIInv, TokenTypeOK, Minting, MintNeeded, ClaimClose, Carried
<1>2. TokenIInv /\ [TokenNext]_tokenVars => TokenIInv'
  <2>1. ASSUME TokenIInv, TokenNext PROVE TokenIInv'
    BY <2>1, RequesterStep, TokenTickStep, Zenon DEF TokenNext
  <2>2. ASSUME TokenIInv, UNCHANGED tokenVars PROVE TokenIInv'
    BY <2>2, Zenon DEF tokenVars, TokenIInv, TokenTypeOK, Minting, MintNeeded,
                       ClaimClose, Carried
  <2> QED
    BY <2>1, <2>2, Zenon
<1> QED
  BY <1>1, <1>2, PTL DEF TokenSpec

\* A goroutine is in Mint exactly while it holds p.mu (Token).
THEOREM TokenTypeCorrect == TokenSpec => []TokenTypeOK
<1>1. TokenIInv => TokenTypeOK
  BY Zenon DEF TokenIInv
<1> QED
  BY <1>1, TokenInductive, PTL

\* However many goroutines find the token missing together, one mints, and only
\* while the cached token is within the buffer (Token).
THEOREM OneMint == TokenSpec => []MintsShared
<1>1. TokenIInv => MintsShared
  BY ServiceTokenAssumption
     DEF TokenIInv, TokenTypeOK, MintsShared, MintNeeded, Minting
<1> QED
  BY <1>1, TokenInductive, PTL

\* A token Token returned is not expired RefreshBuffer less Truncated later, for
\* every buffer and every issuer whose lifetime exceeds buffer and delay (Token,
\* InjectAuth, NewNumericDate in buildClaims).
THEOREM TokenSurvivesCall == TokenSpec => []TokenOutlivesCall
<1>1. TokenIInv => TokenOutlivesCall
  BY ServiceTokenAssumption DEF TokenIInv, TokenTypeOK, Carried, TokenOutlivesCall
<1> QED
  BY <1>1, TokenInductive, PTL

-----------------------------------------------------------------------------
(* Webhook: any addresses, any CIDRs, any limit.                             *)

\* Each guard of the chain keeps HookInv.
LEMMA HookInductive ==
  ASSUME HookInv, [HookNext]_hookVars PROVE HookInv'
<1>1. CASE UNCHANGED hookVars
  BY <1>1, Zenon DEF HookInv, HandlerReadsSigned, hookVars
<1>2. CASE IPAllowlistMiddleware
  BY <1>2, Zenon DEF IPAllowlistMiddleware, HookInv, HandlerReadsSigned
<1>3. CASE HMACSignatureMiddleware
  <2>1. hook' = hook /\ hook \in HookRequests /\ unread = hook.body
        /\ hookPc' \notin {"allowlist", "hmac"}
    BY <1>3, Zenon DEF HMACSignatureMiddleware, HookInv, AbortWith
  <2>2. hook.body \in Nat
    BY <2>1, WebhookAssumption DEF HookRequests, Bodies
  <2>3. hookPc' = "handler" =>
          /\ unread' = hook.body /\ restored'
          /\ hook.signature = [kind |-> "made", of |-> hook.body]
    BY <1>3, <2>1, <2>2, WebhookAssumption
       DEF HMACSignatureMiddleware, LimitReader, AbortWith
  <2> QED
    BY <2>1, <2>3, Zenon DEF HookInv, HandlerReadsSigned
<1> QED
  BY <1>1, <1>2, <1>3, Zenon DEF HookNext

\* The handler reads the whole body that was sent and signed, for every body and
\* limit (HMACSignatureMiddleware).
THEOREM HandlerGuarded == HookSpec => []HandlerReadsSigned
<1>1. HookInit => HookInv
  BY Zenon DEF HookInit, HookInv, HandlerReadsSigned
<1>2. HookInv => HandlerReadsSigned
  BY Zenon DEF HookInv
<1> QED
  BY <1>1, <1>2, HookInductive, PTL DEF HookSpec

-----------------------------------------------------------------------------
(* CSRF: any number of tabs and tokens, any expiry.                          *)

\* The token stored is the latest at every step of browser and middleware.
LEMMA CSRFInductive ==
  ASSUME CSRFInv, [CSRFNext]_csrfVars PROVE CSRFInv'
<1> USE DEF CSRFInv, Goto
<1>1. CASE UNCHANGED csrfVars
  BY <1>1, Zenon DEF csrfVars
<1>2. CASE LogIn \/ CSRFTick
  BY <1>2 DEF LogIn, CSRFTick
<1>3. CASE \E t \in Tabs : Load(t) \/ Wish(t) \/ Write(t) \/ Reload(t) \/ Loaded(t)
  BY <1>3, Zenon DEF Load, Wish, Write, Reload, Loaded
<1>4. CASE \E t \in Tabs : ServeRead(t)
  BY <1>4, Zenon DEF ServeRead, StoreSet
<1>5. CASE \E t \in Tabs : ServeExempt(t) \/ ServeWrite(t)
  BY <1>5, Zenon DEF ServeExempt, ServeWrite
<1> QED
  BY <1>1, <1>2, <1>3, <1>4, <1>5, Zenon DEF CSRFNext

\* Only the acceptance of a write takes a tab from writing to idle; unless the
\* write is exempt, it was compared with the latest token.
LEMMA WriteAccepted ==
  ASSUME CSRFInv, [CSRFNext]_csrfVars, NEW t \in Tabs, session,
         ~carried[t].exempt, tabPc[t] = "writing", tabPc'[t] = "idle"
  PROVE  carried[t].header = current /\ current # NoToken
<1>1. ~(UNCHANGED csrfVars) /\ ~LogIn /\ ~CSRFTick
  BY Zenon DEF csrfVars, LogIn, CSRFTick
<1>2. ASSUME NEW u \in Tabs,
             Load(u) \/ Wish(u) \/ Write(u) \/ Reload(u) \/ Loaded(u) \/ ServeRead(u)
      PROVE  FALSE
  BY <1>2, Zenon DEF CSRFInv, Goto, Load, Wish, Write, Reload, Loaded, ServeRead
<1>3. PICK u \in Tabs : ServeExempt(u) \/ ServeWrite(u)
  BY <1>1, <1>2, Zenon DEF CSRFNext
<1>4. u = t /\ ServeWrite(u)
  BY <1>3, Zenon DEF CSRFInv, ServeExempt, ServeWrite, Goto
<1>5. stored # NoToken /\ ValidateCSRFToken(carried[t])
  BY <1>4, Zenon DEF CSRFInv, ServeWrite, Goto
<1> QED
  BY <1>5, Zenon DEF CSRFInv, ValidateCSRFToken

\* A write of a session that the middleware does not exempt is accepted only
\* with the latest unexpired token, for any number of tabs, tokens and
\* reordered responses (CSRFMiddleware, validateCSRFToken).
THEOREM AcceptedCurrent == CSRFSpec => AcceptedIsCurrent
<1>1. CSRFInit => CSRFInv
  BY Zenon DEF CSRFInit, CSRFInv
<1>2. ASSUME CSRFInv, [CSRFNext]_csrfVars
      PROVE  [\A t \in Tabs :
                (/\ session /\ ~carried[t].exempt
                 /\ tabPc[t] = "writing" /\ tabPc'[t] = "idle")
                  => carried[t].header = current /\ current # NoToken]_csrfVars
  BY <1>2, WriteAccepted, Zenon
<1> QED
  BY <1>1, <1>2, CSRFInductive, PTL DEF CSRFSpec, AcceptedIsCurrent

-----------------------------------------------------------------------------
(* Sessions: any users, organizations, services and lifetimes.               *)

\* The claims of a new pair: typed, new, and the app context they were given,
\* encoded and decoded (buildClaims, the orgs claim).
LEMMA NewPair ==
  ASSUME NEW alg \in {"HS256", "RS256"}, NEW u \in Users \cup {Service},
         NEW app \in AppContexts, NEW login \in AppContexts
  PROVE  LET pair == BuildClaims(alg, u, app, login) IN
         /\ pair \in Pairs
         /\ pair.alg = alg /\ pair.user = u /\ pair.age = 0
         /\ pair.roles = app.roles /\ pair.org = app.org /\ pair.login = login
         /\ UnmarshalOrgs(pair.orgs) = app.orgs
<1> DEFINE pair == BuildClaims(alg, u, app, login)
<1>1. app.org \in Orgs \cup {NoOrg} /\ app.orgs \in (SUBSET Orgs) \cup {Nil}
      /\ app.roles \in SUBSET {"admin"}
  BY Zenon DEF AppContexts
<1>2. MarshalOrgs(app.orgs) \in [json : {"null", "array"}, orgs : SUBSET Orgs]
      /\ UnmarshalOrgs(MarshalOrgs(app.orgs)) = app.orgs
  <2>1. CASE app.orgs = Nil
    <3>1. MarshalOrgs(app.orgs) = [json |-> "null", orgs |-> {}]
      BY <2>1, Zenon DEF MarshalOrgs
    <3> QED
      BY <2>1, <3>1 DEF UnmarshalOrgs
  <2>2. CASE app.orgs # Nil
    <3>1. app.orgs \in SUBSET Orgs
          /\ MarshalOrgs(app.orgs) = [json |-> "array", orgs |-> app.orgs]
      BY <1>1, <2>2, Zenon DEF MarshalOrgs
    <3> QED
      BY <3>1 DEF UnmarshalOrgs
  <2> QED
    BY <2>1, <2>2, Zenon
<1>3. /\ pair.alg = alg /\ pair.user = u /\ pair.age = 0
      /\ pair.roles = app.roles /\ pair.org = app.org /\ pair.login = login
      /\ pair.orgs = MarshalOrgs(app.orgs)
  BY Zenon DEF BuildClaims
<1>4. pair \in Pairs
  <2> DEFINE U == Users \cup {Service}
             O == Orgs \cup {NoOrg}
             M == [json : {"null", "array"}, orgs : SUBSET Orgs]
             R == SUBSET {"admin"}
             m == MarshalOrgs(app.orgs)
  <2>1. u \in U /\ app.org \in O /\ m \in M /\ app.roles \in R
    BY <1>1, <1>2, Zenon
  <2>2. pair = [alg |-> alg, user |-> u, org |-> app.org, orgs |-> m,
                roles |-> app.roles, age |-> 0, login |-> login]
    BY Zenon DEF BuildClaims
  <2>3. Pairs = [alg : {"HS256", "RS256"}, user : U, org : O, orgs : M,
                 roles : R, age : Nat, login : AppContexts]
    BY Zenon DEF Pairs
  <2> HIDE DEF U, O, M, R, m
  <2> QED
    BY <2>1, <2>2, <2>3
<1> QED
  BY <1>2, <1>3, <1>4, Zenon

\* Issuing a pair keeps the invariant if the app context is the login's but for
\* the roles, and names a role only for who holds it.
LEMMA IssueInv ==
  ASSUME SessionsInv, NEW u \in Users \cup {Service}, NEW app \in AppContexts,
         NEW login \in AppContexts, Issue(u, app, login),
         app.org = login.org, app.orgs = login.orgs,
         app.roles # {} => u \in admin
  PROVE  SessionsInv'
<1> DEFINE new == BuildClaims(IF signRS256 THEN "RS256" ELSE "HS256", u, app, login)
<1>1. /\ pairs' = pairs \cup {new}
      /\ UNCHANGED <<signRS256, verifier, admin, member, sinceAdmin>>
  BY Zenon DEF Issue, SignerPair, ManagerPair
<1>2. /\ new \in Pairs /\ new.alg = IF signRS256 THEN "RS256" ELSE "HS256"
      /\ new.user = u /\ new.roles = app.roles /\ new.org = app.org
      /\ new.login = login /\ UnmarshalOrgs(new.orgs) = app.orgs
  BY NewPair
<1> HIDE DEF new
<1>3. SessionsTypeOK'
  BY <1>1, <1>2, Zenon DEF SessionsInv, SessionsTypeOK
<1>4. ASSUME NEW pair \in pairs' PROVE RolesRecent(pair)' /\ ClaimsKept(pair)'
  <2>1. CASE pair \in pairs
    BY <1>1, <2>1, Zenon DEF SessionsInv, RolesRecent, ClaimsKept
  <2>2. CASE pair = new
    BY <1>1, <1>2, <2>2, Zenon DEF SessionsInv, SessionsTypeOK, RolesRecent, ClaimsKept
  <2> QED
    BY <1>1, <2>1, <2>2, Zenon
<1>5. ASSUME NEW v \in Verifiers PROVE MigrationPhase(v)'
  BY <1>1, <1>2, Zenon DEF SessionsInv, MigrationPhase
<1> QED
  BY <1>3, <1>4, <1>5, Zenon DEF SessionsInv

\* A refresh passes the claims of the login on, without the roles.
LEMMA RenewInv ==
  ASSUME SessionsInv, NEW pair \in pairs, Renew(pair) PROVE SessionsInv'
<1> DEFINE c == Claims(pair, "refresh")
<1>1. pair \in Pairs /\ ClaimsKept(pair)
  BY Zenon DEF SessionsInv, SessionsTypeOK
<1>2. pair.user \in Users \cup {Service} /\ pair.login \in AppContexts
  BY <1>1, Zenon DEF Pairs
<1>3. c.user = pair.user /\ c.org = pair.login.org /\ c.orgs = pair.login.orgs
  BY <1>1, Zenon DEF Claims, ClaimsKept
<1>4. Issue(c.user, Renewed(c), pair.login)
  BY Zenon DEF Renew
<1> HIDE DEF c
<1>5. Renewed(c) = [org |-> pair.login.org, orgs |-> pair.login.orgs, roles |-> {}]
  BY <1>3, Zenon DEF Renewed, AppContext
<1>6. Renewed(c) \in AppContexts
  BY <1>2, <1>5 DEF AppContexts
<1> QED
  BY <1>2, <1>3, <1>4, <1>5, <1>6, IssueInv, Zenon

\* A service changes its verifier without leaving the order of the migration.
LEMMA SetVerifierInv ==
  ASSUME SessionsInv, NEW v \in Verifiers, NEW w, SetVerifier(v, w),
         w \in [jwks : BOOLEAN, hs256 : BOOLEAN, keys : BOOLEAN],
         w.jwks, ~w.hs256 => ~verifier[v].hs256 \/ NoHS256Left
  PROVE  SessionsInv'
<1>1. /\ verifier' = [verifier EXCEPT ![v] = w]
      /\ UNCHANGED <<pairs, signRS256, admin, member, sinceAdmin>>
  BY Zenon DEF SetVerifier
<1>2. SessionsTypeOK'
  BY <1>1, Zenon DEF SessionsInv, SessionsTypeOK
<1>3. ASSUME NEW pair \in pairs' PROVE RolesRecent(pair)' /\ ClaimsKept(pair)'
  BY <1>1, Zenon DEF SessionsInv, RolesRecent, ClaimsKept
<1>4. ASSUME NEW u \in Verifiers, u # v PROVE MigrationPhase(u)'
  BY <1>1, <1>4, Zenon DEF SessionsInv, SessionsTypeOK, MigrationPhase
<1>5. MigrationPhase(v)'
  <2>1. verifier'[v] = w
    BY <1>1, Zenon DEF SessionsInv, SessionsTypeOK
  <2>2. NoHS256Left =>
          signRS256 /\ \A pair \in pairs : pair.alg = "HS256" => pair.age >= AccessTTL
    <3>1. \A pair \in pairs : pair.age \in Nat
      BY Zenon DEF SessionsInv, SessionsTypeOK, Pairs
    <3> QED
      BY <3>1, SessionsAssumption DEF NoHS256Left, Unexpired, TTL
  <2> QED
    BY <1>1, <2>1, <2>2, Zenon DEF SessionsInv, MigrationPhase
<1> QED
  BY <1>2, <1>3, <1>4, <1>5, Zenon DEF SessionsInv

\* Deploying a verifier follows the order of the migration (NewVerifier,
\* NewLocalRS256Verifier and the steps of the migration's documentation).
LEMMA DeployInv ==
  ASSUME SessionsInv, NEW v \in Verifiers, NEW accept \in BOOLEAN,
         Deploy(v, accept), ~accept => NoHS256Left
  PROVE  SessionsInv'
<1>1. PICK w : /\ SetVerifier(v, w)
               /\ \E keys \in BOOLEAN :
                    w = [jwks |-> TRUE, hs256 |-> accept, keys |-> keys]
  BY Zenon DEF Deploy, NewLocalRS256Verifier, NewValidator
<1>2. w \in [jwks : BOOLEAN, hs256 : BOOLEAN, keys : BOOLEAN]
      /\ w.jwks /\ w.hs256 = accept
  BY <1>1
<1> QED
  BY <1>1, <1>2, SetVerifierInv, Zenon

\* As time passes a token ages at least as fast as its role is forgotten.
LEMMA AuthTickInv ==
  ASSUME SessionsInv, AuthTick PROVE SessionsInv'
<1>1. /\ pairs' = {[pair EXCEPT !.age = @ + 1] :
                     pair \in {p \in pairs : p.age + 1 < RefreshTTL}}
      /\ UNCHANGED <<signRS256, verifier, admin, member>>
  BY Zenon DEF AuthTick
<1>2. ASSUME NEW u \in Users
      PROVE  /\ sinceAdmin'[u] \in 0..AccessTTL
             /\ sinceAdmin'[u] <= sinceAdmin[u] + 1
  BY SessionsAssumption DEF AuthTick, SessionsInv, SessionsTypeOK
<1>3. ASSUME NEW new \in pairs'
      PROVE  \E pair \in pairs :
               /\ pair \in Pairs /\ pair.age \in Nat
               /\ new = [pair EXCEPT !.age = pair.age + 1]
  <2>1. PICK pair \in pairs : new = [pair EXCEPT !.age = pair.age + 1]
    BY <1>1, Zenon
  <2>2. pair \in Pairs
    BY Zenon DEF SessionsInv, SessionsTypeOK
  <2>3. pair.age \in Nat
    BY <2>2, Zenon DEF Pairs
  <2> QED
    BY <2>1, <2>2, <2>3, Zenon
<1>4. ASSUME NEW new \in pairs', NEW pair \in pairs, pair \in Pairs,
             pair.age \in Nat, new = [pair EXCEPT !.age = pair.age + 1]
      PROVE  /\ new \in Pairs /\ new.age = pair.age + 1 /\ new.alg = pair.alg
             /\ new.user = pair.user /\ new.roles = pair.roles
             /\ new.org = pair.org /\ new.orgs = pair.orgs
             /\ new.login = pair.login
  BY <1>4 DEF Pairs
<1>5. SessionsTypeOK'
  <2>1. pairs' \subseteq Pairs
    BY <1>3, <1>4, Zenon
  <2>2. sinceAdmin' \in [Users -> 0..AccessTTL]
    BY <1>2, Zenon DEF AuthTick
  <2> QED
    BY <1>1, <2>1, <2>2, Zenon DEF SessionsInv, SessionsTypeOK
<1>6. ASSUME NEW new \in pairs' PROVE RolesRecent(new)' /\ ClaimsKept(new)'
  <2>1. PICK pair \in pairs :
          /\ new.age = pair.age + 1 /\ pair.age \in Nat
          /\ new.user = pair.user /\ new.roles = pair.roles
          /\ new.org = pair.org /\ new.orgs = pair.orgs /\ new.login = pair.login
    BY <1>3, <1>4, Zenon
  <2>2. RolesRecent(pair) /\ ClaimsKept(pair)
    BY Zenon DEF SessionsInv
  <2>3. \A u \in Users : sinceAdmin[u] \in Nat
    BY SessionsAssumption DEF SessionsInv, SessionsTypeOK
  <2>4. RolesRecent(new)'
    BY <1>1, <1>2, <2>1, <2>2, <2>3, SessionsAssumption DEF RolesRecent
  <2> QED
    BY <2>1, <2>2, <2>4, Zenon DEF ClaimsKept
<1>7. ASSUME NEW v \in Verifiers PROVE MigrationPhase(v)'
  <2>1. \A new \in pairs' : \E pair \in pairs :
          new.age = pair.age + 1 /\ pair.age \in Nat /\ new.alg = pair.alg
    BY <1>3, <1>4, Zenon
  <2> QED
    BY <1>1, <2>1, SessionsAssumption DEF SessionsInv, MigrationPhase
<1> QED
  BY <1>5, <1>6, <1>7, Zenon DEF SessionsInv

\* A role that is given or taken is held now or was just now.
LEMMA RoleChangesInv ==
  ASSUME SessionsInv, NEW u \in Users, RoleChanges(u) PROVE SessionsInv'
<1>1. UNCHANGED <<pairs, signRS256, verifier, member>>
  BY Zenon DEF RoleChanges, Changes
<1>2. admin' \subseteq Users /\ \A a \in Users \ {u} : a \in admin' <=> a \in admin
  BY Zenon DEF RoleChanges, SessionsInv, SessionsTypeOK
<1>3. sinceAdmin' = [sinceAdmin EXCEPT ![u] = 0]
  BY Zenon DEF RoleChanges
<1>4. SessionsTypeOK'
  BY <1>1, <1>2, <1>3, SessionsAssumption DEF SessionsInv, SessionsTypeOK
<1>5. ASSUME NEW pair \in pairs' PROVE RolesRecent(pair)' /\ ClaimsKept(pair)'
  <2>1. pair.age \in Nat /\ RolesRecent(pair) /\ ClaimsKept(pair)
    BY <1>1, Zenon DEF SessionsInv, SessionsTypeOK, Pairs
  <2> QED
    BY <1>1, <1>2, <1>3, <2>1 DEF SessionsInv, SessionsTypeOK, RolesRecent, ClaimsKept
<1>6. ASSUME NEW v \in Verifiers PROVE MigrationPhase(v)'
  BY <1>1, Zenon DEF SessionsInv, MigrationPhase
<1> QED
  BY <1>4, <1>5, <1>6, Zenon DEF SessionsInv

\* The services start with Managers, and nothing has been issued.
LEMMA SessionsInitInv ==
  ASSUME SessionsInit PROVE SessionsInv
<1>1. verifier = [v \in Verifiers |->
                    IF v = Issuer THEN [jwks |-> TRUE, hs256 |-> TRUE, keys |-> TRUE]
                    ELSE [jwks |-> FALSE, hs256 |-> TRUE, keys |-> FALSE]]
  BY Zenon DEF SessionsInit, NewLocalRS256Verifier, NewManager
<1>2. sinceAdmin \in [Users -> 0..AccessTTL]
  BY SessionsAssumption DEF SessionsInit
<1>3. SessionsTypeOK
  BY <1>1, <1>2, Zenon DEF SessionsInit, SessionsTypeOK
<1>4. ASSUME NEW v \in Verifiers PROVE MigrationPhase(v)
  BY <1>1, Zenon DEF MigrationPhase
<1> QED
  BY <1>3, <1>4, Zenon DEF SessionsInit, SessionsInv

\* Every step of users, services and operators keeps the invariant.
LEMMA SessionsInductive ==
  ASSUME SessionsInv, [SessionsNext]_authVars PROVE SessionsInv'
<1>1. CASE UNCHANGED authVars
  <2>1. SessionsTypeOK'
    BY <1>1, Zenon DEF authVars, SessionsInv, SessionsTypeOK
  <2>2. \A pair \in pairs' : RolesRecent(pair)' /\ ClaimsKept(pair)'
    BY <1>1, Zenon DEF authVars, SessionsInv, RolesRecent, ClaimsKept
  <2>3. \A v \in Verifiers : MigrationPhase(v)'
    BY <1>1, Zenon DEF authVars, SessionsInv, MigrationPhase
  <2> QED
    BY <2>1, <2>2, <2>3, Zenon DEF SessionsInv
<1>2. ASSUME NEW u \in Users, Login(u) PROVE SessionsInv'
  <2>1. PICK orgs \in {Nil, member[u]}, org \in member[u] \cup {NoOrg} :
          LET app == AppContext(org, orgs, IF u \in admin THEN {"admin"} ELSE {})
          IN Issue(u, app, app)
    BY <1>2, Zenon DEF Login
  <2> DEFINE app == AppContext(org, orgs, IF u \in admin THEN {"admin"} ELSE {})
  <2>2. orgs \in (SUBSET Orgs) \cup {Nil} /\ org \in Orgs \cup {NoOrg}
    BY Zenon DEF SessionsInv, SessionsTypeOK
  <2>3. app \in AppContexts /\ (app.roles # {} => u \in admin)
    BY <2>2, Zenon DEF AppContext, AppContexts
  <2> HIDE DEF app
  <2>4. Issue(u, app, app)
    BY <2>1, Zenon DEF app
  <2> QED
    BY <2>3, <2>4, IssueInv, Zenon
<1>3. ASSUME NEW u \in Users, MembershipChanges(u) PROVE SessionsInv'
  <2>1. UNCHANGED <<pairs, signRS256, verifier, admin, sinceAdmin>>
        /\ member' \in [Users -> SUBSET Orgs]
    BY <1>3, Zenon DEF MembershipChanges, Changes, SessionsInv, SessionsTypeOK
  <2>2. SessionsTypeOK'
    BY <2>1, Zenon DEF SessionsInv, SessionsTypeOK
  <2>3. \A pair \in pairs' : RolesRecent(pair)' /\ ClaimsKept(pair)'
    BY <2>1, Zenon DEF SessionsInv, RolesRecent, ClaimsKept
  <2>4. \A v \in Verifiers : MigrationPhase(v)'
    BY <2>1, Zenon DEF SessionsInv, MigrationPhase
  <2> QED
    BY <2>2, <2>3, <2>4, Zenon DEF SessionsInv
<1>4. CASE IssueServiceToken
  <2> DEFINE app == AppContext(NoOrg, Nil, {})
  <2>1. app \in AppContexts /\ app.roles = {} /\ Issue(Service, app, app)
    BY <1>4, Zenon DEF IssueServiceToken, AppContext, AppContexts
  <2> HIDE DEF app
  <2> QED
    BY <2>1, IssueInv, Zenon
<1>5. ASSUME NEW pair \in pairs, ManagerRefresh(pair) \/ SignerRefresh(pair)
      PROVE  SessionsInv'
  BY <1>5, RenewInv, Zenon DEF ManagerRefresh, SignerRefresh
<1>6. ASSUME NEW v \in Verifiers, StartDualAccept(v) \/ RetireHS256(v)
      PROVE  SessionsInv'
  BY <1>6, DeployInv, Zenon DEF StartDualAccept, RetireHS256
<1>7. ASSUME NEW v \in Verifiers, KeysRefreshed(v) PROVE SessionsInv'
  <2> DEFINE w == [verifier[v] EXCEPT !.keys = TRUE]
  <2>1. w \in [jwks : BOOLEAN, hs256 : BOOLEAN, keys : BOOLEAN]
        /\ w.jwks = verifier[v].jwks /\ w.hs256 = verifier[v].hs256
    BY Zenon DEF SessionsInv, SessionsTypeOK
  <2>2. SetVerifier(v, w) /\ w.jwks
    BY <1>7, <2>1, Zenon DEF KeysRefreshed
  <2> HIDE DEF w
  <2> QED
    BY <2>1, <2>2, SetVerifierInv, Zenon
<1>8. CASE Cutover
  <2>1. SessionsTypeOK'
    BY <1>8, Zenon DEF Cutover, SessionsInv, SessionsTypeOK
  <2>2. \A pair \in pairs' : RolesRecent(pair)' /\ ClaimsKept(pair)'
    BY <1>8, Zenon DEF Cutover, SessionsInv, RolesRecent, ClaimsKept
  <2>3. \A v \in Verifiers : MigrationPhase(v)'
    BY <1>8, Zenon DEF Cutover, SessionsInv, MigrationPhase
  <2> QED
    BY <2>1, <2>2, <2>3, Zenon DEF SessionsInv
<1> QED
  BY <1>1, <1>2, <1>3, <1>4, <1>5, <1>6, <1>7, <1>8, RoleChangesInv, AuthTickInv, Zenon
     DEF SessionsNext

\* The sessions keep their inductive invariant: roles are recent, organization
\* claims are those of the login, verifiers follow the migration.
THEOREM SessionsInvariance == SessionsSpec => []SessionsInv
BY SessionsInitInv, SessionsInductive, PTL DEF SessionsSpec

\* A token that a service accepts is an unexpired access token, and the context
\* gets its claims (ValidateAccessToken, AuthInterceptor).
LEMMA Authenticated ==
  ASSUME NEW v, NEW call, call.method # "skippedAdmin", NEW a
  PROVE  LET r == AuthInterceptor(v, call, a) IN
         /\ r.code = "next" <=> ValidateAccessToken(v, call.pair, call.kind)
         /\ r.code = "next" =>
              /\ call.kind = "access" /\ call.pair.age < AccessTTL
              /\ r.auth = AuthInfo(Claims(call.pair, "access"))
<1>1. ValidateAccessToken(v, call.pair, call.kind)
        => call.kind = "access" /\ call.pair.age < AccessTTL
  BY Zenon DEF ValidateAccessToken, Unexpired, TTL
<1>2. AuthInterceptor(v, call, a)
        = IF ValidateAccessToken(v, call.pair, call.kind)
          THEN Passes(AuthInfo(Claims(call.pair, call.kind)))
          ELSE Answers("Unauthenticated")
  BY Zenon DEF AuthInterceptor
<1> QED
  BY <1>1, <1>2 DEF Passes, Answers

\* adminrbac lets a call of an admin method pass only with an allowed role, and
\* passes the context on.
LEMMA RolesDemanded ==
  ASSUME NEW call, call.method # "plain", NEW a, AdminRBAC(call, a).code = "next"
  PROVE  a # NoAuth /\ a.roles # {} /\ AdminRBAC(call, a).auth = a
BY Zenon DEF AdminRBAC, Passes, Answers

\* The claims that the context of an accepted call carries.
LEMMA ContextClaims ==
  ASSUME NEW pair
  PROVE  LET a == AuthInfo(Claims(pair, "access")) IN
         /\ a.user = pair.user /\ a.org = pair.org
         /\ a.orgs = UnmarshalOrgs(pair.orgs) /\ a.roles = pair.roles
         /\ a # NoAuth
<1> DEFINE a == AuthInfo(Claims(pair, "access"))
<1>1. a = [user |-> pair.user, org |-> pair.org, orgs |-> UnmarshalOrgs(pair.orgs),
           roles |-> pair.roles]
  BY Zenon DEF AuthInfo, Claims
<1>2. "org" \in DOMAIN a /\ "org" \notin DOMAIN NoAuth
  BY <1>1, Zenon DEF NoAuth
<1> QED
  BY <1>1, <1>2

\* A role that a fresh access token names was held within its lifetime.
LEMMA RoleHeldLately ==
  ASSUME SessionsInv, NEW pair \in pairs, pair.age < AccessTTL, pair.roles # {}
  PROVE  /\ pair.user \in Users
         /\ pair.user \in admin \/ sinceAdmin[pair.user] < AccessTTL
<1>1. RolesRecent(pair) /\ pair.age \in Nat
  BY Zenon DEF SessionsInv, SessionsTypeOK, Pairs
<1>2. pair.user \in Users => sinceAdmin[pair.user] \in Nat
  BY SessionsAssumption DEF SessionsInv, SessionsTypeOK
<1> QED
  BY <1>1, <1>2, SessionsAssumption DEF RolesRecent

\* What the last two interceptors of the chain do with a call.
LEMMA AuthThenRBAC ==
  ASSUME SessionsInv, NEW v \in Verifiers,
         NEW call \in Presented({"admin", "skippedAdmin"}),
         LET r == AuthInterceptor(v, call, NoAuth) IN
           r.code = "next" /\ AdminRBAC(call, r.auth).code = "next"
  PROVE  LET u == AdminRBAC(call, AuthInterceptor(v, call, NoAuth).auth).auth.user
         IN  u \in Users /\ (u \in admin \/ sinceAdmin[u] < AccessTTL)
<1> DEFINE r == AuthInterceptor(v, call, NoAuth)
<1>1. call.pair \in pairs /\ call.method \in {"admin", "skippedAdmin"}
  BY Zenon DEF Presented
<1>2. call.method # "skippedAdmin"
  BY RolesDemanded, Zenon DEF AuthInterceptor, Passes
<1>3. r.auth = AuthInfo(Claims(call.pair, "access")) /\ call.pair.age < AccessTTL
  BY <1>2, Authenticated, Zenon
<1>4. r.auth.roles # {} /\ AdminRBAC(call, r.auth).auth = r.auth
  BY <1>1, RolesDemanded, Zenon
<1>5. r.auth.user = call.pair.user /\ call.pair.roles # {}
  BY <1>3, <1>4, ContextClaims, Zenon
<1> QED
  BY <1>1, <1>3, <1>4, <1>5, RoleHeldLately, Zenon

\* A call of an admin method that passes some chain of interceptors comes from
\* a user who holds the role or lately held it.
LEMMA ChainsDemandRoles ==
  ASSUME SessionsInv, NEW v \in Verifiers,
         NEW call \in Presented({"admin", "skippedAdmin"}), NEW chain \in Chains,
         Intercept(v, call, chain).code = "next"
  PROVE  LET u == Intercept(v, call, chain).auth.user
         IN  u \in Users /\ (u \in admin \/ sinceAdmin[u] < AccessTTL)
<1> DEFINE start == Passes(NoAuth)
           r == AuthInterceptor(v, call, NoAuth)
<1>1. start.code = "next" /\ start.auth = NoAuth
  BY Zenon DEF Passes
<1>2. call.pair \in pairs /\ call.method \in {"admin", "skippedAdmin"}
  BY Zenon DEF Presented
<1>3. AdminRBAC(call, NoAuth).code # "next"
  BY <1>2, Zenon DEF AdminRBAC, Answers
<1>4. /\ InterceptBy("base", v, call, start) = start
      /\ InterceptBy("auth", v, call, start) = r
      /\ InterceptBy("resolver", v, call, start) = start
  BY <1>1, Zenon DEF InterceptBy, ContextWithPlatformRoles
<1> HIDE DEF start, r
<1>5. CASE chain \in {<<"base", "auth", "rbac">>, <<"resolver", "auth", "rbac">>}
  <2>1. Intercept(v, call, chain) = InterceptBy("rbac", v, call, r)
    BY <1>4, <1>5 DEF Intercept, start
  <2>2. r.code = "next" /\ Intercept(v, call, chain) = AdminRBAC(call, r.auth)
    BY <2>1, Zenon DEF InterceptBy
  <2> QED
    BY <2>2, AuthThenRBAC, Zenon DEF r
<1>6. CASE chain = <<"base", "rbac", "auth">>
  <2>1. InterceptBy("rbac", v, call, start) = AdminRBAC(call, NoAuth)
    BY <1>1, Zenon DEF InterceptBy
  <2>2. Intercept(v, call, chain)
          = InterceptBy("auth", v, call, AdminRBAC(call, NoAuth))
    BY <1>4, <1>6, <2>1, Zenon DEF Intercept, start
  <2> QED
    BY <1>3, <2>2, Zenon DEF InterceptBy
<1>7. CASE chain = <<"auth", "resolver", "rbac">>
  <2> DEFINE s == InterceptBy("resolver", v, call, r)
  <2>1. Intercept(v, call, chain) = InterceptBy("rbac", v, call, s)
    BY <1>4, <1>7, Zenon DEF Intercept, start
  <2>2. s.code = "next" /\ Intercept(v, call, chain) = AdminRBAC(call, s.auth)
    BY <2>1, Zenon DEF InterceptBy
  <2>3. r.code = "next" /\ s = ContextWithPlatformRoles(call, r.auth)
    BY <2>2, Zenon DEF InterceptBy
  <2>4. s.auth # NoAuth /\ s.auth.roles # {}
        /\ Intercept(v, call, chain).auth = s.auth
    BY <1>2, <2>2, RolesDemanded
  <2>5. r.auth # NoAuth
    BY <2>3, <2>4 DEF ContextWithPlatformRoles, Passes
  <2>6. call.method # "skippedAdmin"
    BY <2>5, Zenon DEF r, AuthInterceptor, Passes
  <2>7. r.auth = AuthInfo(Claims(call.pair, "access"))
    BY <2>3, <2>6, Authenticated, Zenon DEF r
  <2>8. s.auth = [r.auth EXCEPT !.roles = IF r.auth.user \in admin THEN {"admin"}
                                          ELSE {}]
    BY <2>3, <2>5 DEF ContextWithPlatformRoles, Passes
  <2>9. s.auth.user \in admin
    BY <2>4, <2>7, <2>8, Zenon DEF AuthInfo
  <2> QED
    BY <2>4, <2>9, Zenon DEF SessionsInv, SessionsTypeOK
<1> QED
  BY <1>5, <1>6, <1>7, Zenon DEF Chains

\* No chain of interceptors, no refresh and no migration lets an admin call
\* through for a user who has not held the role for AccessTTL, for all users,
\* services and lifetimes.
THEOREM RolesBounded == SessionsSpec => []RoleBounded
<1>1. SessionsInv => RoleBounded
  BY ChainsDemandRoles, Zenon DEF RoleBounded
<1> QED
  BY <1>1, SessionsInvariance, PTL

\* The chain auth, rbac on a call of a plain method: authentication decides.
LEMMA PlainCall ==
  ASSUME NEW v \in Verifiers, NEW call \in Presented({"plain"})
  PROVE  LET r == Intercept(v, call, <<"base", "auth", "rbac">>) IN
         /\ call.pair \in pairs
         /\ r.code = "next" <=> ValidateAccessToken(v, call.pair, call.kind)
         /\ r.code = "next" => r.auth = AuthInfo(Claims(call.pair, "access"))
<1> DEFINE start == Passes(NoAuth)
           a == AuthInterceptor(v, call, NoAuth)
<1>1. start.code = "next" /\ start.auth = NoAuth
  BY Zenon DEF Passes
<1>2. call.pair \in pairs /\ call.method = "plain"
  BY Zenon DEF Presented
<1>3. /\ InterceptBy("base", v, call, start) = start
      /\ InterceptBy("auth", v, call, start) = a
  BY <1>1, Zenon DEF InterceptBy
<1> HIDE DEF start, a
<1>4. Intercept(v, call, <<"base", "auth", "rbac">>)
        = IF a.code = "next" THEN Passes(a.auth) ELSE a
  BY <1>2, <1>3 DEF Intercept, InterceptBy, AdminRBAC, start
<1>5. /\ a.code = "next" <=> ValidateAccessToken(v, call.pair, call.kind)
      /\ a.code = "next" => a.auth = AuthInfo(Claims(call.pair, "access"))
  BY <1>2, Authenticated, Zenon DEF a
<1> QED
  BY <1>2, <1>4, <1>5 DEF Passes

\* orgauth decides on every accepted call as on the app context of its login,
\* after any number of refreshes, for all organizations.
THEOREM OrgDecisionsKept == SessionsSpec => []OrgDecisionKept
<1>1. ASSUME SessionsInv PROVE OrgDecisionKept
  <2> SUFFICES ASSUME NEW v \in Verifiers, NEW call \in Presented({"plain"}),
                      NEW org \in Orgs \cup {NoOrg},
                      Intercept(v, call, <<"base", "auth", "rbac">>).code = "next"
               PROVE  LET a == Intercept(v, call, <<"base", "auth", "rbac">>).auth
                      IN  (EnforceOrgMatch(a, org) = "OK")
                            = MayAct(call.pair.user, call.pair.login, org)
    BY Zenon DEF OrgDecisionKept
  <2> DEFINE a == Intercept(v, call, <<"base", "auth", "rbac">>).auth
  <2>1. call.pair \in pairs /\ a = AuthInfo(Claims(call.pair, "access"))
    BY PlainCall, Zenon
  <2>2. ClaimsKept(call.pair)
    BY <1>1, <2>1, Zenon DEF SessionsInv
  <2>3. /\ a.user = call.pair.user /\ a.org = call.pair.login.org
        /\ a.orgs = call.pair.login.orgs /\ a # NoAuth
    BY <2>1, <2>2, ContextClaims DEF ClaimsKept
  <2> HIDE DEF a
  <2>4. EnforceOrgMatch(a, org) = "OK" <=>
          MayAct(call.pair.user, call.pair.login, org)
    BY <2>3, Zenon DEF EnforceOrgMatch, MayAct
  <2>5. MayAct(call.pair.user, call.pair.login, org) \in BOOLEAN
    BY Zenon DEF MayAct
  <2> QED
    BY <2>4, <2>5, Zenon DEF a
<1> QED
  BY <1>1, SessionsInvariance, PTL

\* No phase of the HS256 to RS256 migration locks a session out, for any number
\* of services deployed in any order.
THEOREM NobodyLockedOut == SessionsSpec => []NoLockout
<1>1. ASSUME SessionsInv PROVE NoLockout
  <2> SUFFICES ASSUME NEW v \in Verifiers, NEW call \in Presented({"plain"}),
                      call.kind = "access", Unexpired(call.pair, "access"),
                      call.pair.alg = "RS256" => verifier[v].keys
               PROVE  ValidateAccessToken(v, call.pair, call.kind)
    BY PlainCall, Zenon DEF NoLockout, ExtractUserID
  <2>1. call.pair \in pairs /\ call.pair \in Pairs
    BY <1>1, Zenon DEF Presented, SessionsInv, SessionsTypeOK
  <2>2. call.pair.alg \in {"HS256", "RS256"} /\ call.pair.age \in Nat
    BY <2>1, Zenon DEF Pairs
  <2>3. MigrationPhase(v)
    BY <1>1, Zenon DEF SessionsInv
  <2>4. call.pair.alg = "HS256" => verifier[v].hs256
    BY <2>1, <2>2, <2>3, SessionsAssumption DEF MigrationPhase, Unexpired, TTL
  <2>5. call.pair.alg = "RS256" => verifier[v].jwks
    BY <2>3, Zenon DEF MigrationPhase
  <2> QED
    BY <2>2, <2>4, <2>5, Zenon DEF ValidateAccessToken, ManagerParses, ValidatorParses,
                            ValidMethods, BuildKeyFunc
<1> QED
  BY <1>1, SessionsInvariance, PTL

=============================================================================
