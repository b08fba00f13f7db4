------------------------------ MODULE Sessions ------------------------------
(***************************************************************************)
(* Sessions from login to a handler: the issuer signs token pairs with a   *)
(* jwt.Manager (HS256) and, after the cutover, with a jwt.Signer (RS256);  *)
(* clients refresh them; services verify them with what NewVerifier built  *)
(* for their configuration; and the interceptors of the grpc packages, the *)
(* WebSocket authenticator and orgauth decide on the claims.  Roles and    *)
(* memberships change behind the tokens' back, services are redeployed one *)
(* by one along the documented HS256 to RS256 migration, and time passes.  *)
(*                                                                         *)
(* The two tokens of a pair carry the same claims but for the platform     *)
(* roles, so a pair is one record, with its age in ticks.  The JWKS cache  *)
(* is module JWKSCache; here a service has the issuer's key or not yet.    *)
(***************************************************************************)
EXTENDS Integers, FiniteSets

CONSTANTS
  Users, Service,         \* user IDs; Service is user ID 0
  Orgs, NoOrg,            \* organizations, and the empty OrgID
  Nil,                    \* a nil slice
  Verifiers,              \* services that verify tokens
  Issuer,                 \* the one of them that also issues tokens
  AccessTTL, RefreshTTL,
  MaxPairs, MaxChanges    \* bounds: live pairs, changes of role or membership

ASSUME SessionsAssumption ==
  /\ Issuer \in Verifiers /\ Service \notin Users
  /\ NoOrg \notin Orgs /\ \A S \in SUBSET Orgs : S # Nil
  /\ AccessTTL \in Nat \ {0} /\ RefreshTTL \in Nat /\ AccessTTL < RefreshTTL
  /\ MaxPairs \in Nat /\ MaxChanges \in Nat

VARIABLES
  pairs,        \* token pairs issued whose refresh token is not expired
  signRS256,    \* the issuer uses the Signer
  verifier,     \* per service: [jwks, hs256, keys]: JWKSURL is set, HS256 is
                \* accepted, the issuer's public key is known
  admin,        \* users who hold an allowed platform role
  member,       \* organizations of each user
  changes,
  \* history
  sinceAdmin    \* ticks since the user last held the role, up to AccessTTL

authVars ==
  <<pairs, signRS256, verifier, admin, member, changes, sinceAdmin>>

-----------------------------------------------------------------------------
(* Tokens                                                                  *)

\* Mutant: `json:"orgs,omitempty"`.
MarshalOrgsOmitEmpty(orgs) ==
  IF orgs \in {Nil, {}} THEN [json |-> "absent", orgs |-> {}]
  ELSE [json |-> "array", orgs |-> orgs]

\* The claim `json:"orgs"`: a nil slice is null, an empty one is [].
MarshalOrgs(orgs) ==
  IF orgs = Nil THEN [json |-> "null", orgs |-> {}]
  ELSE [json |-> "array", orgs |-> orgs]

UnmarshalOrgs(claim) == IF claim.json = "array" THEN claim.orgs ELSE Nil

\* The app context that GenerateTokenPairWithContext is given.
AppContext(org, orgs, roles) == [org |-> org, orgs |-> orgs, roles |-> roles]

\* buildClaims, for both tokens of a pair.  The history field login is the app
\* context of the login the pair goes back to.
BuildClaims(alg, u, app, login) ==
  [alg |-> alg, user |-> u, org |-> app.org, orgs |-> MarshalOrgs(app.orgs),
   roles |-> app.roles, age |-> 0, login |-> login]

\* GenerateTokenPairWithContext of Manager and of Signer.
ManagerPair(u, app, login) == BuildClaims("HS256", u, app, login)
SignerPair(u, app, login) == BuildClaims("RS256", u, app, login)

\* Mutant: the two TTLs change places.
TTLSwapped(kind) == IF kind = "access" THEN RefreshTTL ELSE AccessTTL

TTL(kind) == IF kind = "access" THEN AccessTTL ELSE RefreshTTL

Unexpired(pair, kind) == pair.age < TTL(kind)

\* The claims that Parse returns: refresh tokens were built without roles.
Claims(pair, kind) ==
  [kind |-> kind, user |-> pair.user, org |-> pair.org,
   orgs |-> UnmarshalOrgs(pair.orgs),
   roles |-> IF kind = "access" THEN pair.roles ELSE {}]

-----------------------------------------------------------------------------
(* The issuer                                                              *)

Issue(u, app, login) ==
  /\ Cardinality(pairs) < MaxPairs
  /\ pairs' = pairs \cup {IF signRS256 THEN SignerPair(u, app, login)
                          ELSE ManagerPair(u, app, login)}
  /\ UNCHANGED <<signRS256, verifier, admin, member, changes, sinceAdmin>>

\* A user logs in; older callers do not resolve the memberships.
Login(u) ==
  \E orgs \in {Nil, member[u]}, org \in member[u] \cup {NoOrg} :
    LET app == AppContext(org, orgs, IF u \in admin THEN {"admin"} ELSE {})
    IN Issue(u, app, app)

\* GenerateAccessToken for a service; there is no refresh token to it.
IssueServiceToken ==
  LET app == AppContext(NoOrg, Nil, {}) IN Issue(Service, app, app)

\* The app context that Refresh passes on: that of the claims, without roles.
Renewed(c) == AppContext(c.org, c.orgs, {})

Renew(pair) ==
  LET c == Claims(pair, "refresh") IN
    /\ pair.user # Service /\ Unexpired(pair, "refresh")
    /\ Issue(c.user, Renewed(c), pair.login)

\* Refresh of Manager, and of Signer (parseSelf): each takes the tokens of its
\* own method only.
ManagerRefresh(pair) == ~signRS256 /\ pair.alg = "HS256" /\ Renew(pair)
SignerRefresh(pair) == signRS256 /\ pair.alg = "RS256" /\ Renew(pair)

-----------------------------------------------------------------------------
(* Verification                                                            *)

\* Mutant: a dual-accept Validator lists RS256 only.
ValidMethodsRS256Only(acceptHS256) == {"RS256"}

ValidMethods(acceptHS256) ==
  IF acceptHS256 THEN {"RS256", "HS256"} ELSE {"RS256"}

\* A key that fits the method, by buildKeyFunc.
BuildKeyFunc(w, alg) == IF alg = "RS256" THEN w.keys ELSE w.hs256

\* Parse of Manager and of Validator, but for the expiry.
ManagerParses(pair) == pair.alg = "HS256"
ValidatorParses(w, pair) ==
  pair.alg \in ValidMethods(w.hs256) /\ BuildKeyFunc(w, pair.alg)

\* ValidateAccessToken of what the service was built with.
ValidateAccessToken(v, pair, kind) ==
  /\ IF verifier[v].jwks THEN ValidatorParses(verifier[v], pair)
     ELSE ManagerParses(pair)
  /\ Unexpired(pair, kind) /\ kind = "access"

\* NewValidator: the verifier built, if any.  Where HS256 is accepted it starts
\* without keys if the preload fails; otherwise it does not start.
NewValidator(acceptHS256, preloaded) ==
  IF preloaded \/ acceptHS256
  THEN {[jwks |-> TRUE, hs256 |-> acceptHS256, keys |-> preloaded]} ELSE {}

\* NewLocalRS256Verifier, by which the issuer checks its own tokens.
NewLocalRS256Verifier(acceptHS256) ==
  {[jwks |-> TRUE, hs256 |-> acceptHS256, keys |-> TRUE]}

\* NewVerifier without JWKSURL: a Manager.
NewManager == [jwks |-> FALSE, hs256 |-> TRUE, keys |-> FALSE]

-----------------------------------------------------------------------------
(* The interceptors: a context carries the caller's AuthInfo or NoAuth, and *)
(* each interceptor passes a context on or answers with a status code.     *)

NoAuth == [user |-> Nil]
Passes(auth) == [code |-> "next", auth |-> auth]
Answers(code) == [code |-> code, auth |-> NoAuth]

\* The AuthInfo made from a token's claims, by way of JWTValidatorAdapter.
AuthInfo(c) ==
  [user |-> c.user, org |-> c.org, orgs |-> c.orgs, roles |-> c.roles]

AuthInterceptor(v, call, auth) ==
  IF call.method = "skippedAdmin" THEN Passes(auth)
  ELSE IF ValidateAccessToken(v, call.pair, call.kind)
       THEN Passes(AuthInfo(Claims(call.pair, call.kind)))
       ELSE Answers("Unauthenticated")

\* A resolver that loads the caller's current roles (ContextWithPlatformRoles).
ContextWithPlatformRoles(call, auth) ==
  Passes(IF auth = NoAuth THEN auth
         ELSE [auth EXCEPT !.roles = IF auth.user \in admin THEN {"admin"}
                                     ELSE {}])

\* adminrbac's Unary, with the default AllowedRoles.
AdminRBAC(call, auth) ==
  IF call.method = "plain" THEN Passes(auth)
  ELSE IF auth = NoAuth THEN Answers("Unauthenticated")
  ELSE IF auth.roles \cap {"admin", "support"} # {} THEN Passes(auth)
  ELSE Answers("PermissionDenied")

\* The orders in which a service may chain them, after the interceptors that
\* every server has, which pass the context on.
Chains == {<<"base", "auth", "rbac">>, <<"base", "rbac", "auth">>,
           <<"auth", "resolver", "rbac">>, <<"resolver", "auth", "rbac">>}

InterceptBy(i, v, call, r) ==
  IF r.code # "next" \/ i = "base" THEN r
  ELSE CASE i = "auth"     -> AuthInterceptor(v, call, r.auth)
         [] i = "resolver" -> ContextWithPlatformRoles(call, r.auth)
         [] i = "rbac"     -> AdminRBAC(call, r.auth)

Intercept(v, call, chain) ==
  InterceptBy(chain[3], v, call,
    InterceptBy(chain[2], v, call,
      InterceptBy(chain[1], v, call, Passes(NoAuth))))

\* orgauth.EnforceOrgMatch, called by a handler.
EnforceOrgMatch(auth, requested) ==
  IF auth = NoAuth THEN "Unauthenticated"
  ELSE IF auth.user = Service \/ requested = NoOrg THEN "OK"
  ELSE IF auth.orgs # Nil
       THEN IF requested \in auth.orgs THEN "OK" ELSE "PermissionDenied"
  ELSE IF auth.org \in {NoOrg, requested} THEN "OK"
  ELSE "PermissionDenied"

\* ws.ExtractToken and ExtractUserID; Nil is an error.
ExtractUserID(v, call) ==
  IF /\ ValidateAccessToken(v, call.pair, call.kind)
     /\ call.pair.user # Service
  THEN call.pair.user ELSE Nil

-----------------------------------------------------------------------------
(* The migration, role and membership changes, and time                    *)

\* Every service starts with a Manager; the issuer checks its own tokens with
\* NewLocalRS256Verifier.
SessionsInit ==
  /\ pairs = {} /\ signRS256 = FALSE
  /\ \E w \in NewLocalRS256Verifier(TRUE) :
       verifier = [v \in Verifiers |-> IF v = Issuer THEN w ELSE NewManager]
  /\ admin \in SUBSET Users
  /\ member \in [Users -> SUBSET Orgs]
  /\ changes = 0
  /\ sinceAdmin = [u \in Users |-> IF u \in admin THEN 0 ELSE AccessTTL]

\* The operator waits for the last HS256 access token to expire.
NoHS256Left ==
  signRS256 /\ \A pair \in pairs :
                 pair.alg = "HS256" => ~Unexpired(pair, "access")

SetVerifier(v, w) ==
  /\ verifier' = [verifier EXCEPT ![v] = w]
  /\ UNCHANGED <<pairs, signRS256, admin, member, changes, sinceAdmin>>

\* A service is deployed with JWKSURL set; where NewValidator fails the old
\* instance stays.
Deploy(v, acceptHS256) ==
  \E preloaded \in BOOLEAN :
    \E w \in IF v = Issuer THEN NewLocalRS256Verifier(acceptHS256)
             ELSE NewValidator(acceptHS256, preloaded) : SetVerifier(v, w)

\* It moves to dual-accept mode, or restarts in it.
StartDualAccept(v) == verifier[v].hs256 /\ Deploy(v, TRUE)

\* The background refresh of the JWKS cache succeeds.
KeysRefreshed(v) ==
  /\ verifier[v].jwks /\ ~verifier[v].keys
  /\ SetVerifier(v, [verifier[v] EXCEPT !.keys = TRUE])

\* Every verifier is in dual-accept mode before the issuer switches.
Cutover ==
  /\ ~signRS256 /\ \A v \in Verifiers : verifier[v].jwks
  /\ signRS256' = TRUE
  /\ UNCHANGED <<pairs, verifier, admin, member, changes, sinceAdmin>>

RetireHS256(v) == NoHS256Left /\ verifier[v].hs256 /\ Deploy(v, FALSE)

Changes ==
  /\ changes < MaxChanges
  /\ changes' = changes + 1
  /\ UNCHANGED <<pairs, signRS256, verifier>>

RoleChanges(u) ==
  /\ Changes
  /\ admin' = IF u \in admin THEN admin \ {u} ELSE admin \cup {u}
  /\ sinceAdmin' = [sinceAdmin EXCEPT ![u] = 0]
  /\ UNCHANGED member

MembershipChanges(u) ==
  /\ Changes
  /\ \E orgs \in SUBSET Orgs : member' = [member EXCEPT ![u] = orgs]
  /\ UNCHANGED <<admin, sinceAdmin>>

AuthTick ==
  /\ pairs' = {[pair EXCEPT !.age = @ + 1] :
                 pair \in {p \in pairs : p.age + 1 < RefreshTTL}}
  /\ sinceAdmin' = [u \in Users |->
                      IF u \in admin THEN 0
                      ELSE IF sinceAdmin[u] < AccessTTL THEN sinceAdmin[u] + 1
                      ELSE AccessTTL]
  /\ UNCHANGED <<signRS256, verifier, admin, member, changes>>

SessionsNext ==
  \/ \E u \in Users : Login(u) \/ RoleChanges(u) \/ MembershipChanges(u)
  \/ IssueServiceToken
  \/ \E pair \in pairs : ManagerRefresh(pair) \/ SignerRefresh(pair)
  \/ \E v \in Verifiers : StartDualAccept(v) \/ KeysRefreshed(v)
                          \/ RetireHS256(v)
  \/ Cutover
  \/ AuthTick

SessionsSpec == SessionsInit /\ [][SessionsNext]_authVars

-----------------------------------------------------------------------------
(* Properties                                                              *)

\* Calls of the methods given that present some token of some pair.
Presented(methods) ==
  [pair : pairs, kind : {"access", "refresh"}, method : methods]

\* Whatever token of whatever age and kind is presented to whatever service,
\* and in whatever order the service chains the interceptors, a call of an
\* admin method reaches its handler only for a user who held the role within
\* the last AccessTTL: refreshing never carries a revoked role along
\* (buildClaims), and skipping authentication does not skip adminrbac.
RoleBounded ==
  \A v \in Verifiers, call \in Presented({"admin", "skippedAdmin"}),
     chain \in Chains :
    LET r == Intercept(v, call, chain) IN
      r.code = "next" => /\ r.auth.user \in Users
                         /\ \/ r.auth.user \in admin
                            \/ sinceAdmin[r.auth.user] < AccessTTL

\* What a login's app context permits: the reference for OrgDecisionKept.
MayAct(u, login, org) ==
  \/ u = Service \/ org = NoOrg
  \/ login.orgs # Nil /\ org \in login.orgs
  \/ login.orgs = Nil /\ login.org \in {NoOrg, org}

\* However often a session was refreshed, by whichever signer, orgauth decides
\* on an accepted call as it would have on the app context of its login: the
\* difference between no membership claim and an empty one survives encoding,
\* the adapter and every refresh.
OrgDecisionKept ==
  \A v \in Verifiers, call \in Presented({"plain"}) :
    LET r == Intercept(v, call, <<"base", "auth", "rbac">>) IN
      r.code = "next" =>
        \A org \in Orgs \cup {NoOrg} :
          (EnforceOrgMatch(r.auth, org) = "OK")
            = MayAct(call.pair.user, call.pair.login, org)

\* No phase of the migration locks a session out: a service that has fetched
\* the issuer's key, or has no need of it, accepts every unexpired access
\* token, over gRPC and over WebSocket.
NoLockout ==
  \A v \in Verifiers, call \in Presented({"plain"}) :
    ( /\ call.kind = "access" /\ Unexpired(call.pair, "access")
      /\ call.pair.alg = "RS256" => verifier[v].keys )
    => /\ Intercept(v, call, <<"base", "auth", "rbac">>).code = "next"
       /\ call.pair.user # Service
            => ExtractUserID(v, call) = call.pair.user

-----------------------------------------------------------------------------
(* The inductive invariant                                                 *)

AppContexts ==
  [org : Orgs \cup {NoOrg}, orgs : (SUBSET Orgs) \cup {Nil},
   roles : SUBSET {"admin"}]
Pairs ==
  [alg : {"HS256", "RS256"}, user : Users \cup {Service},
   org : Orgs \cup {NoOrg},
   orgs : [json : {"null", "array"}, orgs : SUBSET Orgs],
   roles : SUBSET {"admin"}, age : Nat, login : AppContexts]

SessionsTypeOK ==
  /\ pairs \subseteq Pairs
  /\ signRS256 \in BOOLEAN
  /\ verifier \in
       [Verifiers -> [jwks : BOOLEAN, hs256 : BOOLEAN, keys : BOOLEAN]]
  /\ admin \subseteq Users /\ member \in [Users -> SUBSET Orgs]
  /\ sinceAdmin \in [Users -> 0..AccessTTL]

\* A role in a token was held when the token was made, or later.
RolesRecent(pair) ==
  pair.roles # {} =>
    /\ pair.user \in Users
    /\ pair.user \in admin \/ sinceAdmin[pair.user] <= pair.age

\* The organization claims of a pair are those of its login.
ClaimsKept(pair) ==
  pair.org = pair.login.org /\ UnmarshalOrgs(pair.orgs) = pair.login.orgs

\* A service without JWKSURL has no keys and takes HS256; one that refuses
\* HS256 does so after the cutover and the last HS256 access token.
MigrationPhase(v) ==
  /\ ~verifier[v].jwks => verifier[v].hs256 /\ ~verifier[v].keys
  /\ ~verifier[v].hs256 =>
       signRS256 /\ \A pair \in pairs : pair.alg = "HS256" => pair.age >= AccessTTL

SessionsInv ==
  /\ SessionsTypeOK
  /\ \A pair \in pairs : RolesRecent(pair) /\ ClaimsKept(pair)
  /\ \A v \in Verifiers : MigrationPhase(v)
=============================================================================
