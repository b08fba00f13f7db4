--------------------------- MODULE RateLimitKeys ----------------------------
(***************************************************************************)
(* The rate limit middlewares over a MultiLimiter: which requests share a  *)
(* budget, and what becomes of a request when the limiter says no, fails,  *)
(* or knows no such tier.  The sliding window itself is module             *)
(* RateLimiter; here a budget counts the requests admitted in one window,  *)
(* and all windows end together.                                           *)
(***************************************************************************)
EXTENDS Integers, FiniteSets

CONSTANTS
  Hosts,        \* client addresses
  Accounts,     \* users
  Anonymous,    \* no user_id
  KnownTiers, UnknownTier,
  TierLimit

ASSUME RateLimitKeysAssumption ==
  /\ Anonymous \notin Accounts /\ UnknownTier \notin KnownTiers
  /\ "auth" \in KnownTiers /\ TierLimit \in Nat

Tiers == KnownTiers \cup {UnknownTier}
LimitedRequests == [host : Hosts, account : Accounts \cup {Anonymous},
                    tier : Tiers]

VARIABLES
  stack,        \* "gin", or "http" for the net/http and WebSocket middlewares
  budget,       \* requests admitted in this window, by tier and key
  served        \* history: the same requests, numbered within their budget

limitVars == <<stack, budget, served>>

ByUser(r) == IF r.account # Anonymous THEN <<"user", r.account>>
             ELSE <<"ip", r.host>>

\* Mutant: users are told apart by their addresses.
HTTPRateLimitKeyByAddress(r) == <<"ip", r.host>>

\* getRateLimitKey of the gin middleware.
GetRateLimitKey(r) == IF r.tier = "auth" THEN <<"ip", r.host>> ELSE ByUser(r)

\* The key of HTTPRateLimitMiddleware and WebSocketRateLimitMiddleware: the user
\* whom extractUserID finds, on whatever tier.
HTTPRateLimitKey(r) == ByUser(r)

RateLimitKey(r) ==
  IF stack = "gin" THEN GetRateLimitKey(r) ELSE HTTPRateLimitKey(r)

Keys == {<<"ip", h>> : h \in Hosts} \cup {<<"user", a>> : a \in Accounts}

NoneUsed == [t \in KnownTiers |-> [k \in Keys |-> 0]]

LimitInit ==
  stack \in {"gin", "http"} /\ budget = NoneUsed /\ served = {}

\* "On error, allow the request to proceed (fail open)".
OnLimiterError == "next"

\* MultiLimiter.Allow for a tier it knows.
HasBudget(r) == budget[r.tier][RateLimitKey(r)] < TierLimit

\* What becomes of a request; up tells whether Redis answers.
Outcome(r, up) ==
  IF r.tier \notin KnownTiers THEN "next"    \* Allowed, with Limit -1
  ELSE IF ~up THEN OnLimiterError
  ELSE IF HasBudget(r) THEN "next"
  ELSE "429"

\* A request is admitted by the limiter; the others leave no trace.
RateLimitMiddleware(r) ==
  /\ r.tier \in KnownTiers /\ HasBudget(r)
  /\ budget' = [budget EXCEPT ![r.tier][RateLimitKey(r)] = @ + 1]
  /\ served' = served \cup
       {[request |-> r, nth |-> budget[r.tier][RateLimitKey(r)] + 1]}
  /\ UNCHANGED stack

WindowEnds ==
  budget' = NoneUsed /\ served' = {} /\ UNCHANGED stack

LimitNext ==
  \/ \E r \in LimitedRequests : RateLimitMiddleware(r)
  \/ WindowEnds

LimitSpec == LimitInit /\ [][LimitNext]_limitVars

\* The requests admitted on the tier that count against a client: the user's
\* own, or those from the address of a client without a user and of every
\* client of gin's auth tier.
AdmittedFor(r) ==
  {s \in served :
     /\ s.request.tier = r.tier
     /\ IF r.account = Anonymous \/ (stack = "gin" /\ r.tier = "auth")
        THEN s.request.host = r.host ELSE s.request.account = r.account}

\* Nobody is crowded out: a user, from whatever addresses, is refused only
\* after TierLimit requests of that user were admitted on the tier, however
\* many others share the addresses; a client without a user, and every client
\* of gin's auth tier, only after as many from the same address; and nobody
\* when Redis is down or the tier is unknown.
NotCrowdedOut ==
  \A r \in LimitedRequests, up \in BOOLEAN :
    Outcome(r, up) = "429" =>
      up /\ r.tier \in KnownTiers /\ Cardinality(AdmittedFor(r)) >= TierLimit

\* The requests admitted from one budget.
Charged(t, k) ==
  {s \in served : s.request.tier = t /\ RateLimitKey(s.request) = k}

\* The inductive invariant: a budget counts the requests charged to it.
LimitKeysInv ==
  /\ stack \in {"gin", "http"} /\ IsFiniteSet(served)
  /\ budget \in [KnownTiers -> [Keys -> Nat]]
  /\ \A s \in served : s.request \in LimitedRequests
  /\ \A t \in KnownTiers, k \in Keys :
       /\ Cardinality(Charged(t, k)) = budget[t][k]
       /\ \A s \in Charged(t, k) : s.nth <= budget[t][k] /\ s.nth \in Nat
=============================================================================
