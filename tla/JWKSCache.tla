------------------------------ MODULE JWKSCache ------------------------------
(***************************************************************************)
(* jwt.jwksCache: the key set of a token verifier, refreshed by a          *)
(* background loop and, for an unknown or stale key, by the verifying      *)
(* goroutines themselves, while the issuer rotates its keys.               *)
(* Time is discrete.  Instead of instants the model keeps ages, counted up *)
(* to one past the largest age the code compares with.  A refresh is three *)
(* steps: note the attempt, have the issuer answer, store the answer; a    *)
(* fetch lasts at most Timeout ticks.                                      *)
(***************************************************************************)
EXTENDS Integers, FiniteSets

CONSTANTS
  Kids, Verifiers,
  Loop,          \* the goroutine of start and loop
  NoKid,
  MaxStale, MinRefetch, Timeout,   \* maxStale, minRefetchInterval, timeout
  MaxRotations   \* bound: changes of the issuer's key set

ASSUME JWKSAssumption ==
  /\ Kids # {} /\ Loop \notin Verifiers /\ NoKid \notin Kids \cup Verifiers
  /\ MaxStale \in Nat /\ MinRefetch \in Nat /\ Timeout \in Nat
  /\ MaxRotations \in Nat

Refreshers == Verifiers \cup {Loop}

VARIABLES
  keys,        \* kids in the cache
  fetchAge,    \* time.Since(lastFetch)
  attemptAge,  \* time.Since(lastAttempt)
  refreshMu,   \* holder of refreshMu, or NoKid
  jwksPc, kid, \* per goroutine: location, kid being resolved
  got,         \* the key set in the answer under way
  fetchFor,    \* how long the fetch has lasted
  ready,       \* start has returned from its preload
  stopped,     \* CloseCache was called
  \* issuer and history
  published, rotations,
  goneFor,     \* goneFor[k]: time since k was last published
  demandAge    \* time since the last on-demand refresh began

cacheVars == <<keys, fetchAge, attemptAge>>
issuerVars == <<published, rotations, goneFor>>
jwksVars == <<keys, fetchAge, attemptAge, refreshMu, jwksPc, kid, got,
              fetchFor, ready, stopped, published, rotations, goneFor,
              demandAge>>

GoneCap == MaxStale + Timeout + 1
Older(age, cap) == IF age < cap THEN age + 1 ELSE age

JWKSInit ==
  /\ keys = {}
  /\ fetchAge = MaxStale + 1 /\ attemptAge = MinRefetch + 1   \* zero times
  /\ refreshMu = NoKid
  /\ jwksPc = [r \in Refreshers |-> IF r = Loop THEN "begin" ELSE "new"]
  /\ kid = [r \in Refreshers |-> NoKid]
  /\ got = [r \in Refreshers |-> {}]
  /\ fetchFor = [r \in Refreshers |-> 0]
  /\ ready = FALSE /\ stopped = FALSE
  /\ published \in SUBSET Kids \ {{}} /\ rotations = 0
  /\ goneFor = [k \in Kids |-> IF k \in published THEN 0 ELSE GoneCap]
  /\ demandAge = MinRefetch + 1

Goto(r, l) == jwksPc' = [jwksPc EXCEPT ![r] = l]

-----------------------------------------------------------------------------
(* Tests of publicKey                                                      *)

\* snapshot and isStale: the key is known and the set is fresh.
Usable(k) == k \in keys /\ fetchAge <= MaxStale

Throttled == attemptAge <= MinRefetch

-----------------------------------------------------------------------------
(* publicKey                                                               *)

\* The cache is used once start has returned.
ResolveKey(v, k) ==
  /\ ready /\ jwksPc[v] \in {"new", "accept", "reject"}
  /\ Goto(v, "check")
  /\ kid' = [kid EXCEPT ![v] = k]
  /\ UNCHANGED <<ready, cacheVars, refreshMu, got, fetchFor, stopped,
                 issuerVars, demandAge>>

\* The first snapshot decides whether to answer, to refresh or to give up.
Check(v) ==
  /\ jwksPc[v] = "check"
  /\ Goto(v, IF Usable(kid[v]) THEN "accept"
             ELSE IF Throttled THEN "final" ELSE "lock")
  /\ UNCHANGED <<ready, cacheVars, refreshMu, kid, got, fetchFor, stopped,
                 issuerVars, demandAge>>

\* Mutant: the throttle is not checked again under the lock.
LockUnchecked(v) ==
  /\ jwksPc[v] = "lock" /\ refreshMu = NoKid
  /\ refreshMu' = v
  /\ Goto(v, IF Usable(kid[v]) THEN "unlock" ELSE "begin")
  /\ UNCHANGED <<ready, cacheVars, kid, got, fetchFor, stopped, issuerVars,
                 demandAge>>

\* refreshMu is taken and the snapshot repeated.
Lock(v) ==
  /\ jwksPc[v] = "lock" /\ refreshMu = NoKid
  /\ refreshMu' = v
  /\ Goto(v, IF ~Usable(kid[v]) /\ ~Throttled THEN "begin" ELSE "unlock")
  /\ UNCHANGED <<ready, cacheVars, kid, got, fetchFor, stopped, issuerVars,
                 demandAge>>

RefreshUnlock(v) ==
  /\ jwksPc[v] = "unlock"
  /\ refreshMu' = NoKid
  /\ Goto(v, "final")
  /\ UNCHANGED <<ready, cacheVars, kid, got, fetchFor, stopped, issuerVars,
                 demandAge>>

\* Mutant: the early return leaves refreshMu locked.
FailStaleKeepsLock(v) ==
  /\ jwksPc[v] = "failed" /\ kid[v] \in keys /\ fetchAge > MaxStale
  /\ Goto(v, "reject")
  /\ UNCHANGED <<ready, cacheVars, refreshMu, kid, got, fetchFor, stopped,
                 issuerVars, demandAge>>

\* The refresh failed and the known key is stale: fail closed at once.
FailStale(v) ==
  /\ jwksPc[v] = "failed" /\ kid[v] \in keys /\ fetchAge > MaxStale
  /\ refreshMu' = NoKid
  /\ Goto(v, "reject")
  /\ UNCHANGED <<ready, cacheVars, kid, got, fetchFor, stopped, issuerVars,
                 demandAge>>

FailOther(v) ==
  /\ jwksPc[v] = "failed" /\ ~(kid[v] \in keys /\ fetchAge > MaxStale)
  /\ Goto(v, "unlock")
  /\ UNCHANGED <<ready, cacheVars, refreshMu, kid, got, fetchFor, stopped,
                 issuerVars, demandAge>>

\* The last snapshot decides.
Final(v) ==
  /\ jwksPc[v] = "final"
  /\ Goto(v, IF Usable(kid[v]) THEN "accept" ELSE "reject")
  /\ UNCHANGED <<ready, cacheVars, refreshMu, kid, got, fetchFor, stopped,
                 issuerVars, demandAge>>

-----------------------------------------------------------------------------
(* refreshNow, by the loop or by a verifier                                *)

\* The attempt is noted before the fetch, whatever comes of it.
Begin(r) ==
  /\ jwksPc[r] = "begin"
  /\ Goto(r, "fetch")
  /\ attemptAge' = 0
  /\ fetchFor' = [fetchFor EXCEPT ![r] = 0]
  /\ demandAge' = IF r = Loop THEN demandAge ELSE 0
  /\ UNCHANGED <<ready, keys, fetchAge, refreshMu, kid, got, stopped,
                 issuerVars>>

\* The issuer's answer leaves with the keys published at that moment.
IssuerAnswers(r) ==
  /\ jwksPc[r] = "fetch"
  /\ Goto(r, "answer")
  /\ got' = [got EXCEPT ![r] = published]
  /\ UNCHANGED <<ready, cacheVars, refreshMu, kid, fetchFor, stopped,
                 issuerVars, demandAge>>

\* Mutant: the loop ends with the first refresh that fails.
AfterRefreshGivesUp(r, ok) ==
  /\ Goto(r, IF r = Loop THEN (IF ok THEN "idle" ELSE "done")
             ELSE IF ok THEN "unlock" ELSE "failed")
  /\ ready' = TRUE

\* Where refreshNow returns to.
AfterRefresh(r, ok) ==
  /\ Goto(r, IF r = Loop THEN "idle" ELSE IF ok THEN "unlock" ELSE "failed")
  /\ ready' = TRUE

\* The answer arrives, parses, and replaces the key set.
StoreKeys(r) ==
  /\ jwksPc[r] = "answer"
  /\ AfterRefresh(r, TRUE)
  /\ keys' = got[r] /\ fetchAge' = 0
  /\ got' = [got EXCEPT ![r] = {}]
  /\ fetchFor' = [fetchFor EXCEPT ![r] = 0]
  /\ UNCHANGED <<attemptAge, refreshMu, kid, stopped, issuerVars, demandAge>>

\* Mutant: a failed refresh counts as a successful one.
FetchFailsRefreshesAge(r) ==
  /\ jwksPc[r] \in {"fetch", "answer"}
  /\ AfterRefresh(r, FALSE)
  /\ fetchAge' = 0
  /\ got' = [got EXCEPT ![r] = {}]
  /\ fetchFor' = [fetchFor EXCEPT ![r] = 0]
  /\ UNCHANGED <<keys, attemptAge, refreshMu, kid, stopped, issuerVars,
                 demandAge>>

\* The fetch fails or times out, or the answer does not parse (parseJWKS).
FetchFails(r) ==
  /\ jwksPc[r] \in {"fetch", "answer"}
  /\ AfterRefresh(r, FALSE)
  /\ got' = [got EXCEPT ![r] = {}]
  /\ fetchFor' = [fetchFor EXCEPT ![r] = 0]
  /\ UNCHANGED <<cacheVars, refreshMu, kid, stopped, issuerVars, demandAge>>

\* The ticker fires.
LoopTick ==
  /\ jwksPc[Loop] = "idle"
  /\ Goto(Loop, "begin")
  /\ UNCHANGED <<ready, cacheVars, refreshMu, kid, got, fetchFor, stopped,
                 issuerVars, demandAge>>

LoopReturns ==
  /\ jwksPc[Loop] = "idle" /\ stopped
  /\ Goto(Loop, "done")
  /\ UNCHANGED <<ready, cacheVars, refreshMu, kid, got, fetchFor, stopped,
                 issuerVars, demandAge>>

CloseCache ==
  /\ ~stopped /\ stopped' = TRUE
  /\ UNCHANGED <<ready, cacheVars, refreshMu, jwksPc, kid, got, fetchFor,
                 issuerVars, demandAge>>

-----------------------------------------------------------------------------
(* Issuer and clock                                                        *)

Rotate ==
  /\ rotations < MaxRotations /\ rotations' = rotations + 1
  /\ published' \in SUBSET Kids \ {{}, published}
  /\ goneFor' = [k \in Kids |-> IF k \in published' THEN 0 ELSE goneFor[k]]
  /\ UNCHANGED <<ready, cacheVars, refreshMu, jwksPc, kid, got, fetchFor,
                 stopped, demandAge>>

\* Time does not pass the deadline of a fetch (context.WithTimeout).
JWKSTick ==
  /\ \A r \in Refreshers :
       jwksPc[r] \in {"fetch", "answer"} => fetchFor[r] < Timeout
  /\ fetchAge' = Older(fetchAge, MaxStale + 1)
  /\ attemptAge' = Older(attemptAge, MinRefetch + 1)
  /\ demandAge' = Older(demandAge, MinRefetch + 1)
  /\ goneFor' = [k \in Kids |-> IF k \in published THEN 0
                                ELSE Older(goneFor[k], GoneCap)]
  /\ fetchFor' = [r \in Refreshers |->
                    IF jwksPc[r] \in {"fetch", "answer"} THEN fetchFor[r] + 1
                    ELSE fetchFor[r]]
  /\ UNCHANGED <<ready, keys, refreshMu, jwksPc, kid, got, stopped, published,
                 rotations>>

VerifierStep(v) ==
  \/ Check(v) \/ Lock(v) \/ RefreshUnlock(v) \/ FailStale(v) \/ FailOther(v)
  \/ Final(v)

RefreshEnds(r) == StoreKeys(r) \/ FetchFails(r)

JWKSNext ==
  \/ \E v \in Verifiers : VerifierStep(v) \/ (\E k \in Kids : ResolveKey(v, k))
  \/ \E r \in Refreshers : Begin(r) \/ IssuerAnswers(r) \/ RefreshEnds(r)
  \/ LoopTick \/ LoopReturns \/ CloseCache \/ Rotate \/ JWKSTick

JWKSSpec == JWKSInit /\ [][JWKSNext]_jwksVars

-----------------------------------------------------------------------------
(* Properties                                                              *)

\* The cache, the goroutines and the ages keep their types, and refreshMu is
\* held by exactly the verifier that is refreshing.
JWKSTypeOK ==
  /\ keys \subseteq Kids
  /\ fetchAge \in 0..(MaxStale + 1) /\ attemptAge \in 0..(MinRefetch + 1)
  /\ refreshMu \in Verifiers \cup {NoKid}
  /\ jwksPc \in [Refreshers -> {"new", "check", "lock", "begin", "fetch",
                                "answer", "failed", "unlock", "final",
                                "accept", "reject", "idle", "done"}]
  /\ kid \in [Refreshers -> Kids \cup {NoKid}]
  /\ got \in [Refreshers -> SUBSET Kids]
  /\ fetchFor \in [Refreshers -> 0..Timeout]
  /\ ready \in BOOLEAN /\ stopped \in BOOLEAN
  /\ published \in SUBSET Kids \ {{}} /\ rotations \in 0..MaxRotations
  /\ goneFor \in [Kids -> 0..GoneCap] /\ demandAge \in 0..(MinRefetch + 1)
  /\ \A v \in Verifiers :
       refreshMu = v <=>
         jwksPc[v] \in {"begin", "fetch", "answer", "failed", "unlock"}

\* A key is accepted only if the issuer published it within the last maxStale
\* plus one fetch timeout, whatever refreshes overtake each other: withdrawn
\* keys stop working even when every refresh fails (publicKey, isStale; a set
\* is as old as its answer, not as its arrival).
WithdrawnKeysExpire ==
  [][\A v \in Verifiers :
       jwksPc[v] # "accept" /\ jwksPc'[v] = "accept" =>
         goneFor[kid[v]] <= MaxStale + Timeout]_jwksVars

\* On-demand refreshes are at least minRefetchInterval apart, also during an
\* outage and when many verifiers miss at once (publicKey, refreshNow).
OnDemandThrottled ==
  [][\A v \in Verifiers :
       jwksPc[v] = "begin" /\ jwksPc'[v] = "fetch" =>
         demandAge > MinRefetch]_jwksVars

\* A key the issuer keeps publishing reaches the cache and stays there, if the
\* loop is not closed: no late answer of an old refresh removes it for good.
RotationReachesCache ==
  \A k \in Kids : (<>[](k \in published /\ ~stopped)) => <>[](k \in keys)

\* Every publicKey call returns, also when fetches hang until their deadline
\* and other verifiers hold refreshMu.
LookupReturns ==
  \A v \in Verifiers : jwksPc[v] = "check" ~> jwksPc[v] \in {"accept", "reject"}

=============================================================================
