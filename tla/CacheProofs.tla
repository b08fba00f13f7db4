---------------------------- MODULE CacheProofs -----------------------------
(* Proofs about what the goroutines of a service share and make on demand: *)
(* the cached keys of JWKSCache and the writers of Producer.               *)
EXTENDS JWKSCache, Producer, TLAPS

-----------------------------------------------------------------------------
(* JWKSCache: any keys, any verifiers, any intervals.                      *)

\* A key set, cached or under way, is no older than the issuer's answer.
AnswersRecent ==
  /\ \A k \in published : goneFor[k] = 0
  /\ \A r \in Refreshers : jwksPc[r] = "answer" =>
       \A k \in got[r] : goneFor[k] <= fetchFor[r]
  /\ \A k \in keys : goneFor[k] <= fetchAge + Timeout

\* An on-demand refresh is an attempt, and who is about to make one has found
\* the last one old enough under refreshMu.
DemandsApart ==
  /\ attemptAge <= demandAge
  /\ \A v \in Verifiers : jwksPc[v] = "begin" => demandAge > MinRefetch

JWKSIInv == JWKSTypeOK /\ AnswersRecent /\ DemandsApart

Locations == {"new", "check", "lock", "begin", "fetch", "answer", "failed",
              "unlock", "final", "accept", "reject", "idle", "done"}
Critical == {"begin", "fetch", "answer", "failed", "unlock"}

\* A goroutine that goes from one place to another, outside of a fetch.
LEMMA MoveStep ==
  ASSUME JWKSIInv, NEW r \in Refreshers, NEW l \in Locations, Goto(r, l),
         l # "answer",
         UNCHANGED <<keys, fetchAge, attemptAge, got, fetchFor, published,
                     rotations, goneFor, demandAge>>,
         ready' \in BOOLEAN, stopped' \in BOOLEAN,
         kid' \in [Refreshers -> Kids \cup {NoKid}],
         refreshMu' \in Verifiers \cup {NoKid},
         \A v \in Verifiers \ {r} : refreshMu' = v <=> refreshMu = v,
         r \in Verifiers => (refreshMu' = r <=> l \in Critical),
         r \in Verifiers /\ l = "begin" => attemptAge > MinRefetch
  PROVE  JWKSIInv'
<1>1. /\ jwksPc' = [jwksPc EXCEPT ![r] = l]
      /\ jwksPc \in [Refreshers -> Locations]
  BY Zenon DEF Goto, JWKSIInv, JWKSTypeOK, Locations
<1>2. /\ jwksPc' \in [Refreshers -> Locations] /\ jwksPc'[r] = l
      /\ \A q \in Refreshers \ {r} : jwksPc'[q] = jwksPc[q]
  BY <1>1, Zenon
<1>3. \A v \in Verifiers : refreshMu' = v <=> jwksPc'[v] \in Critical
  BY <1>2, Zenon DEF JWKSIInv, JWKSTypeOK, Critical, Refreshers
<1>4. JWKSTypeOK'
  BY <1>2, <1>3, Zenon DEF JWKSIInv, JWKSTypeOK, Critical, Locations
<1>5. AnswersRecent'
  BY <1>2, Zenon DEF JWKSIInv, AnswersRecent
<1>6. DemandsApart'
  <2>1. attemptAge \in Int /\ demandAge \in Int /\ MinRefetch \in Int
    BY JWKSAssumption DEF JWKSIInv, JWKSTypeOK
  <2> QED
    BY <1>2, <2>1 DEF JWKSIInv, DemandsApart, Refreshers
<1> QED
  BY <1>4, <1>5, <1>6, Zenon DEF JWKSIInv

\* The steps of publicKey that neither begin nor end a fetch.
LEMMA VerifierStepInv ==
  ASSUME JWKSIInv, NEW v \in Verifiers,
         VerifierStep(v) \/ (\E k \in Kids : ResolveKey(v, k))
  PROVE  JWKSIInv'
<1> USE JWKSAssumption
<1>0. /\ v \in Refreshers /\ v # NoKid
      /\ refreshMu \in Verifiers \cup {NoKid}
      /\ \A u \in Verifiers : refreshMu = u <=> jwksPc[u] \in Critical
      /\ kid \in [Refreshers -> Kids \cup {NoKid}]
      /\ ready \in BOOLEAN /\ stopped \in BOOLEAN
  BY Zenon DEF Refreshers, JWKSIInv, JWKSTypeOK, Critical
<1>1. ASSUME NEW k \in Kids, ResolveKey(v, k) PROVE JWKSIInv'
  <2>1. /\ refreshMu # v /\ Goto(v, "check") /\ refreshMu' = refreshMu
        /\ kid' \in [Refreshers -> Kids \cup {NoKid}]
        /\ ready' = ready /\ stopped' = stopped
    BY <1>0, <1>1, Zenon DEF ResolveKey, Critical
  <2> QED
    BY <1>0, <1>1, <2>1, MoveStep
       DEF ResolveKey, cacheVars, issuerVars, Locations, Critical
<1>2. CASE Check(v)
  <2>1. PICK l \in {"accept", "final", "lock"} : Goto(v, l)
    BY <1>2, Zenon DEF Check
  <2>2. refreshMu # v
    BY <1>0, <1>2, Zenon DEF Check, Critical
  <2> QED
    BY <1>0, <1>2, <2>1, <2>2, MoveStep, Zenon
       DEF Check, cacheVars, issuerVars, Locations, Critical
<1>3. CASE Lock(v)
  <2>1. refreshMu = NoKid /\ refreshMu' = v
    BY <1>3, Zenon DEF Lock
  <2>2. PICK l \in {"begin", "unlock"} :
          Goto(v, l) /\ (l = "begin" => attemptAge > MinRefetch)
    <3>1. ~Throttled => attemptAge > MinRefetch
      BY DEF Throttled, JWKSIInv, JWKSTypeOK
    <3> QED
      BY <1>3, <3>1, Zenon DEF Lock
  <2> QED
    BY <1>0, <1>3, <2>1, <2>2, MoveStep, Zenon
       DEF Lock, cacheVars, issuerVars, Locations, Critical
<1>4. CASE RefreshUnlock(v)
  <2>1. refreshMu = v /\ refreshMu' = NoKid
    BY <1>0, <1>4, Zenon DEF RefreshUnlock, Critical
  <2> QED
    BY <1>0, <1>4, <2>1, MoveStep
       DEF RefreshUnlock, cacheVars, issuerVars, Locations, Critical
<1>5. CASE FailStale(v)
  <2>1. refreshMu = v /\ refreshMu' = NoKid
    BY <1>0, <1>5, Zenon DEF FailStale, Critical
  <2> QED
    BY <1>0, <1>5, <2>1, MoveStep
       DEF FailStale, cacheVars, issuerVars, Locations, Critical
<1>6. CASE FailOther(v)
  <2>1. refreshMu = v /\ refreshMu' = refreshMu
    BY <1>0, <1>6, Zenon DEF FailOther, Critical
  <2> QED
    BY <1>0, <1>6, <2>1, MoveStep, Zenon
       DEF FailOther, cacheVars, issuerVars, Locations, Critical
<1>7. CASE Final(v)
  <2>1. PICK l \in {"accept", "reject"} : Goto(v, l)
    BY <1>7, Zenon DEF Final
  <2>2. refreshMu # v
    BY <1>0, <1>7, Zenon DEF Final, Critical
  <2> QED
    BY <1>0, <1>7, <2>1, <2>2, MoveStep, Zenon
       DEF Final, cacheVars, issuerVars, Locations, Critical
<1> QED
  BY <1>1, <1>2, <1>3, <1>4, <1>5, <1>6, <1>7, Zenon DEF VerifierStep

\* A step of a fetch leaves the goroutine, if a verifier, within refreshMu.
LEMMA FetchMoves ==
  ASSUME JWKSIInv, NEW r \in Refreshers, NEW l \in Locations, Goto(r, l),
         r \in Verifiers => jwksPc[r] \in Critical /\ l \in Critical,
         refreshMu' = refreshMu
  PROVE  /\ jwksPc' \in [Refreshers -> Locations] /\ jwksPc'[r] = l
         /\ \A q \in Refreshers \ {r} : jwksPc'[q] = jwksPc[q]
         /\ \A v \in Verifiers : refreshMu' = v <=> jwksPc'[v] \in Critical
<1>1. /\ jwksPc' = [jwksPc EXCEPT ![r] = l]
      /\ jwksPc \in [Refreshers -> Locations]
  BY Zenon DEF Goto, JWKSIInv, JWKSTypeOK, Locations
<1> QED
  BY <1>1, Zenon DEF JWKSIInv, JWKSTypeOK, Critical, Refreshers

\* A fetch that begins has no answer yet, and an on-demand one is an attempt
\* (refreshNow).
LEMMA BeginInv ==
  ASSUME JWKSIInv, NEW r \in Refreshers, Begin(r)
  PROVE  JWKSIInv'
<1> USE JWKSAssumption
<1>1. /\ Goto(r, "fetch") /\ refreshMu' = refreshMu /\ jwksPc[r] = "begin"
      /\ "fetch" \in Locations
  BY Zenon DEF Begin, Locations
<1>2. /\ jwksPc' \in [Refreshers -> Locations] /\ jwksPc'[r] = "fetch"
      /\ \A q \in Refreshers \ {r} : jwksPc'[q] = jwksPc[q]
      /\ \A v \in Verifiers : refreshMu' = v <=> jwksPc'[v] \in Critical
  BY <1>1, FetchMoves, Zenon DEF Critical
<1>3. /\ fetchFor' \in [Refreshers -> 0..Timeout]
      /\ \A q \in Refreshers \ {r} : fetchFor'[q] = fetchFor[q]
  BY DEF Begin, JWKSIInv, JWKSTypeOK
<1>4. /\ attemptAge' = 0 /\ attemptAge' \in 0..(MinRefetch + 1)
      /\ demandAge' \in 0..(MinRefetch + 1)
      /\ r = Loop => demandAge' = demandAge
  BY DEF Begin, JWKSIInv, JWKSTypeOK
<1>5. UNCHANGED <<ready, keys, fetchAge, refreshMu, kid, got, stopped,
                  published, rotations, goneFor>>
  BY Zenon DEF Begin, issuerVars
<1>6. JWKSTypeOK'
  BY <1>2, <1>3, <1>4, <1>5, Zenon DEF JWKSIInv, JWKSTypeOK, Critical, Locations
<1>7. AnswersRecent'
  BY <1>2, <1>3, <1>5, Zenon DEF JWKSIInv, AnswersRecent
<1>8. DemandsApart'
  <2>1. \A v \in Verifiers : jwksPc'[v] # "begin" \/ r = Loop
    BY <1>1, <1>2, Zenon DEF JWKSIInv, JWKSTypeOK, Refreshers
  <2>2. \A v \in Verifiers : jwksPc'[v] = "begin" => jwksPc[v] = "begin"
    BY <1>2, Zenon DEF Refreshers
  <2> QED
    BY <1>4, <2>1, <2>2 DEF JWKSIInv, DemandsApart
<1> QED
  BY <1>6, <1>7, <1>8, Zenon DEF JWKSIInv

\* The issuer answers with keys that are not gone (refreshNow).
LEMMA AnswerInv ==
  ASSUME JWKSIInv, NEW r \in Refreshers, IssuerAnswers(r)
  PROVE  JWKSIInv'
<1> USE JWKSAssumption
<1>1. /\ Goto(r, "answer") /\ refreshMu' = refreshMu /\ jwksPc[r] = "fetch"
      /\ "answer" \in Locations
  BY Zenon DEF IssuerAnswers, Locations
<1>2. /\ jwksPc' \in [Refreshers -> Locations] /\ jwksPc'[r] = "answer"
      /\ \A q \in Refreshers \ {r} : jwksPc'[q] = jwksPc[q]
      /\ \A v \in Verifiers : refreshMu' = v <=> jwksPc'[v] \in Critical
  BY <1>1, FetchMoves, Zenon DEF Critical
<1>3. /\ got' \in [Refreshers -> SUBSET Kids] /\ got'[r] = published
      /\ \A q \in Refreshers \ {r} : got'[q] = got[q]
  BY Zenon DEF IssuerAnswers, JWKSIInv, JWKSTypeOK
<1>4. UNCHANGED <<ready, keys, fetchAge, attemptAge, refreshMu, kid, fetchFor,
                  stopped, published, rotations, goneFor, demandAge>>
  BY Zenon DEF IssuerAnswers, issuerVars, cacheVars
<1>5. JWKSTypeOK'
  BY <1>2, <1>3, <1>4, Zenon DEF JWKSIInv, JWKSTypeOK, Critical, Locations
<1>6. AnswersRecent'
  <2>1. \A k \in published : goneFor[k] <= fetchFor[r]
    BY DEF JWKSIInv, JWKSTypeOK, AnswersRecent
  <2> QED
    BY <1>2, <1>3, <1>4, <2>1, Zenon DEF JWKSIInv, AnswersRecent
<1>7. DemandsApart'
  BY <1>2, <1>4, Zenon DEF JWKSIInv, DemandsApart, Refreshers
<1> QED
  BY <1>5, <1>6, <1>7, Zenon DEF JWKSIInv

\* Storing an answer, or keeping the old keys, leaves no key older than the
\* age of the cache admits (refreshNow).
LEMMA RefreshEndsInv ==
  ASSUME JWKSIInv, NEW r \in Refreshers, RefreshEnds(r)
  PROVE  JWKSIInv'
<1> USE JWKSAssumption
<1>1. PICK l \in {"idle", "unlock", "failed"} :
        Goto(r, l) /\ (r \in Verifiers => l # "idle")
  BY Zenon DEF RefreshEnds, StoreKeys, FetchFails, AfterRefresh
<1>2. /\ refreshMu' = refreshMu /\ jwksPc[r] \in {"fetch", "answer"}
      /\ l \in Locations
  BY Zenon DEF RefreshEnds, StoreKeys, FetchFails, Locations
<1>3. /\ jwksPc' \in [Refreshers -> Locations] /\ jwksPc'[r] = l
      /\ \A q \in Refreshers \ {r} : jwksPc'[q] = jwksPc[q]
      /\ \A v \in Verifiers : refreshMu' = v <=> jwksPc'[v] \in Critical
  BY <1>1, <1>2, FetchMoves, Zenon DEF Critical
<1>4. /\ got' \in [Refreshers -> SUBSET Kids]
      /\ \A q \in Refreshers \ {r} : got'[q] = got[q]
  BY Zenon DEF RefreshEnds, StoreKeys, FetchFails, JWKSIInv, JWKSTypeOK
<1>5. /\ fetchFor' \in [Refreshers -> 0..Timeout]
      /\ \A q \in Refreshers \ {r} : fetchFor'[q] = fetchFor[q]
  <2>1. fetchFor' = [fetchFor EXCEPT ![r] = 0]
    BY Zenon DEF RefreshEnds, StoreKeys, FetchFails
  <2>2. fetchFor \in [Refreshers -> 0..Timeout] /\ 0 \in 0..Timeout
    BY DEF JWKSIInv, JWKSTypeOK
  <2> QED
    BY <2>1, <2>2, Zenon
<1>6. /\ UNCHANGED <<attemptAge, kid, stopped, published, rotations, goneFor,
                     demandAge>>
      /\ ready' \in BOOLEAN
  BY Zenon DEF RefreshEnds, StoreKeys, FetchFails, AfterRefresh, issuerVars,
         cacheVars
<1>7. /\ keys' \subseteq Kids /\ fetchAge' \in 0..(MaxStale + 1)
      /\ \A k \in keys' : goneFor[k] <= fetchAge' + Timeout
  <2>1. CASE StoreKeys(r)
    <3>1. /\ keys' = got[r] /\ fetchAge' = 0 /\ got[r] \subseteq Kids
          /\ fetchFor[r] \in 0..Timeout
          /\ \A k \in got[r] : goneFor[k] <= fetchFor[r]
      BY <2>1, Zenon DEF StoreKeys, JWKSIInv, JWKSTypeOK, AnswersRecent
    <3>2. \A k \in got[r] : goneFor[k] \in Int
      BY <3>1 DEF JWKSIInv, JWKSTypeOK, GoneCap
    <3> QED
      BY <3>1, <3>2
  <2>2. CASE FetchFails(r)
    BY <2>2, Zenon DEF FetchFails, cacheVars, JWKSIInv, JWKSTypeOK, AnswersRecent
  <2> QED
    BY <2>1, <2>2, Zenon DEF RefreshEnds
<1>8. JWKSTypeOK'
  BY <1>2, <1>3, <1>4, <1>5, <1>6, <1>7, Zenon
     DEF JWKSIInv, JWKSTypeOK, Critical, Locations
<1>9. AnswersRecent'
  BY <1>1, <1>3, <1>4, <1>5, <1>6, <1>7, Zenon DEF JWKSIInv, AnswersRecent
<1>10. DemandsApart'
  BY <1>1, <1>3, <1>6, Zenon DEF JWKSIInv, DemandsApart, Refreshers
<1> QED
  BY <1>8, <1>9, <1>10, Zenon DEF JWKSIInv

\* The loop between two refreshes, and CloseCache.
LEMMA LoopInv ==
  ASSUME JWKSIInv, LoopTick \/ LoopReturns \/ CloseCache
  PROVE  JWKSIInv'
<1>1. /\ Loop \in Refreshers /\ Loop \notin Verifiers
      /\ ready \in BOOLEAN /\ stopped \in BOOLEAN
      /\ kid \in [Refreshers -> Kids \cup {NoKid}]
      /\ refreshMu \in Verifiers \cup {NoKid}
  BY JWKSAssumption, Zenon DEF Refreshers, JWKSIInv, JWKSTypeOK
<1>2. CASE LoopTick
  BY <1>1, <1>2, MoveStep, Zenon DEF LoopTick, cacheVars, issuerVars, Locations
<1>3. CASE LoopReturns
  BY <1>1, <1>3, MoveStep, Zenon DEF LoopReturns, cacheVars, issuerVars, Locations
<1>4. CASE CloseCache
  BY <1>4, Zenon DEF CloseCache, cacheVars, issuerVars, JWKSIInv, JWKSTypeOK,
              AnswersRecent, DemandsApart
<1> QED
  BY <1>2, <1>3, <1>4, Zenon

\* A key the issuer withdraws has been gone for no time at all.
LEMMA RotateInv ==
  ASSUME JWKSIInv, Rotate
  PROVE  JWKSIInv'
<1> USE JWKSAssumption
<1>1. UNCHANGED <<ready, keys, fetchAge, attemptAge, refreshMu, jwksPc, kid,
                  got, fetchFor, stopped, demandAge>>
  BY Zenon DEF Rotate, cacheVars
<1>2. /\ published' \in SUBSET Kids \ {{}} /\ rotations' \in 0..MaxRotations
  BY DEF Rotate, JWKSIInv, JWKSTypeOK
<1>3. GoneCap \in Nat
  BY DEF GoneCap
<1>4. /\ goneFor' \in [Kids -> 0..GoneCap]
      /\ \A k \in Kids : goneFor'[k] <= goneFor[k]
      /\ \A k \in published' : goneFor'[k] = 0
  BY <1>2, <1>3 DEF Rotate, JWKSIInv, JWKSTypeOK
<1>5. JWKSTypeOK'
  BY <1>1, <1>2, <1>4, Zenon DEF JWKSIInv, JWKSTypeOK, GoneCap
<1>6. /\ \A r \in Refreshers : got[r] \subseteq Kids /\ fetchFor[r] \in Int
      /\ keys \subseteq Kids /\ fetchAge + Timeout \in Int
      /\ \A k \in Kids : goneFor[k] \in Int /\ goneFor'[k] \in Int
  BY <1>4 DEF JWKSIInv, JWKSTypeOK
<1>7. AnswersRecent'
  <2>1. \A r \in Refreshers : jwksPc[r] = "answer" =>
          \A k \in got[r] : goneFor'[k] <= fetchFor[r]
    BY <1>4, <1>6 DEF JWKSIInv, AnswersRecent
  <2>2. \A k \in keys : goneFor'[k] <= fetchAge + Timeout
    BY <1>4, <1>6 DEF JWKSIInv, AnswersRecent
  <2> QED
    BY <1>1, <1>4, <2>1, <2>2, Zenon DEF AnswersRecent
<1>8. DemandsApart'
  BY <1>1, Zenon DEF JWKSIInv, DemandsApart
<1> QED
  BY <1>5, <1>7, <1>8, Zenon DEF JWKSIInv

\* The keys that are gone and the answers they came in age together.
LEMMA TickInv ==
  ASSUME JWKSIInv, JWKSTick
  PROVE  JWKSIInv'
<1> USE JWKSAssumption
<1>1. UNCHANGED <<ready, keys, refreshMu, jwksPc, kid, got, stopped,
                  published, rotations>>
  BY Zenon DEF JWKSTick
<1>2. /\ fetchAge \in 0..(MaxStale + 1) /\ attemptAge \in 0..(MinRefetch + 1)
      /\ demandAge \in 0..(MinRefetch + 1) /\ attemptAge <= demandAge
      /\ goneFor \in [Kids -> 0..GoneCap] /\ GoneCap = MaxStale + Timeout + 1
      /\ fetchFor \in [Refreshers -> 0..Timeout]
  BY Zenon DEF JWKSIInv, JWKSTypeOK, DemandsApart, GoneCap
<1>3. /\ fetchAge' \in 0..(MaxStale + 1)
      /\ fetchAge' = fetchAge + 1 \/ fetchAge' = MaxStale + 1
  BY <1>2 DEF JWKSTick, Older
<1>4. /\ attemptAge' \in 0..(MinRefetch + 1)
      /\ demandAge' \in 0..(MinRefetch + 1)
      /\ attemptAge' <= demandAge' /\ demandAge <= demandAge'
  BY <1>2 DEF JWKSTick, Older
<1>5. /\ goneFor' \in [Kids -> 0..GoneCap]
      /\ \A k \in Kids : goneFor'[k] <= goneFor[k] + 1
      /\ \A k \in published : goneFor'[k] = 0
  <2>1. goneFor' = [k \in Kids |-> IF k \in published THEN 0
                                   ELSE Older(goneFor[k], GoneCap)]
    BY Zenon DEF JWKSTick
  <2>2. GoneCap \in Nat /\ published \subseteq Kids
    BY <1>2 DEF JWKSIInv, JWKSTypeOK
  <2> QED
    BY <1>2, <2>1, <2>2 DEF Older
<1>6. /\ fetchFor' \in [Refreshers -> 0..Timeout]
      /\ \A r \in Refreshers :
           jwksPc[r] = "answer" => fetchFor'[r] = fetchFor[r] + 1
  BY <1>2 DEF JWKSTick
<1>7. JWKSTypeOK'
  BY <1>1, <1>3, <1>4, <1>5, <1>6, Zenon DEF JWKSIInv, JWKSTypeOK, GoneCap
<1>8. AnswersRecent'
  <2>1. ASSUME NEW r \in Refreshers, jwksPc[r] = "answer", NEW k \in got[r]
        PROVE  goneFor'[k] <= fetchFor'[r]
    <3>1. k \in Kids /\ goneFor[k] <= fetchFor[r]
      BY <2>1, Zenon DEF JWKSIInv, JWKSTypeOK, AnswersRecent
    <3>2. /\ goneFor[k] \in Int /\ goneFor'[k] \in Int
          /\ fetchFor[r] \in Int
      BY <3>1, <1>2, <1>5
    <3> QED
      BY <3>1, <3>2, <2>1, <1>5, <1>6
  <2>2. ASSUME NEW k \in keys PROVE goneFor'[k] <= fetchAge' + Timeout
    <3>1. k \in Kids /\ goneFor[k] <= fetchAge + Timeout
      BY Zenon DEF JWKSIInv, JWKSTypeOK, AnswersRecent
    <3>2. goneFor[k] \in Int /\ goneFor'[k] \in 0..GoneCap
      BY <3>1, <1>2, <1>5
    <3> QED
      BY <3>1, <3>2, <1>2, <1>3, <1>5
  <2> QED
    BY <1>1, <1>5, <2>1, <2>2, Zenon DEF AnswersRecent
<1>9. DemandsApart'
  BY <1>1, <1>2, <1>4 DEF JWKSIInv, DemandsApart
<1> QED
  BY <1>7, <1>8, <1>9, Zenon DEF JWKSIInv

\* The invariant holds before the first fetch (newJWKSCache).
LEMMA JWKSInitInv == JWKSInit => JWKSIInv
<1> SUFFICES ASSUME JWKSInit PROVE JWKSIInv
  BY Zenon
<1> USE JWKSAssumption
<1>1. /\ \A v \in Verifiers : v \in Refreshers /\ jwksPc[v] = "new"
      /\ \A r \in Refreshers : jwksPc[r] \in {"begin", "new"}
      /\ refreshMu \notin Verifiers
  BY Zenon DEF JWKSInit, Refreshers
<1>2. GoneCap \in Nat
  BY DEF GoneCap
<1>3. /\ goneFor \in [Kids -> 0..GoneCap]
      /\ \A k \in published : goneFor[k] = 0
  BY <1>2 DEF JWKSInit
<1>4. JWKSTypeOK
  <2>1. /\ jwksPc \in [Refreshers -> Locations]
        /\ kid \in [Refreshers -> Kids \cup {NoKid}]
        /\ got \in [Refreshers -> SUBSET Kids]
    BY Zenon DEF JWKSInit, Locations
  <2>2. fetchFor \in [Refreshers -> 0..Timeout]
    BY DEF JWKSInit
  <2>3. /\ fetchAge \in 0..(MaxStale + 1) /\ attemptAge \in 0..(MinRefetch + 1)
        /\ demandAge \in 0..(MinRefetch + 1) /\ rotations \in 0..MaxRotations
    BY DEF JWKSInit
  <2>4. /\ ready \in BOOLEAN /\ stopped \in BOOLEAN /\ keys \subseteq Kids
        /\ published \in SUBSET Kids \ {{}}
        /\ refreshMu \in Verifiers \cup {NoKid}
    BY Zenon DEF JWKSInit
  <2> QED
    BY <1>1, <1>3, <2>1, <2>2, <2>3, <2>4, Zenon DEF JWKSTypeOK, Locations
<1>5. AnswersRecent
  BY <1>1, <1>3, Zenon DEF JWKSInit, AnswersRecent
<1>6. DemandsApart
  BY <1>1 DEF JWKSInit, DemandsApart
<1> QED
  BY <1>4, <1>5, <1>6, Zenon DEF JWKSIInv

\* Every step of the loop, of the verifiers, the issuer and the clock keeps it.
LEMMA JWKSNextInv == JWKSIInv /\ [JWKSNext]_jwksVars => JWKSIInv'
<1> SUFFICES ASSUME JWKSIInv, [JWKSNext]_jwksVars PROVE JWKSIInv'
  BY Zenon
<1>1. CASE \E v \in Verifiers :
             VerifierStep(v) \/ (\E k \in Kids : ResolveKey(v, k))
  BY <1>1, VerifierStepInv, Zenon
<1>2. CASE \E r \in Refreshers : Begin(r) \/ IssuerAnswers(r) \/ RefreshEnds(r)
  BY <1>2, BeginInv, AnswerInv, RefreshEndsInv, Zenon
<1>3. CASE LoopTick \/ LoopReturns \/ CloseCache
  BY <1>3, LoopInv, Zenon
<1>4. CASE Rotate
  BY <1>4, RotateInv, Zenon
<1>5. CASE JWKSTick
  BY <1>5, TickInv, Zenon
<1>6. CASE UNCHANGED jwksVars
  BY <1>6, Zenon DEF jwksVars, JWKSIInv, JWKSTypeOK, AnswersRecent, DemandsApart
<1> QED
  BY <1>1, <1>2, <1>3, <1>4, <1>5, <1>6, Zenon DEF JWKSNext

-----------------------------------------------------------------------------
\* The cache keeps its types and refreshMu is held by exactly the verifier
\* that is refreshing (publicKey locks and unlocks on every path).
THEOREM JWKSTypeCorrect == JWKSSpec => []JWKSTypeOK
<1>1. JWKSIInv => JWKSTypeOK
  BY Zenon DEF JWKSIInv
<1> QED
  BY <1>1, JWKSInitInv, JWKSNextInv, PTL DEF JWKSSpec

\* A key is accepted no later than maxStale plus one fetch timeout after the
\* issuer last published it, for any number of verifiers and rotations
\* (publicKey, isStale, refreshNow).
THEOREM WithdrawnKeysRejected == JWKSSpec => WithdrawnKeysExpire
<1>1. ASSUME JWKSIInv, [JWKSNext]_jwksVars, NEW v \in Verifiers,
             jwksPc[v] # "accept", jwksPc'[v] = "accept"
      PROVE  goneFor[kid[v]] <= MaxStale + Timeout
  <2> USE JWKSAssumption
  <2>0. jwksPc \in [Refreshers -> Locations] /\ v \in Refreshers
    BY <1>1, Zenon DEF JWKSIInv, JWKSTypeOK, Locations, Refreshers
  <2>1. ASSUME Usable(kid[v]) PROVE goneFor[kid[v]] <= MaxStale + Timeout
    <3>1. /\ kid[v] \in Kids /\ goneFor[kid[v]] \in Int
          /\ goneFor[kid[v]] <= fetchAge + Timeout
          /\ fetchAge \in Int /\ fetchAge <= MaxStale
      BY <1>1, <2>1 DEF Usable, JWKSIInv, JWKSTypeOK, AnswersRecent
    <3> QED
      BY <3>1
  <2>2. ASSUME NEW u \in Verifiers,
               VerifierStep(u) \/ (\E k \in Kids : ResolveKey(u, k))
        PROVE  Usable(kid[v])
    <3>1. CASE u = v
      BY <1>1, <2>0, <2>2, <3>1, Zenon
         DEF VerifierStep, Check, Lock, RefreshUnlock, FailStale, FailOther,
             Final, ResolveKey, Goto
    <3>2. CASE u # v
      BY <1>1, <2>0, <2>2, <3>2, Zenon
         DEF VerifierStep, Check, Lock, RefreshUnlock, FailStale, FailOther,
             Final, ResolveKey, Goto
    <3> QED
      BY <3>1, <3>2, Zenon
  <2>3. ASSUME NEW r \in Refreshers,
               Begin(r) \/ IssuerAnswers(r) \/ RefreshEnds(r)
        PROVE  FALSE
    BY <1>1, <2>0, <2>3, Zenon
       DEF Begin, IssuerAnswers, RefreshEnds, StoreKeys, FetchFails,
           AfterRefresh, Goto
  <2>4. ~(LoopTick \/ LoopReturns \/ CloseCache \/ Rotate \/ JWKSTick
            \/ UNCHANGED jwksVars)
    BY <1>1, <2>0, Zenon
       DEF LoopTick, LoopReturns, CloseCache, Rotate, JWKSTick, jwksVars, Goto
  <2> QED
    BY <1>1, <2>1, <2>2, <2>3, <2>4, Zenon DEF JWKSNext
<1>2. JWKSIInv /\ [JWKSNext]_jwksVars =>
        [\A v \in Verifiers :
           jwksPc[v] # "accept" /\ jwksPc'[v] = "accept" =>
             goneFor[kid[v]] <= MaxStale + Timeout]_jwksVars
  BY <1>1, Zenon
<1> QED
  BY <1>2, JWKSInitInv, JWKSNextInv, PTL DEF JWKSSpec, WithdrawnKeysExpire

\* On-demand refreshes are more than minRefetchInterval apart, for any number
\* of verifiers that miss at once (publicKey's check under refreshMu).
THEOREM OnDemandThrottles == JWKSSpec => OnDemandThrottled
<1>1. JWKSIInv /\ [JWKSNext]_jwksVars =>
        [\A v \in Verifiers :
           jwksPc[v] = "begin" /\ jwksPc'[v] = "fetch" =>
             demandAge > MinRefetch]_jwksVars
  BY Zenon DEF JWKSIInv, DemandsApart
<1> QED
  BY <1>1, JWKSInitInv, JWKSNextInv, PTL DEF JWKSSpec, OnDemandThrottled

-----------------------------------------------------------------------------
(* Producer: any publishers, topics, keys and number of writers.           *)

\* A sequence has entries from 1 to its length.
LEMMA SequenceParts ==
  ASSUME NEW S, NEW s \in Seq(S)
  PROVE  Len(s) \in Nat /\ DOMAIN s = 1..Len(s) /\ \A i \in 1..Len(s) : s[i] \in S
OBVIOUS

\* An appended entry is the last, and the others stay where they are.
LEMMA SequenceAppend ==
  ASSUME NEW S, NEW s \in Seq(S), NEW e \in S
  PROVE  /\ Append(s, e) \in Seq(S) /\ Len(Append(s, e)) = Len(s) + 1
         /\ \A i \in 1..Len(s) : Append(s, e)[i] = s[i]
         /\ Append(s, e)[Len(s) + 1] = e
OBVIOUS

\* Sequences of one length with the same entries are the same.
LEMMA SequencesEqual ==
  ASSUME NEW S, NEW s \in Seq(S), NEW t \in Seq(S),
         Len(s) = Len(t), \A i \in 1..Len(s) : s[i] = t[i]
  PROVE  s = t
OBVIOUS

\* Writers are numbered as they are made; who looks for one wants a qualified
\* topic other than the bound one.
WriterTypes ==
  /\ writerTopic \in Seq(TopicNames) /\ Len(writerTopic) >= 1
  /\ extraWriters \subseteq 2..Len(writerTopic)
  /\ early \subseteq 1..Len(writerTopic)
  /\ closePc \in {"open", "bound", "extras", "closed"}
  /\ pubPc \in [Publishers -> {"idle", "lookup", "write"}]
  /\ DOMAIN request = Publishers
  /\ \A p \in Publishers : pubPc[p] = "lookup" =>
       /\ request[p].topic \in TopicNames \ {BoundTopic}
       /\ QualifyTopic(request[p].topic) = request[p].topic

\* An open writer is the bound one, until Close, or in the map, where each topic
\* has one; doomed are the ones that Close has still to reach.
WritersMapped ==
  /\ writerTopic[1] = BoundTopic
  /\ openWriters \subseteq {1} \cup extraWriters
  /\ closePc # "open" => 1 \notin openWriters
  /\ closePc = "extras" => openWriters \subseteq doomed
  /\ closePc = "closed" => early \cap openWriters = {}
  /\ \A w \in extraWriters : writerTopic[w] # BoundTopic
  /\ \A v, w \in extraWriters : writerTopic[v] = writerTopic[w] => v = w

ProducerIInv == WriterTypes /\ WritersMapped

\* A name has at most three parts.
LEMMA ShortSequences ==
  ASSUME NEW S, NEW a \in S, NEW b \in S, NEW c \in S
  PROVE  <<>> \in Seq(S) /\ <<a>> \in Seq(S) /\ <<a, b>> \in Seq(S)
           /\ <<a, b, c>> \in Seq(S)
OBVIOUS

\* What callers pass is a name.
LEMMA ArgsAreNames ==
  ASSUME NEW t \in TopicArgs
  PROVE  t \in TopicNames
<1>1. CASE t = <<>>
  BY <1>1 DEF TopicNames
<1>2. ASSUME NEW b \in Bases,
             t \in {<<b>>, <<b, Env>>, <<b, Env, ".dlq">>}
      PROVE  t \in TopicNames
  <2>1. PICK S : S = Bases \cup {Env, ".dlq"}
    BY Zenon
  <2>2. b \in S /\ Env \in S /\ ".dlq" \in S
    BY <2>1, Zenon
  <2>3. <<b>> \in Seq(S) /\ <<b, Env>> \in Seq(S)
          /\ <<b, Env, ".dlq">> \in Seq(S)
    BY <2>2, ShortSequences, Zenon
  <2>4. t \in Seq(S)
    BY <1>2, <2>3, Zenon
  <2> QED
    BY <2>1, <2>4, Zenon DEF TopicNames
<1> QED
  BY <1>1, <1>2, Zenon DEF TopicArgs

\* A qualified name is a name.
LEMMA QualifiedNames ==
  ASSUME NEW t \in TopicArgs
  PROVE  QualifyTopic(t) \in TopicNames
<1>1. t \in TopicNames
  BY ArgsAreNames, Zenon
<1>2. Append(t, Env) \in TopicNames
  BY <1>1, SequenceAppend, Zenon DEF TopicNames
<1> QED
  BY <1>1, <1>2, Zenon DEF QualifyTopic

\* Qualifying a name again, as writerFor does, changes nothing.
LEMMA QualifyTwice ==
  ASSUME NEW t \in TopicArgs
  PROVE  QualifyTopic(QualifyTopic(t)) = QualifyTopic(t)
<1>1. CASE QualifyTopic(t) = t
  BY <1>1, Zenon
<1>2. CASE QualifyTopic(t) # t
  <2>1. PICK q : q = Append(t, Env)
    BY Zenon
  <2>2. QualifyTopic(t) = q
    BY <1>2, <2>1, Zenon DEF QualifyTopic
  <2>3. t \in TopicNames
    BY ArgsAreNames, Zenon
  <2>4. Len(t) \in Nat /\ Len(q) = Len(t) + 1 /\ q[Len(t) + 1] = Env
    BY <2>1, <2>3, SequenceAppend, SequenceParts DEF TopicNames
  <2>5. q[Len(q)] = Env
    BY <2>4
  <2>6. QualifyTopic(q) = q
    BY <2>5, Zenon DEF QualifyTopic
  <2> QED
    BY <2>2, <2>6, Zenon
<1> QED
  BY <1>1, <1>2, Zenon

\* Only the bound writer exists at first.
LEMMA ProducerInitInv == ProducerInit => ProducerIInv
<1> SUFFICES ASSUME ProducerInit PROVE ProducerIInv
  BY Zenon
<1>1. BoundTopic \in TopicNames
  BY ProducerAssumption, QualifiedNames DEF BoundTopic, TopicArgs
<1>2. writerTopic \in Seq(TopicNames) /\ Len(writerTopic) = 1
      /\ writerTopic[1] = BoundTopic
  BY <1>1 DEF ProducerInit
<1> QED
  BY <1>2 DEF ProducerInit, ProducerIInv, WriterTypes, WritersMapped

\* A call of PublishJSONTo reaches writerFor only with another topic.
LEMMA PublishInv ==
  ASSUME ProducerIInv, NEW p \in Publishers, PublishJSONTo(p)
  PROVE  ProducerIInv'
<1>1. UNCHANGED <<writerTopic, openWriters, extraWriters, closePc, doomed,
                  early>>
  BY Zenon DEF PublishJSONTo, writerVars
<1>2. WritersMapped'
  BY <1>1, Zenon DEF ProducerIInv, WritersMapped
<1>3. /\ pubPc' \in [Publishers -> {"idle", "lookup", "write"}]
      /\ DOMAIN request' = Publishers
      /\ \A q \in Publishers : pubPc'[q] = "lookup" =>
           /\ request'[q].topic \in TopicNames \ {BoundTopic}
           /\ QualifyTopic(request'[q].topic) = request'[q].topic
  <2>1. PICK t \in TopicArgs, k \in MsgKeys \cup {NoKey} :
          LET n == QualifyTopic(t)
              new == [asked |-> t, topic |-> n, key |-> k, n |-> issued']
          IN \/ /\ request' = [request EXCEPT ![p] = new]
                /\ pubPc' = [pubPc EXCEPT ![p] = "write"]
             \/ /\ n # BoundTopic
                /\ request' = [request EXCEPT ![p] = new]
                /\ pubPc' = [pubPc EXCEPT ![p] = "lookup"]
             \/ UNCHANGED <<pubPc, request>>
    BY Zenon DEF PublishJSONTo, PublishFails
  <2> QED
    BY <2>1, QualifiedNames, QualifyTwice DEF ProducerIInv, WriterTypes
<1> QED
  BY <1>1, <1>2, <1>3, Zenon DEF ProducerIInv, WriterTypes

\* writerFor makes a writer only for a topic that has none in the map.
LEMMA WriterForInv ==
  ASSUME ProducerIInv, NEW p \in Publishers, WriterFor(p)
  PROVE  ProducerIInv'
<1>1. /\ pubPc' \in [Publishers -> {"idle", "lookup", "write"}]
      /\ \A q \in Publishers : pubPc'[q] = "lookup" => pubPc[q] = "lookup"
      /\ UNCHANGED <<closePc, doomed, request, early>> /\ closePc # "extras"
  BY Zenon DEF WriterFor, ProducerIInv, WriterTypes
<1>2. CASE UNCHANGED writerVars
  BY <1>1, <1>2, Zenon DEF writerVars, ProducerIInv, WriterTypes, WritersMapped
<1>3. CASE ~UNCHANGED writerVars
  <2>1. PICK n : n = Len(writerTopic) + 1
    BY Zenon
  <2>2. PICK t : t = request[p].topic /\ QualifyTopic(t) = t
    BY Zenon DEF WriterFor, ProducerIInv, WriterTypes
  <2>3. /\ WritersOf(t) = {} /\ writerTopic' = Append(writerTopic, t)
        /\ openWriters' = openWriters \cup {Len(writerTopic')}
        /\ extraWriters' = extraWriters \cup {Len(writerTopic')}
    BY <1>3, <2>2, Zenon DEF WriterFor, writerVars
  <2>4. t \in TopicNames /\ t # BoundTopic
    BY <2>2, Zenon DEF WriterFor, ProducerIInv, WriterTypes
  <2>5. writerTopic \in Seq(TopicNames) /\ Len(writerTopic) \in Nat
    BY SequenceParts, Zenon DEF ProducerIInv, WriterTypes
  <2>6. /\ writerTopic' \in Seq(TopicNames) /\ Len(writerTopic') = n
        /\ writerTopic'[n] = t
        /\ \A i \in 1..Len(writerTopic) : writerTopic'[i] = writerTopic[i]
    BY <2>1, <2>3, <2>4, <2>5, SequenceAppend
  <2>7. WriterTypes'
    <3>1. PICK m \in Nat : m = Len(writerTopic)
      BY <2>5, Zenon
    <3>2. /\ m >= 1 /\ n = m + 1 /\ extraWriters \subseteq 2..m
          /\ early \subseteq 1..m
      BY <2>1, <3>1, Zenon DEF ProducerIInv, WriterTypes
    <3>3. n >= 1 /\ n \in 2..n /\ 2..m \subseteq 2..n /\ 1..m \subseteq 1..n
      BY <3>2
    <3>4. extraWriters' = extraWriters \cup {n}
      BY <2>3, <2>6, Zenon
    <3>5. extraWriters' \subseteq 2..n /\ early' \subseteq 1..n
      BY <1>1, <3>2, <3>3, <3>4, Zenon
    <3> QED
      BY <1>1, <2>6, <3>3, <3>5, Zenon DEF ProducerIInv, WriterTypes
  <2>8. /\ \A w \in extraWriters : /\ w \in 1..Len(writerTopic)
                                   /\ writerTopic[w] # t
        /\ early \subseteq 1..Len(writerTopic) /\ 1 \in 1..Len(writerTopic)
    BY <2>3, <2>5 DEF ProducerIInv, WriterTypes, WritersOf
  <2>9. WritersMapped'
    <3>1. /\ extraWriters' = extraWriters \cup {n}
          /\ openWriters' = openWriters \cup {n}
          /\ n \notin 1..Len(writerTopic) /\ n # 1
      BY <2>1, <2>3, <2>5, <2>6, <2>8
    <3>2. \A w \in extraWriters : writerTopic'[w] = writerTopic[w]
      BY <2>6, <2>8, Zenon
    <3>3. writerTopic'[1] = writerTopic[1]
      BY <2>6, <2>8, Zenon
    <3>4. \A v, w \in extraWriters' :
            writerTopic'[v] = writerTopic'[w] => v = w
      <4>1. \A v, w \in extraWriters : writerTopic[v] = writerTopic[w] => v = w
        BY Zenon DEF ProducerIInv, WritersMapped
      <4>2. \A w \in extraWriters : writerTopic'[w] # writerTopic'[n]
        BY <2>6, <2>8, <3>2, Zenon
      <4> QED
        BY <3>1, <3>2, <4>1, <4>2
    <3>5. \A w \in extraWriters' : writerTopic'[w] # BoundTopic
      BY <2>4, <2>6, <3>1, <3>2, Zenon DEF ProducerIInv, WritersMapped
    <3>6. /\ openWriters' \subseteq {1} \cup extraWriters'
          /\ closePc' # "open" => 1 \notin openWriters'
      BY <1>1, <3>1, Zenon DEF ProducerIInv, WritersMapped
    <3>7. closePc' = "closed" => early' \cap openWriters' = {}
      <4>1. n \notin early
        BY <2>8, <3>1, Zenon
      <4> QED
        BY <1>1, <3>1, <4>1, Zenon DEF ProducerIInv, WritersMapped
    <3>8. writerTopic'[1] = BoundTopic
      BY <3>3, Zenon DEF ProducerIInv, WritersMapped
    <3> QED
      BY <1>1, <3>4, <3>5, <3>6, <3>7, <3>8, Zenon DEF WritersMapped
  <2> QED
    BY <2>7, <2>9, Zenon DEF ProducerIInv
<1> QED
  BY <1>2, <1>3, Zenon

\* Sending a message leaves the writers alone.
LEMMA WriteMessagesInv ==
  ASSUME ProducerIInv, NEW p \in Publishers, WriteMessages(p)
  PROVE  ProducerIInv'
<1>1. /\ pubPc' = [pubPc EXCEPT ![p] = "idle"]
      /\ request' = [request EXCEPT ![p] = NoRequest]
      /\ UNCHANGED <<writerTopic, openWriters, extraWriters, closePc, doomed,
                     early>>
  BY Zenon DEF WriteMessages, writerVars
<1>2. WritersMapped'
  BY <1>1, Zenon DEF ProducerIInv, WritersMapped
<1>3. WriterTypes'
  BY <1>1, Zenon DEF ProducerIInv, WriterTypes
<1> QED
  BY <1>2, <1>3, Zenon DEF ProducerIInv

\* Close: the bound writer first, then the map under extraMu.
LEMMA CloseInv ==
  ASSUME ProducerIInv,
         CloseBound \/ CloseLock \/ CloseUnlock
           \/ (\E w \in doomed : CloseWriter(w))
  PROVE  ProducerIInv'
<1>1. UNCHANGED <<writerTopic, pubPc, request>>
  BY Zenon DEF CloseBound, CloseLock, CloseUnlock, CloseWriter, publishVars,
         writerVars
<1>2. writerTopic \in Seq(TopicNames) /\ DOMAIN writerTopic = 1..Len(writerTopic)
  BY SequenceParts, Zenon DEF ProducerIInv, WriterTypes
<1>3. WriterTypes'
  BY <1>1, <1>2, Zenon DEF CloseBound, CloseLock, CloseUnlock, CloseWriter,
     writerVars, ProducerIInv, WriterTypes
<1>4. WritersMapped'
  <2>1. CASE CloseBound
    BY <2>1, Zenon DEF CloseBound, ProducerIInv, WritersMapped
  <2>2. CASE CloseLock
    BY <2>2, Zenon DEF CloseLock, writerVars, ProducerIInv, WritersMapped
  <2>3. CASE CloseUnlock
    BY <2>3, Zenon DEF CloseUnlock, ProducerIInv, WritersMapped
  <2>4. CASE \E w \in doomed : CloseWriter(w)
    BY <2>4, Zenon DEF CloseWriter, ProducerIInv, WritersMapped
  <2> QED
    BY <2>1, <2>2, <2>3, <2>4, Zenon
<1> QED
  BY <1>3, <1>4, Zenon DEF ProducerIInv

\* Every step of the publishers and of Close keeps the invariant of the writers.
LEMMA ProducerNextInv ==
  ProducerIInv /\ [ProducerNext]_producerVars => ProducerIInv'
<1> SUFFICES ASSUME ProducerIInv, [ProducerNext]_producerVars
             PROVE  ProducerIInv'
  BY Zenon
<1>1. CASE UNCHANGED producerVars
  BY <1>1, Zenon DEF producerVars, ProducerIInv, WriterTypes, WritersMapped
<1>2. CASE ProducerNext
  BY <1>2, PublishInv, WriterForInv, WriteMessagesInv, CloseInv, Zenon
     DEF ProducerNext
<1> QED
  BY <1>1, <1>2, Zenon

-----------------------------------------------------------------------------
\* A topic never has two open writers, for any number of publishers racing in
\* writerFor with each other and with Close.
THEOREM WritersUnique == ProducerSpec => []OneWriterPerTopic
<1>1. ProducerIInv => OneWriterPerTopic
  BY Zenon DEF ProducerIInv, WritersMapped, OneWriterPerTopic
<1> QED
  BY <1>1, ProducerInitInv, ProducerNextInv, PTL DEF ProducerSpec

\* Close leaves none of the writers open that were made before it took extraMu,
\* whichever of their own Close calls fail.
THEOREM WritersClosed == ProducerSpec => []CloseClosesWriters
<1>1. ProducerIInv => CloseClosesWriters
  BY Zenon DEF ProducerIInv, WritersMapped, CloseClosesWriters
<1> QED
  BY <1>1, ProducerInitInv, ProducerNextInv, PTL DEF ProducerSpec

\* A sequence of one element and one more.
LEMMA AppendToOne ==
  ASSUME NEW a, NEW b PROVE Append(<<a>>, b) = <<a, b>>
<1>1. PICK S : a \in S /\ b \in S
  <2>1. a \in {a, b} /\ b \in {a, b}
    BY Zenon
  <2> QED
    BY <2>1, Zenon
<1>2. PICK r, s, t : r = <<a>> /\ s = Append(r, b) /\ t = <<a, b>>
  BY Zenon
<1>3. r \in Seq(S) /\ b \in S
  BY <1>1, <1>2
<1>4. /\ s \in Seq(S) /\ Len(s) = Len(r) + 1
      /\ \A i \in 1..Len(r) : s[i] = r[i]
      /\ s[Len(r) + 1] = b
  BY <1>2, <1>3, SequenceAppend
<1>5. Len(r) = 1 /\ r[1] = a
  BY <1>2, Zenon
<1>6. Len(s) = 2 /\ s[1] = a /\ s[2] = b
  BY <1>4, <1>5
<1>7. t \in Seq(S) /\ Len(t) = 2 /\ t[1] = a /\ t[2] = b
  BY <1>1, <1>2
<1>8. Len(s) = Len(t) /\ \A i \in 1..Len(s) : s[i] = t[i]
  BY <1>6, <1>7
<1>9. s = t
  BY <1>4, <1>7, <1>8, SequencesEqual, Zenon
<1> QED
  BY <1>2, <1>9, Zenon

\* qualifyTopic gives a name the suffix where it is meant to be, whether the
\* caller has put it there or not.
LEMMA QualifiedAsMeant ==
  ASSUME NEW t \in TopicArgs, t # <<>>
  PROVE  QualifyTopic(t) = Meant(t) /\ QualifyTopic(t) # <<>>
<1>1. PICK b \in Bases : t \in {<<b>>, <<b, Env>>, <<b, Env, ".dlq">>}
  BY Zenon DEF TopicArgs
<1>2. b # Env /\ ".dlq" # Env
  BY ProducerAssumption, Zenon DEF Env
<1>3. CASE ~Suffixed
  BY <1>3, Zenon DEF QualifyTopic, Meant
<1>4. CASE Suffixed
  <2>1. CASE t = <<b>>
    <3>1. t[1] = b /\ Len(t) = 1 /\ t # <<>>
      BY <2>1, Zenon
    <3>2. PICK s : s = Append(t, Env)
      BY Zenon
    <3>3. s = <<b, Env>>
      BY <2>1, <3>2, AppendToOne, Zenon
    <3>4. QualifyTopic(t) = s
      BY <1>2, <1>4, <3>1, <3>2 DEF QualifyTopic
    <3>5. Meant(t) = <<b, Env>>
      BY <1>4, <3>1, Zenon DEF Meant
    <3>6. <<b, Env>> # <<>>
      BY Zenon
    <3> QED
      BY <3>3, <3>4, <3>5, <3>6, Zenon
  <2>2. CASE t = <<b, Env>>
    <3>1. t[2] = Env /\ Len(t) = 2 /\ [t EXCEPT ![2] = Env] = t
      BY <2>2
    <3> QED
      BY <1>4, <3>1 DEF QualifyTopic, Meant
  <2>3. CASE t = <<b, Env, ".dlq">>
    <3>1. t[2] = Env /\ Len(t) = 3 /\ [t EXCEPT ![2] = Env] = t
      BY <2>3
    <3>2. 2 \in 1..(Len(t) - 1)
      BY <3>1
    <3> QED
      BY <1>4, <3>1, <3>2 DEF QualifyTopic, Meant
  <2> QED
    BY <1>1, <2>1, <2>2, <2>3, Zenon
<1> QED
  BY <1>3, <1>4, Zenon

\* What a caller means is a topic name; no name means the bound topic.
LEMMA MeantNames ==
  ASSUME NEW t \in TopicArgs
  PROVE  Meant(t) \in TopicNames /\ QualifyTopic(<<>>) = <<>>
<1>1. QualifyTopic(<<>>) = <<>>
  BY Zenon DEF QualifyTopic
<1>2. <<Bound>> \in TopicArgs
  BY ProducerAssumption DEF TopicArgs
<1>3. BoundTopic \in TopicNames
  BY <1>2, QualifiedNames, Zenon DEF BoundTopic
<1>4. t # <<>> => Meant(t) \in TopicNames
  BY QualifiedAsMeant, QualifiedNames, Zenon
<1> QED
  BY <1>1, <1>3, <1>4, Zenon DEF Meant

\* What the invariant says of one message of the log.
LEMMA LoggedKept ==
  ASSUME DeliveryInv, NEW i \in DOMAIN topicLog
  PROVE  MessageKept(topicLog[i]) /\ topicLog[i] \in TopicMessages
<1>1. topicLog \in Seq(TopicMessages) /\ MessageKept(topicLog[i])
  BY Zenon DEF DeliveryInv
<1> QED
  BY <1>1, SequenceParts, Zenon

\* The log and the requests stay as they are while the writers change under
\* them only by growing.
LEMMA DeliveryFrame ==
  ASSUME ProducerIInv, DeliveryInv,
         UNCHANGED <<requireKey, pubPc, request, writer, issued, topicLog>>,
         DOMAIN writerTopic \subseteq DOMAIN writerTopic',
         \A w \in DOMAIN writerTopic : writerTopic'[w] = writerTopic[w]
  PROVE  DeliveryInv'
<1>1. ASSUME NEW p \in Publishers PROVE RequestMade(p)'
  BY Zenon DEF DeliveryInv, RequestMade
<1>2. ASSUME NEW i \in DOMAIN topicLog' PROVE MessageKept(topicLog[i])'
  BY Zenon DEF DeliveryInv, MessageKept
<1> QED
  BY <1>1, <1>2, Zenon DEF DeliveryInv

\* A new event is numbered above all that were delivered.
LEMMA PublishDelivery ==
  ASSUME ProducerIInv, DeliveryInv, NEW p \in Publishers, PublishJSONTo(p)
  PROVE  DeliveryInv'
<1>1. /\ UNCHANGED <<requireKey, writerTopic, topicLog>>
      /\ issued' = issued + 1 /\ issued \in Nat /\ pubPc[p] = "idle"
  BY Zenon DEF PublishJSONTo, writerVars, DeliveryInv
<1>2. /\ DOMAIN request = Publishers /\ DOMAIN writer = Publishers
      /\ pubPc \in [Publishers -> {"idle", "lookup", "write"}]
      /\ 1 \in DOMAIN writerTopic /\ writerTopic[1] = BoundTopic
  <2>1. writerTopic \in Seq(TopicNames) /\ Len(writerTopic) >= 1
    BY Zenon DEF ProducerIInv, WriterTypes
  <2>2. 1 \in DOMAIN writerTopic
    BY <2>1, SequenceParts
  <2> QED
    BY <2>2, Zenon DEF ProducerIInv, WriterTypes, WritersMapped, DeliveryInv
<1>3. PICK t \in TopicArgs, k \in MsgKeys \cup {NoKey} :
        LET q == QualifyTopic(t)
            bound == q \in {<<>>, BoundTopic}
            new == [asked |-> t, topic |-> q, key |-> k, n |-> issued']
        IN \/ /\ bound /\ (requireKey => k # NoKey)
              /\ request' = [request EXCEPT ![p] = new]
              /\ writer' = [writer EXCEPT ![p] = 1]
              /\ pubPc' = [pubPc EXCEPT ![p] = "write"]
           \/ /\ ~bound /\ ~requireKey
              /\ request' = [request EXCEPT ![p] = new]
              /\ pubPc' = [pubPc EXCEPT ![p] = "lookup"]
              /\ writer' = writer
           \/ UNCHANGED <<pubPc, request, writer>>
  BY Zenon DEF PublishJSONTo, PublishFails
<1> DEFINE new == [asked |-> t, topic |-> QualifyTopic(t), key |-> k, n |-> issued']
<1>4. new.asked = t /\ new.topic = QualifyTopic(t) /\ new.key = k /\ new.n = issued'
  BY Zenon
<1> HIDE DEF new
<1>5. DOMAIN writer' = Publishers
      /\ \A q \in Publishers \ {p} : pubPc'[q] = pubPc[q] /\ request'[q] = request[q]
                                     /\ writer'[q] = writer[q]
  BY <1>2, <1>3, Zenon
<1>6. \/ pubPc'[p] = "idle"
      \/ /\ pubPc'[p] = "write" /\ request'[p] = new /\ writer'[p] = 1
         /\ QualifyTopic(t) \in {<<>>, BoundTopic} /\ (requireKey => k # NoKey)
      \/ /\ pubPc'[p] = "lookup" /\ request'[p] = new /\ ~requireKey
         /\ QualifyTopic(t) \notin {<<>>, BoundTopic}
  BY <1>1, <1>2, <1>3, Zenon DEF new
<1>7. ASSUME NEW q \in Publishers PROVE RequestMade(q)'
  <2>1. CASE q # p
    <3>1. RequestMade(q) /\ 1..issued \subseteq 1..issued'
      BY <1>1 DEF DeliveryInv
    <3> QED
      BY <1>1, <1>5, <2>1, <3>1, Zenon DEF RequestMade
  <2>2. CASE q = p
    <3>1. issued' \in 1..issued'
      BY <1>1
    <3>2. QualifyTopic(t) \in {<<>>, BoundTopic} => Meant(t) = BoundTopic
      <4>1. CASE t = <<>>
        BY <4>1, Zenon DEF Meant
      <4>2. CASE t # <<>>
        BY <4>2, QualifiedAsMeant, Zenon
      <4> QED
        BY <4>1, <4>2, Zenon
    <3>3. QualifyTopic(t) # <<>> => t # <<>>
      BY MeantNames, Zenon
    <3> QED
      BY <1>1, <1>2, <1>4, <1>6, <2>2, <3>1, <3>2, <3>3, Zenon DEF RequestMade
  <2> QED
    BY <2>1, <2>2, Zenon
<1>8. ASSUME NEW i \in DOMAIN topicLog' PROVE MessageKept(topicLog[i])'
  <2>1. MessageKept(topicLog[i]) /\ topicLog[i] \in TopicMessages
    BY <1>1, LoggedKept, Zenon
  <2>2. topicLog[i].by \in Publishers /\ topicLog[i].n \in Nat
    BY <2>1, Zenon DEF TopicMessages
  <2>3. topicLog[i].n <= issued' /\ topicLog[i].n < issued'
    BY <1>1, <2>1, <2>2 DEF MessageKept
  <2> QED
    BY <1>1, <1>4, <1>5, <1>6, <2>1, <2>2, <2>3 DEF MessageKept
<1> QED
  BY <1>1, <1>5, <1>7, <1>8 DEF DeliveryInv

\* The writer that writerFor finds or makes is one for the topic meant.
LEMMA WriterForDelivery ==
  ASSUME ProducerIInv, DeliveryInv, NEW p \in Publishers, WriterFor(p)
  PROVE  DeliveryInv'
<1>1. /\ UNCHANGED <<requireKey, request, issued, topicLog>>
      /\ pubPc[p] = "lookup" /\ pubPc' = [pubPc EXCEPT ![p] = "write"]
      /\ pubPc \in [Publishers -> {"idle", "lookup", "write"}]
      /\ DOMAIN writer = Publishers
      /\ writerTopic \in Seq(TopicNames) /\ request[p].topic \in TopicNames
      /\ QualifyTopic(request[p].topic) = request[p].topic
  BY Zenon DEF WriterFor, DeliveryInv, ProducerIInv, WriterTypes
<1>2. Len(writerTopic) \in Nat /\ DOMAIN writerTopic = 1..Len(writerTopic)
  BY <1>1, SequenceParts, Zenon
<1>3. /\ DOMAIN writerTopic \subseteq DOMAIN writerTopic'
      /\ \A w \in DOMAIN writerTopic : writerTopic'[w] = writerTopic[w]
      /\ \E w \in DOMAIN writerTopic' :
           writer' = [writer EXCEPT ![p] = w] /\ writerTopic'[w] = request[p].topic
  <2>1. CASE /\ \E w \in WritersOf(request[p].topic) :
                  writer' = [writer EXCEPT ![p] = w]
             /\ UNCHANGED writerVars
    <3>1. extraWriters \subseteq DOMAIN writerTopic
      BY <1>2 DEF ProducerIInv, WriterTypes
    <3> QED
      BY <2>1, <3>1, Zenon DEF WritersOf, writerVars
  <2>2. CASE /\ writerTopic' = Append(writerTopic, request[p].topic)
             /\ writer' = [writer EXCEPT ![p] = Len(writerTopic')]
    <3>1. PICK t \in TopicNames : t = request[p].topic
      BY <1>1, Zenon
    <3>2. /\ writerTopic' \in Seq(TopicNames)
          /\ Len(writerTopic') = Len(writerTopic) + 1
          /\ \A i \in 1..Len(writerTopic) : writerTopic'[i] = writerTopic[i]
          /\ writerTopic'[Len(writerTopic) + 1] = t
      BY <1>1, <2>2, <3>1, SequenceAppend
    <3>3. DOMAIN writerTopic' = 1..(Len(writerTopic) + 1)
      BY <3>2, SequenceParts, Zenon
    <3>4. Len(writerTopic') \in DOMAIN writerTopic'
          /\ DOMAIN writerTopic \subseteq DOMAIN writerTopic'
      BY <1>2, <3>2, <3>3
    <3> QED
      BY <1>2, <2>2, <3>1, <3>2, <3>4, Zenon
  <2> QED
    BY <1>1, <2>1, <2>2, Zenon DEF WriterFor
<1>4. PICK w \in DOMAIN writerTopic' :
        writer' = [writer EXCEPT ![p] = w] /\ writerTopic'[w] = request[p].topic
  BY <1>3, Zenon
<1>5. /\ DOMAIN writer' = Publishers /\ writer'[p] = w /\ pubPc'[p] = "write"
      /\ \A q \in Publishers \ {p} : pubPc'[q] = pubPc[q] /\ writer'[q] = writer[q]
  BY <1>1, <1>4, Zenon
<1>6. ASSUME NEW q \in Publishers PROVE RequestMade(q)'
  <2>1. CASE q # p
    <3>1. RequestMade(q)
      BY Zenon DEF DeliveryInv
    <3>2. pubPc'[q] = pubPc[q] /\ writer'[q] = writer[q]
      BY <1>5, <2>1, Zenon
    <3> QED
      BY <1>1, <1>3, <3>1, <3>2, Zenon DEF RequestMade
  <2>2. CASE q = p
    <3>1. RequestMade(p)
      BY Zenon DEF DeliveryInv
    <3>2. request[p].topic = Meant(request[p].asked)
      BY <1>1, <3>1, QualifiedAsMeant, Zenon DEF RequestMade
    <3> QED
      BY <1>1, <1>4, <1>5, <2>2, <3>1, <3>2, Zenon DEF RequestMade
  <2> QED
    BY <2>1, <2>2, Zenon
<1>7. ASSUME NEW i \in DOMAIN topicLog' PROVE MessageKept(topicLog[i])'
  <2>1. MessageKept(topicLog[i]) /\ topicLog[i] \in TopicMessages
    BY <1>1, LoggedKept, Zenon
  <2>2. topicLog[i].by \in Publishers
    BY <2>1, Zenon DEF TopicMessages
  <2>3. pubPc'[topicLog[i].by] # "idle" => pubPc[topicLog[i].by] # "idle"
    BY <1>1, <1>5, <2>2, Zenon
  <2> QED
    BY <1>1, <2>1, <2>3, Zenon DEF MessageKept
<1> QED
  BY <1>1, <1>5, <1>6, <1>7, Zenon DEF DeliveryInv

\* A message that arrives goes where it was meant to, after all that its
\* publisher has delivered before.
LEMMA DeliveredKept ==
  ASSUME ProducerIInv, DeliveryInv, NEW p \in Publishers, pubPc[p] = "write",
         NEW q \in Balancer(request[p].key)
  PROVE  LET m == Delivered(p, q) IN
         /\ m \in TopicMessages /\ m.by = p /\ m.topic = m.meant /\ m.n = request[p].n
         /\ m.n <= issued
         /\ requireKey => m.key \in MsgKeys /\ m.partition = PartitionOf[m.key]
         /\ \A i \in DOMAIN topicLog : topicLog[i].by = p => topicLog[i].n <= m.n
<1> DEFINE m == Delivered(p, q)
<1>1. RequestMade(p) /\ issued \in Nat /\ requireKey \in BOOLEAN
  BY Zenon DEF DeliveryInv
<1>2. /\ request[p].asked \in TopicArgs /\ request[p].key \in MsgKeys \cup {NoKey}
      /\ requireKey => request[p].key \in MsgKeys
      /\ request[p].n \in 1..issued
      /\ writerTopic[writer[p]] = Meant(request[p].asked)
  BY <1>1, Zenon DEF RequestMade
<1>3. Meant(request[p].asked) \in TopicNames
  BY <1>2, MeantNames, Zenon
<1>4. q \in KafkaPartitions /\ (requireKey => q = PartitionOf[request[p].key])
  BY <1>2, ProducerAssumption, Zenon DEF Balancer
<1>5. request[p].n \in Nat /\ request[p].n <= issued
  <2>1. issued \in Nat /\ request[p].n \in 1..issued
    BY <1>1, <1>2, Zenon
  <2> QED
    BY <2>1
<1>6. /\ m.topic = Meant(request[p].asked) /\ m.meant = Meant(request[p].asked)
      /\ m.partition = q /\ m.key = request[p].key /\ m.by = p
      /\ m.n = request[p].n
  BY <1>2, Zenon DEF Delivered
<1>7. m \in TopicMessages
  BY <1>2, <1>3, <1>4, <1>5, Zenon DEF Delivered, TopicMessages
<1>8. ASSUME NEW i \in DOMAIN topicLog, topicLog[i].by = p
      PROVE  topicLog[i].n <= request[p].n
  <2>1. MessageKept(topicLog[i]) /\ topicLog[i] \in TopicMessages
    BY LoggedKept, Zenon
  <2>2. topicLog[i].n \in Nat
    BY <2>1, Zenon DEF TopicMessages
  <2>3. topicLog[i].n < request[p].n
    BY <1>8, <2>1, Zenon DEF MessageKept
  <2> QED
    BY <1>5, <2>2, <2>3
<1> HIDE DEF m
<1> QED
  BY <1>2, <1>4, <1>5, <1>6, <1>7, <1>8, Zenon DEF m

\* WriteMessages appends to the log or leaves it.
LEMMA WriteDelivery ==
  ASSUME ProducerIInv, DeliveryInv, NEW p \in Publishers, WriteMessages(p)
  PROVE  DeliveryInv'
<1>1. /\ UNCHANGED <<requireKey, writerTopic, issued>> /\ pubPc[p] = "write"
      /\ pubPc' = [pubPc EXCEPT ![p] = "idle"]
      /\ request' = [request EXCEPT ![p] = NoRequest]
      /\ writer' = [writer EXCEPT ![p] = 0]
      /\ pubPc \in [Publishers -> {"idle", "lookup", "write"}]
      /\ DOMAIN request = Publishers /\ DOMAIN writer = Publishers
  BY Zenon DEF WriteMessages, writerVars, ProducerIInv, WriterTypes, DeliveryInv
<1>2. /\ DOMAIN writer' = Publishers /\ pubPc'[p] = "idle"
      /\ \A q \in Publishers \ {p} : pubPc'[q] = pubPc[q] /\ request'[q] = request[q]
                                     /\ writer'[q] = writer[q]
  BY <1>1, Zenon
<1>3. ASSUME NEW q \in Publishers PROVE RequestMade(q)'
  BY <1>1, <1>2, Zenon DEF DeliveryInv, RequestMade
<1>4. ASSUME NEW m \in TopicMessages, MessageKept(m) PROVE MessageKept(m)'
  <2>1. m.by \in Publishers
    BY Zenon DEF TopicMessages
  <2> QED
    BY <1>1, <1>2, <1>4, <2>1, Zenon DEF MessageKept
<1>5. CASE topicLog' = topicLog
  BY <1>1, <1>2, <1>3, <1>4, <1>5 DEF DeliveryInv
<1>6. ASSUME NEW q \in Balancer(request[p].key),
             topicLog' = Append(topicLog, Delivered(p, q))
      PROVE  DeliveryInv'
  <2>1. PICK m : m = Delivered(p, q)
    BY Zenon
  <2>2. /\ m \in TopicMessages /\ m.by = p /\ m.topic = m.meant /\ m.n <= issued
        /\ requireKey => m.key \in MsgKeys /\ m.partition = PartitionOf[m.key]
        /\ \A i \in DOMAIN topicLog : topicLog[i].by = p => topicLog[i].n <= m.n
    BY <1>1, <2>1, DeliveredKept, Zenon
  <2>3. topicLog \in Seq(TopicMessages) /\ m \in TopicMessages
    BY <2>2, Zenon DEF DeliveryInv
  <2>4. /\ topicLog' \in Seq(TopicMessages) /\ Len(topicLog') = Len(topicLog) + 1
        /\ \A i \in 1..Len(topicLog) : topicLog'[i] = topicLog[i]
        /\ topicLog'[Len(topicLog) + 1] = m
    <3>1. topicLog' = Append(topicLog, m)
      BY <1>6, <2>1, Zenon
    <3> QED
      BY <2>3, <3>1, SequenceAppend
  <2>5. /\ Len(topicLog) \in Nat /\ DOMAIN topicLog = 1..Len(topicLog)
        /\ DOMAIN topicLog' = 1..(Len(topicLog) + 1)
    BY <2>3, <2>4, SequenceParts, Zenon
  <2>6. MessageKept(m)'
    BY <1>1, <1>2, <2>2, Zenon DEF MessageKept
  <2>7. ASSUME NEW i \in DOMAIN topicLog' PROVE MessageKept(topicLog[i])'
    <3>1. CASE i \in DOMAIN topicLog
      <4>1. MessageKept(topicLog[i]) /\ topicLog[i] \in TopicMessages
        BY <3>1, LoggedKept, Zenon
      <4>2. PICK e \in TopicMessages : e = topicLog[i] /\ e = topicLog'[i]
        BY <2>4, <2>5, <3>1, <4>1, Zenon
      <4>3. MessageKept(e)'
        BY <1>4, <4>1, <4>2, Zenon
      <4> QED
        BY <4>2, <4>3, Zenon DEF MessageKept
    <3>2. CASE i = Len(topicLog) + 1
      BY <2>4, <2>6, <3>2, Zenon DEF MessageKept
    <3> QED
      BY <2>5, <3>1, <3>2
  <2>8. ASSUME NEW i \in DOMAIN topicLog', NEW j \in DOMAIN topicLog', i < j,
               topicLog'[i].by = topicLog'[j].by
        PROVE  topicLog'[i].n <= topicLog'[j].n
    <3>1. i \in DOMAIN topicLog /\ topicLog'[i] = topicLog[i]
      BY <2>4, <2>5, <2>8
    <3>2. CASE j \in DOMAIN topicLog
      <4>1. topicLog'[j] = topicLog[j]
        BY <2>4, <2>5, <3>2, Zenon
      <4> QED
        BY <2>8, <3>1, <3>2, <4>1, Zenon DEF DeliveryInv
    <3>3. CASE j = Len(topicLog) + 1
      BY <2>2, <2>4, <2>8, <3>1, <3>3, Zenon
    <3> QED
      BY <2>5, <3>2, <3>3
  <2> QED
    BY <1>1, <1>2, <1>3, <2>4, <2>7, <2>8, Zenon DEF DeliveryInv
<1> QED
  BY <1>5, <1>6, Zenon DEF WriteMessages

\* Every step of the publishers and of Close keeps both invariants.
LEMMA DeliveryInductive ==
  ASSUME ProducerIInv, DeliveryInv, [ProducerNext]_producerVars PROVE DeliveryInv'
<1>1. CASE \/ UNCHANGED producerVars
           \/ CloseBound \/ CloseLock \/ CloseUnlock
           \/ (\E w \in doomed : CloseWriter(w))
  <2>1. UNCHANGED <<requireKey, writerTopic, pubPc, request, writer, issued, topicLog>>
    BY <1>1, Zenon DEF producerVars, CloseBound, CloseLock, CloseUnlock, CloseWriter,
                publishVars, writerVars
  <2> QED
    BY <2>1, DeliveryFrame, Zenon
<1> QED
  BY <1>1, PublishDelivery, WriterForDelivery, WriteDelivery, Zenon DEF ProducerNext

\* Every message is on the topic its caller meant, and those of a keyed producer
\* with one key are in one partition, each publisher's in the order of its
\* calls, for any publishers, topics and keys, whoever made the writer.
THEOREM DeliveriesMeant == ProducerSpec => []DeliveredAsMeant
<1>1. ProducerInit => DeliveryInv
  BY DEF ProducerInit, DeliveryInv, RequestMade
<1>2. DeliveryInv => DeliveredAsMeant
  <2> SUFFICES ASSUME DeliveryInv PROVE DeliveredAsMeant
    BY Zenon
  <2>1. \A i \in DOMAIN topicLog : MessageKept(topicLog[i])
    BY Zenon DEF DeliveryInv
  <2> QED
    BY <2>1, Zenon DEF DeliveryInv, MessageKept, DeliveredAsMeant
<1> QED
  BY <1>1, <1>2, ProducerInitInv, ProducerNextInv, DeliveryInductive, PTL
     DEF ProducerSpec
=============================================================================
