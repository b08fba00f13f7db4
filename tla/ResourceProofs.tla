--------------------------- MODULE ResourceProofs ---------------------------
(* Proofs about what guards the resources of a service: CircuitBreaker,    *)
(* RedisLock and ReplicaPool.                                              *)
EXTENDS CircuitBreaker, RedisLock, ReplicaPool, FiniteSetTheorems, TLAPS

-----------------------------------------------------------------------------
(* CircuitBreaker: any number of callers, any limits.                      *)

\* The callers in flight form a finite set, so they can be counted.
LEMMA InFlightFinite ==
  ASSUME TypeOK PROVE IsFiniteSet(probing) /\ Cardinality(probing) \in Nat
<1>1. IsFiniteSet(probing)
  BY BreakerAssumption, FS_Subset, Zenon DEF TypeOK
<1> QED
  BY <1>1, FS_CardinalityType, Zenon

\* The initial state satisfies the invariant.
LEMMA BreakerInitInv == Init => IInv
<1> SUFFICES ASSUME Init PROVE IInv
  BY Zenon
<1>1. TypeOK
  <2>1. elapsed \in BOOLEAN /\ healthy \in BOOLEAN
    BY Zenon DEF Init
  <2> QED
    BY <2>1, BreakerAssumption DEF Init, TypeOK
<1>2. ClosedBelowThreshold /\ ProbesAccounted
  BY BreakerAssumption DEF Init, ClosedBelowThreshold, ProbesAccounted
<1> QED
  BY <1>1, <1>2, Zenon DEF IInv

\* beforeRequest keeps the invariant.
LEMMA StartStep == ASSUME NEW c \in Callers, IInv, Start(c) PROVE IInv'
<1> USE BreakerAssumption DEF IInv
<1>1. IsFiniteSet(probing) /\ Cardinality(probing) \in Nat /\ c \notin probing
  BY InFlightFinite, Zenon DEF Start, TypeOK
<1>2. CASE state = "closed"
  BY <1>2, Zenon DEF Start, BeforeRequest, cbVars, TypeOK, ClosedBelowThreshold,
              ProbesAccounted
<1>3. CASE state = "open"
  <2>1. ToHalfOpen /\ probing' = {c} /\ probes' = 1 /\ UNCHANGED <<healthy, lost>>
        /\ running' = running \cup {c}
    BY <1>3, Zenon DEF Start, BeforeRequest
  <2>2. Cardinality(probing') = 1
    BY <2>1, FS_Singleton, Zenon
  <2> QED
    BY <1>3, <2>1, <2>2
       DEF ToHalfOpen, TypeOK, ClosedBelowThreshold, ProbesAccounted
<1>4. CASE state = "halfopen"
  <2>1. /\ halfOpenCalls < MaxHalfOpenCalls
        /\ halfOpenCalls' = halfOpenCalls + 1
        /\ probing' = probing \cup {c} /\ probes' = probes + 1
        /\ UNCHANGED <<state, failures, successes, elapsed, healthy, lost>>
        /\ running' = running \cup {c}
    BY <1>4, Zenon DEF Start, BeforeRequest, HalfOpenHasRoom
  <2>2. Cardinality(probing') = Cardinality(probing) + 1
    BY <1>1, <2>1, FS_AddElement, Zenon
  <2>3. TypeOK' /\ ClosedBelowThreshold'
    BY <2>1 DEF TypeOK, ClosedBelowThreshold
  <2>4. ProbesAccounted'
    BY <1>1, <1>4, <2>1, <2>2 DEF ProbesAccounted, TypeOK
  <2> QED
    BY <2>3, <2>4, Zenon
<1> QED
  BY <1>2, <1>3, <1>4, Zenon DEF TypeOK

\* A call that leaves the probes, by returning or by a panic, lowers their
\* number by one at most.
LEMMA LeaveProbes ==
  ASSUME NEW c \in Callers, TypeOK, probing' = probing \ {c}
  PROVE  /\ Cardinality(probing') \in Nat
         /\ Cardinality(probing') >= Cardinality(probing) - 1
<1>1. IsFiniteSet(probing) /\ Cardinality(probing) \in Nat
  BY InFlightFinite, Zenon
<1>2. CASE c \in probing
  <2>1. Cardinality(probing \ {c}) = Cardinality(probing) - 1
    BY <1>1, <1>2, FS_RemoveElement, Zenon
  <2>2. Cardinality(probing \ {c}) \in Nat
    BY <1>1, FS_RemoveElement, FS_CardinalityType, Zenon
  <2> QED
    BY <1>1, <2>1, <2>2
<1>3. CASE c \notin probing
  <2>1. probing' = probing
    BY <1>3, Zenon
  <2> QED
    BY <1>1, <2>1
<1> QED
  BY <1>2, <1>3, Zenon

\* afterRequest keeps the invariant, whichever way the call counts and whatever
\* state the breaker is in by then.
LEMMA FinishStep == ASSUME NEW c \in Callers, IInv, Finish(c) PROVE IInv'
<1> USE BreakerAssumption DEF IInv, cbVars
<1>1. /\ running' = running \ {c} /\ probing' = probing \ {c}
      /\ UNCHANGED <<healthy, probes, lost>>
  BY Zenon DEF Finish
<1>2. Cardinality(probing') \in Nat
      /\ Cardinality(probing') >= Cardinality(probing) - 1
  BY <1>1, LeaveProbes, Zenon
<1>3. Cardinality(probing) \in Nat
  BY InFlightFinite, Zenon
<1>4. CASE OnFailure
  <2>1. CASE state = "closed"
    <3>1. elapsed' \in BOOLEAN
      BY <1>4, <2>1, Zenon DEF OnFailure, ToOpen, TypeOK
    <3>2. /\ failures' = failures + 1 /\ UNCHANGED <<successes, halfOpenCalls>>
          /\ \/ failures + 1 >= MaxFailures /\ state' = "open"
             \/ failures + 1 < MaxFailures /\ state' = "closed"
      BY <1>4, <2>1 DEF OnFailure, ToOpen, TypeOK
    <3> QED
      BY <1>1, <2>1, <3>1, <3>2 DEF TypeOK, ClosedBelowThreshold, ProbesAccounted
  <2>2. CASE state # "closed"
    BY <1>1, <1>4, <2>2, Zenon DEF OnFailure, ToOpen, TypeOK, ClosedBelowThreshold,
                            ProbesAccounted
  <2> QED
    BY <2>1, <2>2, Zenon
<1>5. CASE OnSuccess /\ state # "halfopen"
  BY <1>1, <1>5 DEF OnSuccess, TypeOK, ClosedBelowThreshold, ProbesAccounted
<1>6. CASE state = "halfopen" /\ ToClosed
  BY <1>1, <1>6 DEF ToClosed, TypeOK, ClosedBelowThreshold, ProbesAccounted
<1>7. CASE /\ state = "halfopen" /\ ~EnoughSuccesses
           /\ successes' = successes + 1
           /\ UNCHANGED <<state, failures, halfOpenCalls, elapsed>>
  <2>1. TypeOK' /\ ClosedBelowThreshold'
    BY <1>1, <1>7 DEF TypeOK, ClosedBelowThreshold, ProbesAccounted
  <2>2. ProbesAccounted'
    BY <1>1, <1>2, <1>3, <1>7 DEF TypeOK, ProbesAccounted, EnoughSuccesses
  <2> QED
    BY <2>1, <2>2, Zenon
<1> QED
  BY <1>4, <1>5, <1>6, <1>7, Zenon DEF Finish, AfterRequest, OnSuccess

\* A panic keeps the invariant: the probe moves to the lost ones.
LEMMA PanicStep == ASSUME NEW c \in Callers, IInv, Panic(c) PROVE IInv'
<1> USE BreakerAssumption DEF IInv, cbVars, Panic
<1>1. Cardinality(probing') \in Nat
      /\ Cardinality(probing') >= Cardinality(probing) - 1
  BY LeaveProbes, Zenon
<1>2. Cardinality(probing) \in Nat
  BY InFlightFinite, Zenon
<1>3. TypeOK' /\ ClosedBelowThreshold'
  BY DEF TypeOK, ClosedBelowThreshold
<1>4. ProbesAccounted'
  BY <1>1, <1>2 DEF TypeOK, ProbesAccounted
<1> QED
  BY <1>3, <1>4, Zenon

\* The invariant holds in every reachable state.
THEOREM BreakerInvariance == Spec => []IInv
<1>1. IInv /\ [Next]_vars => IInv'
  <2> SUFFICES ASSUME IInv, [Next]_vars PROVE IInv'
    BY Zenon
  <2>1. CASE Reset
    BY <2>1, BreakerAssumption
       DEF Reset, ToClosed, IInv, TypeOK, ClosedBelowThreshold, ProbesAccounted
  <2>2. CASE TimeoutElapses \/ CalleeRecovers
    BY <2>2, Zenon DEF TimeoutElapses, CalleeRecovers, cbVars, IInv, TypeOK,
                ClosedBelowThreshold, ProbesAccounted
  <2>3. CASE UNCHANGED vars
    BY <2>3, Zenon DEF vars, IInv, TypeOK, ClosedBelowThreshold, ProbesAccounted
  <2> QED
    BY <2>1, <2>2, <2>3, StartStep, FinishStep, PanicStep, Zenon DEF Next
<1> QED
  BY BreakerInitInv, <1>1, PTL DEF Spec

\* The breaker's fields stay within their limits for every number of callers.
THEOREM BreakerTypeCorrect == Spec => []TypeOK
<1>1. IInv => TypeOK
  BY Zenon DEF IInv
<1> QED
  BY BreakerInvariance, <1>1, PTL

\* For every number of callers the breaker is closed exactly below maxFailures.
THEOREM ClosedExactly == Spec => []ClosedBelowThreshold
<1>1. IInv => ClosedBelowThreshold
  BY Zenon DEF IInv
<1> QED
  BY BreakerInvariance, <1>1, PTL

\* However many callers race, at most maxHalfOpenCalls + 1 of them are admitted
\* in one half-open period.
THEOREM ProbesBounded == Spec => []ProbeBound
<1>1. IInv => ProbeBound
  BY BreakerAssumption DEF IInv, TypeOK, ProbesAccounted, ProbeBound
<1> QED
  BY BreakerInvariance, <1>1, PTL

\* With at most one panic a rejecting half-open breaker still has a probe out.
THEOREM NeverWedged == Spec => []NotWedged
<1>1. ASSUME IInv, state = "halfopen", ~HalfOpenHasRoom, lost <= 1
      PROVE  probing # {}
  <2>1. successes + Cardinality(probing) + lost >= MaxHalfOpenCalls + 1
        /\ successes < MaxHalfOpenCalls
    BY <1>1, BreakerAssumption, InFlightFinite
       DEF IInv, TypeOK, ProbesAccounted, HalfOpenHasRoom
  <2>2. Cardinality(probing) \in Nat /\ Cardinality(probing) # 0
    BY <1>1, <2>1, BreakerAssumption, InFlightFinite DEF IInv, TypeOK
  <2> QED
    BY <2>2, FS_EmptySet, Zenon
<1>2. IInv => NotWedged
  BY <1>1, Zenon DEF NotWedged
<1> QED
  BY BreakerInvariance, <1>2, PTL

-----------------------------------------------------------------------------
(* RedisLock: any set of callers, any expiration.                          *)

\* Where a caller can be, and where it is once it has called Unlock.
LockPcs == {"idle", "locking", "granted", "refused", "held", "unlocking", "unlocked",
            "done", "crashed"}
Unlocking == {"unlocking", "unlocked", "done"}

\* A step on the caller's program counter alone, that may leave its command on
\* the way, keeps the invariant.
LEMMA GotoStep ==
  ASSUME LockIInv, NEW c \in Lockers, NEW k \in LockPcs,
         lockPc' = [lockPc EXCEPT ![c] = k],
         k \in Unlocking => lockPc[c] \in Unlocking,
         lockPc[c] \in Unlocking \cup {"crashed"} => k \in Unlocking \cup {"crashed"},
         UNCHANGED <<keyVars, lease>>, lockFaults' \in 0..MaxLockFaults,
         late' \in {late, late \cup Sent(c)}
  PROVE  LockIInv'
<1> USE DEF LockIInv, LockPcs, Unlocking, keyVars
<1>1. late' \subseteq {"locking", "unlocking"} \X Lockers
  BY DEF LockTypeOK, Sent
<1>2. LockTypeOK'
  BY <1>1, Zenon DEF LockTypeOK
<1>3. LeaseBacked'
  BY Zenon DEF LeaseBacked
<1>4. \A d \in Lockers : <<"unlocking", d>> \in late' =>
        <<"unlocking", d>> \in late \/ (d = c /\ lockPc[c] = "unlocking")
  BY DEF Sent
<1>5. \A d \in Lockers : lockPc'[d] = IF d = c THEN k ELSE lockPc[d]
  BY Zenon DEF LockTypeOK
<1>6. UnlocksLast'
  BY <1>4, <1>5 DEF UnlocksLast
<1> QED
  BY <1>2, <1>3, <1>6, Zenon

\* SETNX on behalf of a caller, with the lease or, when it is late, without.
LEMMA SetNXStep ==
  ASSUME LockIInv, NEW c \in Lockers, SetNX(c),
         \/ /\ keyValue = Nobody /\ LockGoto(c, "locking", "granted")
            /\ lease' = [lease EXCEPT ![c] = Expiration]
         \/ /\ keyValue # Nobody /\ LockGoto(c, "locking", "refused")
            /\ UNCHANGED lease
         \/ UNCHANGED <<lockPc, lease>>,
         late' \subseteq late, UNCHANGED lockFaults
  PROVE  LockIInv'
<1> USE LockAssumption DEF LockIInv, keyVars
<1>1. CASE keyValue = Nobody
  <2>1. \A d \in Lockers : lease[d] = 0
    BY <1>1 DEF LockTypeOK, LeaseBacked
  <2>2. keyValue' = c /\ keyTTL' = Expiration
    BY <1>1, Zenon DEF SetNX
  <2>3. \/ /\ lockPc[c] = "locking" /\ lockPc' = [lockPc EXCEPT ![c] = "granted"]
           /\ lease' = [lease EXCEPT ![c] = Expiration]
        \/ UNCHANGED <<lockPc, lease>>
    BY <1>1, Zenon DEF LockGoto
  <2>4. LockTypeOK'
    BY <2>2, <2>3 DEF LockTypeOK
  <2>5. LeaseBacked'
    BY <2>1, <2>2, <2>3 DEF LeaseBacked, LockTypeOK
  <2>6. UnlocksLast'
    BY <2>3 DEF UnlocksLast, LockTypeOK
  <2> QED
    BY <2>4, <2>5, <2>6, Zenon
<1>2. CASE keyValue # Nobody
  <2>1. UNCHANGED <<keyValue, keyTTL, lease>>
    BY <1>2, Zenon DEF SetNX
  <2>2. \/ lockPc[c] = "locking" /\ lockPc' = [lockPc EXCEPT ![c] = "refused"]
        \/ UNCHANGED lockPc
    BY <1>2, Zenon DEF LockGoto
  <2>3. LockTypeOK' /\ LeaseBacked'
    BY <2>1, <2>2 DEF LockTypeOK, LeaseBacked
  <2>4. UnlocksLast'
    BY <2>1, <2>2 DEF UnlocksLast, LockTypeOK
  <2> QED
    BY <2>3, <2>4, Zenon
<1> QED
  BY <1>1, <1>2, Zenon

\* The script of Unlock, in time or late, frees the key of a caller without a
\* lease.
LEMMA ScriptStep ==
  ASSUME LockIInv, NEW c \in Lockers, Script(c), lease[c] = 0,
         \/ LockGoto(c, "unlocking", "unlocked")
         \/ UNCHANGED lockPc,
         late' \subseteq late, UNCHANGED <<lockFaults, lease>>
  PROVE  LockIInv'
<1> USE LockAssumption DEF LockIInv, keyVars
<1>1. \/ lockPc[c] = "unlocking" /\ lockPc' = [lockPc EXCEPT ![c] = "unlocked"]
      \/ UNCHANGED lockPc
  BY Zenon DEF LockGoto
<1>2. UnlocksLast'
  BY <1>1 DEF UnlocksLast, LockTypeOK
<1>3. CASE keyValue = c
  <2>1. keyValue' = Nobody /\ keyTTL' = 0
    BY <1>3, Zenon DEF Script, DeletesOwn
  <2>2. \A d \in Lockers : lease[d] = 0
    BY <1>3 DEF LockTypeOK, LeaseBacked
  <2>3. LockTypeOK' /\ LeaseBacked'
    BY <1>1, <2>1, <2>2 DEF LockTypeOK, LeaseBacked
  <2> QED
    BY <1>2, <2>3, Zenon
<1>4. CASE keyValue # c
  <2>1. keyValue' = keyValue /\ keyTTL' = keyTTL
    BY <1>4, Zenon DEF Script, DeletesOwn
  <2>2. LockTypeOK' /\ LeaseBacked'
    BY <1>1, <2>1 DEF LockTypeOK, LeaseBacked
  <2> QED
    BY <1>2, <2>2, Zenon
<1> QED
  BY <1>3, <1>4, Zenon

\* Whoever calls Unlock has no lease from then on.
LEMMA UnlockCallStep ==
  ASSUME LockIInv, NEW c \in Lockers, UnlockCall(c) PROVE LockIInv'
<1> USE LockAssumption DEF LockIInv, keyVars
<1>1. /\ lockPc' = [lockPc EXCEPT ![c] = "unlocking"]
      /\ lease' = [lease EXCEPT ![c] = 0]
      /\ UNCHANGED <<keyValue, keyTTL, late, lockFaults>>
  BY Zenon DEF UnlockCall, LockGoto
<1>2. LockTypeOK'
  BY <1>1 DEF LockTypeOK
<1>3. LeaseBacked'
  BY <1>1 DEF LeaseBacked, LockTypeOK
<1>4. UnlocksLast'
  BY <1>1 DEF UnlocksLast, LockTypeOK
<1> QED
  BY <1>2, <1>3, <1>4, Zenon

\* Time takes as much from a lease as from the key.
LEMMA TickStep == ASSUME LockIInv, LockTick PROVE LockIInv'
<1> USE LockAssumption DEF LockIInv
<1>1. /\ keyTTL > 0 /\ keyTTL' = keyTTL - 1
      /\ UNCHANGED <<lockPc, late, lockFaults>>
      /\ lease' = [c \in Lockers |-> IF lease[c] > 0 THEN lease[c] - 1 ELSE 0]
  BY Zenon DEF LockTick
<1>2. keyValue' = IF keyTTL = 1 THEN Nobody ELSE keyValue
  BY Zenon DEF LockTick
<1>3. LockTypeOK'
  BY <1>1, <1>2 DEF LockTypeOK
<1>4. LeaseBacked'
  <2> SUFFICES ASSUME NEW c \in Lockers, lease'[c] > 0
               PROVE  keyValue' = c /\ lease'[c] <= keyTTL'
    BY Zenon DEF LeaseBacked
  <2>1. lease[c] > 0 /\ lease'[c] = lease[c] - 1
    BY <1>1 DEF LockTypeOK
  <2>2. keyValue = c /\ lease[c] <= keyTTL /\ lease[c] \in Int /\ keyTTL \in Int
    BY <2>1 DEF LeaseBacked, LockTypeOK
  <2> QED
    BY <1>1, <1>2, <2>1, <2>2
<1>5. UnlocksLast'
  <2>1. \A c \in Lockers : lease[c] = 0 => lease'[c] = 0
    BY <1>1
  <2> QED
    BY <1>1, <2>1, Zenon DEF UnlocksLast
<1> QED
  BY <1>3, <1>4, <1>5, Zenon

\* A fault stays within the bound.
LEMMA FaultCounted == ASSUME LockTypeOK, Fault PROVE lockFaults' \in 0..MaxLockFaults
BY LockAssumption DEF LockTypeOK, Fault

\* The invariant is inductive.
LEMMA LockInductive == LockSpec => []LockIInv
<1>1. LockInit => LockIInv
  BY LockAssumption DEF LockInit, LockIInv, LockTypeOK, LeaseBacked, UnlocksLast
<1>2. LockIInv /\ [LockNext]_lockVars => LockIInv'
  <2> SUFFICES ASSUME LockIInv, [LockNext]_lockVars PROVE LockIInv'
    BY Zenon
  <2>1. CASE UNCHANGED lockVars
    BY <2>1, Zenon DEF lockVars, LockIInv, LockTypeOK, LeaseBacked, UnlocksLast
  <2>2. ASSUME NEW c \in Lockers, LockCall(c) \/ LockReturn(c) \/ UnlockReturn(c)
        PROVE  LockIInv'
    <3>1. PICK k \in {"locking", "held", "idle", "done"} :
            /\ lockPc' = [lockPc EXCEPT ![c] = k]
            /\ \/ lockPc[c] \in {"idle", "granted", "refused"} /\ k # "done"
               \/ lockPc[c] = "unlocked" /\ k = "done"
      BY <2>2, Zenon DEF LockCall, LockReturn, UnlockReturn, LockGoto
    <3>2. UNCHANGED <<keyVars, lease, late, lockFaults>>
      BY <2>2, Zenon DEF LockCall, LockReturn, UnlockReturn
    <3> QED
      BY <3>1, <3>2, GotoStep, Zenon DEF LockPcs, Unlocking, LockIInv, LockTypeOK
  <2>3. ASSUME NEW c \in Lockers, LockCommand(c) PROVE LockIInv'
    BY <2>3, SetNXStep, Zenon DEF LockCommand
  <2>4. ASSUME NEW c \in Lockers, UnlockCommand(c) PROVE LockIInv'
    <3>1. lease[c] = 0
      BY <2>4, Zenon DEF UnlockCommand, LockGoto, LockIInv, UnlocksLast
    <3> QED
      BY <2>4, <3>1, ScriptStep, Zenon DEF UnlockCommand
  <2>5. ASSUME NEW c \in Lockers, CommandResent(c) PROVE LockIInv'
    <3>1. PICK k \in {"locking", "unlocking"} :
            /\ lockPc' = [lockPc EXCEPT ![c] = k]
            /\ \/ lockPc[c] \in {"locking", "granted", "refused"} /\ k = "locking"
               \/ lockPc[c] \in {"unlocking", "unlocked"} /\ k = "unlocking"
      BY <2>5, Zenon DEF CommandResent, LockGoto, LockIInv, LockTypeOK
    <3>2. UNCHANGED <<keyVars, lease>> /\ late' \in {late, late \cup Sent(c)}
          /\ lockFaults' \in 0..MaxLockFaults
      BY <2>5, FaultCounted, Zenon DEF CommandResent, LockIInv
    <3> QED
      BY <3>1, <3>2, GotoStep, Zenon DEF LockPcs, Unlocking
  <2>6. ASSUME NEW c \in Lockers, CommandGivenUp(c) \/ LockCrash(c) PROVE LockIInv'
    <3>1. PICK k \in {"idle", "done", "crashed"} :
            /\ lockPc' = [lockPc EXCEPT ![c] = k]
            /\ \/ lockPc[c] \in {"locking", "granted", "refused"} /\ k = "idle"
               \/ lockPc[c] \in {"unlocking", "unlocked"} /\ k = "done"
               \/ k = "crashed"
      BY <2>6, Zenon DEF CommandGivenUp, LockCrash, LockGoto
    <3>2. UNCHANGED <<keyVars, lease>> /\ late' \in {late, late \cup Sent(c)}
          /\ lockFaults' \in 0..MaxLockFaults
      BY <2>6, FaultCounted, Zenon DEF CommandGivenUp, LockCrash, LockIInv
    <3> QED
      BY <3>1, <3>2, GotoStep, Zenon DEF LockPcs, Unlocking
  <2>7. ASSUME NEW m \in late, LateCommand(m) PROVE LockIInv'
    <3>1. PICK c \in Lockers : m = <<"locking", c>> \/ m = <<"unlocking", c>>
      BY DEF LockIInv, LockTypeOK
    <3>2. late' \subseteq late /\ UNCHANGED <<lockPc, lockFaults, lease>>
      BY <2>7, Zenon DEF LateCommand
    <3>3. CASE m = <<"locking", c>>
      <4>1. SetNX(c)
        BY <2>7, <3>3 DEF LateCommand
      <4> QED
        BY <3>2, <4>1, SetNXStep, Zenon
    <3>4. CASE m = <<"unlocking", c>>
      <4>1. Script(c)
        BY <2>7, <3>4 DEF LateCommand
      <4>2. lease[c] = 0
        BY <3>4, Zenon DEF LockIInv, UnlocksLast
      <4> QED
        BY <3>2, <4>1, <4>2, ScriptStep, Zenon
    <3> QED
      BY <3>1, <3>3, <3>4, Zenon
  <2> QED
    BY <2>1, <2>2, <2>3, <2>4, <2>5, <2>6, <2>7, UnlockCallStep, TickStep, Zenon
       DEF LockNext
<1> QED
  BY <1>1, <1>2, PTL DEF LockSpec

\* A key that exists expires within Expiration: no interleaving of Lock, Unlock,
\* losses and crashes leaves one behind for good (SETNX with an expiration).
THEOREM LockTypeCorrect == LockSpec => []LockTypeOK
<1>1. LockIInv => LockTypeOK
  BY Zenon DEF LockIInv
<1> QED
  BY <1>1, LockInductive, PTL

\* At most one caller has a lease, however many there are and whatever is lost,
\* resent or late (Lock's SETNX and the comparing script of Unlock).
THEOREM LeasesExclude == LockSpec => []LeaseExclusive
<1>1. LockIInv => LeaseExclusive
  BY Zenon DEF LockIInv, LeaseBacked, LeaseExclusive
<1> QED
  BY <1>1, LockInductive, PTL

-----------------------------------------------------------------------------
(* ReplicaPool: any number of replicas, any strategy, lag and window.       *)

\* What is needed of a log: its domain, its entries, and a commit at its end.
LEMMA LogEntries ==
  ASSUME NEW S, NEW s \in Seq(S)
  PROVE  Len(s) \in Nat /\ DOMAIN s = 1..Len(s) /\ \A i \in 1..Len(s) : s[i] \in S
OBVIOUS

\* An appended entry is the last, and the others stay where they are.
LEMMA LogAppend ==
  ASSUME NEW S, NEW s \in Seq(S), NEW e \in S
  PROVE  /\ Append(s, e) \in Seq(S) /\ Len(Append(s, e)) = Len(s) + 1
         /\ \A i \in 1..Len(s) : Append(s, e)[i] = s[i]
         /\ Append(s, e)[Len(s) + 1] = e
OBVIOUS

\* A function on 1..n is a sequence of length n.
LEMMA LogFunction ==
  ASSUME NEW S, NEW n \in Nat, NEW f \in [1..n -> S] PROVE f \in Seq(S) /\ Len(f) = n
OBVIOUS

\* Before the first write the invariant holds, whatever the database has.
LEMMA ReplicaInitInv == ReplicaInit => ReplicaInv
<1> SUFFICES ASSUME ReplicaInit PROVE ReplicaInv
  BY Zenon
<1>1. PICK age \in Ages : log = <<age>>
  BY Zenon DEF ReplicaInit, Ages
<1>2. /\ log \in Seq(Ages) /\ Len(log) = 1 /\ DOMAIN log = {1}
  BY <1>1
<1>3. ReplicaTypeOK
  BY <1>2, ReplicaAssumption
     DEF ReplicaInit, ReplicaTypeOK, Ages, TooOld, Unsound, Index
<1>4. LogOrdered
  BY <1>2 DEF ReplicaInit, LogOrdered
<1> QED
  BY <1>3, <1>4, ReplicaAssumption
     DEF ReplicaInit, ReplicaInv, MarkedLate, MissedRecent, Accounted, Unsound

\* A commit is younger than everything before it, and no replica has it.
LEMMA WithTxInv == ASSUME ReplicaInv, WithTx PROVE ReplicaInv'
<1>1. /\ UNCHANGED <<received, replayed, connHealthy, lag, checkAge, loopAt,
                     measured, writeAge, marked>>
      /\ ReplicaTypeOK /\ LogOrdered /\ MarkedLate /\ MissedRecent
  BY Zenon DEF WithTx, ReplicaInv, externVars, connVars, loopVars
<1>2. CASE UNCHANGED <<log, unmarked>>
  BY <1>1, <1>2, Zenon
     DEF ReplicaInv, ReplicaTypeOK, LogOrdered, MarkedLate, MissedRecent, Accounted
<1>3. CASE log' = Append(log, 0) /\ (unmarked' = Len(log') \/ unmarked' = 0)
  <2>1. log \in Seq(Ages) /\ 0 \in Ages /\ Len(log) \in Nat \ {0}
    BY <1>1, ReplicaAssumption DEF ReplicaTypeOK, TooOld, Ages
  <2>2. /\ log' \in Seq(Ages) /\ Len(log') = Len(log) + 1
        /\ \A i \in 1..Len(log) : log'[i] = log[i]
        /\ log'[Len(log) + 1] = 0
    BY <1>3, <2>1, LogAppend
  <2>3. /\ DOMAIN log = 1..Len(log) /\ DOMAIN log' = 1..Len(log')
        /\ \A i \in 1..Len(log) : log[i] \in Ages
    BY <2>2, <2>1, LogEntries, Zenon
  <2>4. /\ log' \in Seq(Ages) /\ Len(log') = Len(log) + 1
        /\ DOMAIN log = 1..Len(log) /\ DOMAIN log' = 1..(Len(log) + 1)
        /\ \A i \in 1..Len(log) : log'[i] = log[i] /\ log[i] \in 0..TooOld
        /\ log'[Len(log) + 1] = 0
    BY <2>2, <2>3, Zenon DEF Ages
  <2>5. ReplicaTypeOK'
    BY <1>1, <1>3, <2>1, <2>4 DEF ReplicaTypeOK, Ages, TooOld, Unsound, Index
  <2>6. LogOrdered'
    <3>1. ASSUME NEW i \in DOMAIN log', NEW j \in DOMAIN log', i < j
          PROVE  log'[j] <= log'[i]
      <4>1. i \in 1..Len(log) /\ log'[i] = log[i] /\ log[i] \in 0..TooOld
        BY <2>1, <2>4, <3>1
      <4>2. CASE j \in 1..Len(log)
        BY <1>1, <2>4, <3>1, <4>1, <4>2, Zenon DEF LogOrdered
      <4>3. CASE j = Len(log) + 1
        BY <2>4, <4>1, <4>3
      <4> QED
        BY <2>1, <2>4, <4>2, <4>3
    <3> QED
      <4>1. \A r \in Index : received[r] \in Nat /\ received[r] <= Len(log)
        BY <1>1, Zenon DEF LogOrdered, ReplicaTypeOK
      <4>2. \A r \in Index : received[r] <= Len(log')
        BY <2>1, <2>4, <4>1
      <4> QED
        BY <1>1, <3>1, <4>2, Zenon DEF LogOrdered, Index
  <2>7. MarkedLate'
    BY <1>1, <2>1, <2>4 DEF MarkedLate, ReplicaTypeOK, TooOld
  <2>8. MissedRecent'
    BY <1>1, Zenon DEF MissedRecent, Accounted, Index
  <2> QED
    BY <2>5, <2>6, <2>7, <2>8, Zenon DEF ReplicaInv
<1> QED
  BY <1>2, <1>3, Zenon DEF WithTx

\* A measurement counts as sound when the replica streams: what it misses is
\* then young, or younger than the entry its lag was measured by.
LEMMA MeasureLagInv == ASSUME ReplicaInv, MeasureLag PROVE ReplicaInv'
<1>1. /\ UNCHANGED <<log, received, replayed, connHealthy, lag, checkAge, writeAge,
                     unmarked, marked, loopAt>>
      /\ ReplicaTypeOK /\ LogOrdered /\ MarkedLate /\ MissedRecent /\ loopAt # 0
  BY Zenon DEF MeasureLag, ReplicaInv, externVars, connVars, sessionVars
<1>2. PICK r \in Index : r = loopAt
  BY <1>1 DEF ReplicaTypeOK, Index
<1>3. DOMAIN log = 1..Len(log) /\ \A i \in 1..Len(log) : log[i] \in 0..TooOld
  BY <1>1, LogEntries, Zenon DEF ReplicaTypeOK, Ages
<1>4. /\ received[r] \in Nat /\ replayed[r] \in 1..Len(log)
      /\ log[replayed[r]] \in 0..TooOld /\ MeasuredLag(r) \in 0..TooOld
  BY <1>1, <1>3, ReplicaAssumption DEF LogOrdered, ReplicaTypeOK, MeasuredLag, TooOld
<1>5. PICK l, age :
        /\ measured' = {[lag |-> l, age |-> age]}
        /\ \/ l = MeasuredLag(r) /\ age = IF Streams(r) THEN 0 ELSE Unsound
           \/ l = MaxReplicaLag /\ age = Unsound
  BY <1>2, Zenon DEF MeasureLag
<1>6. l \in 0..TooOld /\ age \in 0..Unsound
  <2>1. /\ MaxReplicaLag \in 0..TooOld /\ 0 \in 0..Unsound /\ Unsound \in 0..Unsound
    BY ReplicaAssumption DEF TooOld, Unsound
  <2> QED
    BY <1>4, <1>5, <2>1, Zenon
<1>7. measured' \subseteq [lag : 0..TooOld, age : 0..Unsound]
  BY <1>5, <1>6
<1>8. ReplicaTypeOK' /\ LogOrdered' /\ MarkedLate'
  BY <1>1, <1>7, Zenon
     DEF ReplicaTypeOK, LogOrdered, MarkedLate, Ages, Index, TooOld, Unsound
<1>9. ASSUME age <= CheckEvery, l <= MaxReplicaLag, replayed[r] < marked
      PROVE  writeAge <= MaxReplicaLag + age
  <2>1. Streams(r) /\ age = 0 /\ MeasuredLag(r) <= MaxReplicaLag
    BY <1>5, <1>9, ReplicaAssumption DEF Unsound
  <2>2. marked \in DOMAIN log /\ marked # 0 /\ marked \in Nat
        /\ log[marked] \in 0..TooOld
    BY <1>1, <1>3, <1>4, <1>9 DEF ReplicaTypeOK
  <2>3. log[marked] <= MaxReplicaLag
    <3>1. CASE received[r] = replayed[r]
      <4>1. ~(marked <= received[r])
        BY <1>4, <1>9, <2>2, <3>1
      <4>2. ~(log[marked] > NetDelay)
        BY <2>1, <2>2, <4>1, Zenon DEF Streams
      <4> QED
        BY <2>2, <4>2, ReplicaAssumption DEF TooOld
    <3>2. CASE received[r] # replayed[r]
      <4>1. log[replayed[r]] <= MaxReplicaLag
        BY <2>1, <3>2, Zenon DEF MeasuredLag
      <4>2. log[marked] <= log[replayed[r]]
        BY <1>1, <1>3, <1>4, <1>9, <2>2, Zenon DEF LogOrdered
      <4> QED
        BY <1>4, <2>2, <4>1, <4>2, ReplicaAssumption
    <3> QED
      BY <3>1, <3>2, Zenon
  <2> QED
    BY <1>1, <2>1, <2>2, <2>3, ReplicaAssumption DEF MarkedLate, TooOld, ReplicaTypeOK
<1>10. \A m \in measured' : m.lag = l /\ m.age = age
  BY <1>5
<1>11. MissedRecent'
  BY <1>1, <1>2, <1>9, <1>10, Zenon DEF MissedRecent, Accounted, Index
<1> QED
  BY <1>8, <1>11, Zenon DEF ReplicaInv

\* What is stored is the measurement, as old as it has become.
LEMMA StoreLagInv == ASSUME ReplicaInv, StoreLag \/ PingFails PROVE ReplicaInv'
<1>1. /\ UNCHANGED <<log, received, replayed, writeAge, unmarked, marked>>
      /\ ReplicaTypeOK /\ LogOrdered /\ MarkedLate /\ MissedRecent
      /\ measured' = {} /\ loopAt' = NextReplica(loopAt)
  BY Zenon DEF StoreLag, PingFails, ReplicaInv, externVars, sessionVars
<1>2. PICK r \in Index : r = loopAt
  <2>1. loopAt # 0
    BY <1>1, Zenon DEF StoreLag, PingFails, ReplicaTypeOK
  <2> QED
    BY <1>1, <2>1 DEF ReplicaTypeOK, Index
<1>3. loopAt' \in 0..Replicas
  BY <1>1, <1>2, ReplicaAssumption DEF NextReplica, Index
<1>4. /\ connHealthy' \in {[connHealthy EXCEPT ![r] = FALSE],
                          [connHealthy EXCEPT ![r] = TRUE]}
      /\ \/ UNCHANGED <<lag, checkAge>>
         \/ \E m \in measured : /\ lag' = [lag EXCEPT ![r] = m.lag]
                                /\ checkAge' = [checkAge EXCEPT ![r] = m.age]
  BY <1>2, Zenon DEF StoreLag, PingFails
<1>5. /\ lag \in [Index -> 0..TooOld] /\ checkAge \in [Index -> 0..Unsound]
      /\ DOMAIN connHealthy = Index
      /\ \A m \in measured : m.lag \in 0..TooOld /\ m.age \in 0..Unsound
  BY <1>1, Zenon DEF ReplicaTypeOK
<1>6. /\ lag' \in [Index -> 0..TooOld] /\ checkAge' \in [Index -> 0..Unsound]
      /\ DOMAIN connHealthy' = Index
  BY <1>4, <1>5, Zenon
<1>7. ReplicaTypeOK' /\ LogOrdered' /\ MarkedLate'
  BY <1>1, <1>3, <1>6, Zenon
     DEF ReplicaTypeOK, LogOrdered, MarkedLate, Ages, Index, TooOld, Unsound
<1>8. \A q \in Index : \/ lag'[q] = lag[q] /\ checkAge'[q] = checkAge[q]
                       \/ /\ q = r
                          /\ \E m \in measured : lag'[q] = m.lag /\ checkAge'[q] = m.age
  BY <1>4, <1>5, Zenon
<1>9. MissedRecent'
  BY <1>1, <1>2, <1>8, Zenon DEF MissedRecent, Accounted, Index
<1> QED
  BY <1>7, <1>9, Zenon DEF ReplicaInv

\* Time makes the entries, the write and the checks older together.
LEMMA ReplicaTickInv == ASSUME ReplicaInv, ReplicaTick PROVE ReplicaInv'
<1>1. /\ UNCHANGED <<received, replayed, connHealthy, lag, unmarked, marked, loopAt>>
      /\ ReplicaTypeOK /\ LogOrdered /\ MarkedLate /\ MissedRecent
      /\ log' = [i \in DOMAIN log |-> Older(log[i], TooOld)]
      /\ writeAge' = Older(writeAge, ConsistencyWindow)
      /\ checkAge' = [r \in Index |-> Older(checkAge[r], Unsound)]
      /\ measured' = {[lag |-> m.lag, age |-> Older(m.age, Unsound)] : m \in measured}
  BY Zenon DEF ReplicaTick, ReplicaInv, externVars
<1>2. PICK n \in Nat \ {0} : n = Len(log)
  BY <1>1, Zenon DEF ReplicaTypeOK
<1>3. /\ DOMAIN log = 1..n /\ \A i \in 1..n : log[i] \in 0..TooOld
  BY <1>1, <1>2, LogEntries, Zenon DEF ReplicaTypeOK, Ages
<1>4. \A i \in 1..n : /\ log'[i] = (IF log[i] < TooOld THEN log[i] + 1 ELSE TooOld)
                      /\ log'[i] \in 0..TooOld
  BY <1>1, <1>3, ReplicaAssumption DEF Older, TooOld
<1>5. log' \in [1..n -> Ages]
  BY <1>1, <1>3, <1>4, Zenon DEF Ages
<1>6. log' \in Seq(Ages) /\ Len(log') = n /\ DOMAIN log' = 1..n
  BY <1>5, LogFunction, Zenon
<1>7. /\ writeAge \in 0..ConsistencyWindow /\ writeAge' \in 0..ConsistencyWindow
      /\ writeAge' <= writeAge + 1
  BY <1>1, ReplicaAssumption DEF ReplicaTypeOK, Older
<1>8. \A age \in 0..Unsound :
        /\ Older(age, Unsound) \in 0..Unsound
        /\ Older(age, Unsound) <= CheckEvery => Older(age, Unsound) = age + 1
  BY ReplicaAssumption DEF Older, Unsound
<1>9. /\ checkAge' \in [Index -> 0..Unsound]
      /\ \A r \in Index : checkAge[r] \in 0..Unsound
                          /\ checkAge'[r] = Older(checkAge[r], Unsound)
  BY <1>1, <1>8, Zenon DEF ReplicaTypeOK
<1>10. \A m \in measured : m.lag \in 0..TooOld /\ m.age \in 0..Unsound
  BY <1>1, Zenon DEF ReplicaTypeOK
<1>11. /\ measured' \subseteq [lag : 0..TooOld, age : 0..Unsound]
       /\ measured' # {} => loopAt # 0
       /\ \A n1 \in measured' : \E m \in measured :
            n1.lag = m.lag /\ n1.age = Older(m.age, Unsound)
  <2>1. measured' # {} => loopAt # 0
    BY <1>1, Zenon DEF ReplicaTypeOK
  <2>2. \A n1 \in measured' : \E m \in measured :
          n1 = [lag |-> m.lag, age |-> Older(m.age, Unsound)]
    BY <1>1, Zenon
  <2>3. \A n1 \in measured' : n1 \in [lag : 0..TooOld, age : 0..Unsound]
    BY <1>8, <1>10, <2>2
  <2> QED
    BY <2>1, <2>2, <2>3
<1>12. ReplicaTypeOK'
  BY <1>1, <1>2, <1>6, <1>7, <1>9, <1>11, Zenon
     DEF ReplicaTypeOK, Ages, TooOld, Unsound, Index
<1>13. LogOrdered'
  <2>1. ASSUME NEW i \in 1..n, NEW j \in 1..n, i < j PROVE log'[j] <= log'[i]
    <3>1. log[j] <= log[i]
      BY <1>1, <1>3, <2>1, Zenon DEF LogOrdered
    <3> QED
      BY <1>3, <1>4, <3>1, ReplicaAssumption DEF TooOld
  <2> QED
    BY <1>1, <1>2, <1>6, <2>1, Zenon DEF LogOrdered, Index
<1>14. MarkedLate'
  <2> SUFFICES ASSUME marked # 0
           PROVE writeAge' <= log'[marked] \/ log'[marked] = TooOld
    BY <1>1, Zenon DEF MarkedLate, TooOld
  <2>1. marked \in 1..n
    BY <1>1, <1>2 DEF ReplicaTypeOK
  <2>2. writeAge <= log[marked] \/ log[marked] = TooOld
    BY <1>1, Zenon DEF MarkedLate
  <2> QED
    BY <1>3, <1>4, <1>7, <2>1, <2>2, ReplicaAssumption DEF TooOld
<1>15. MissedRecent'
  <2>1. ASSUME NEW r, NEW l, NEW age \in 0..Unsound, Accounted(r, l, age),
               Older(age, Unsound) <= CheckEvery, l <= MaxReplicaLag,
               replayed[r] < marked
        PROVE  writeAge' <= MaxReplicaLag + Older(age, Unsound)
    <3>1. Older(age, Unsound) = age + 1 /\ age <= CheckEvery
      BY <1>8, <2>1, ReplicaAssumption DEF Unsound
    <3>2. writeAge <= MaxReplicaLag + age
      BY <2>1, <3>1, Zenon DEF Accounted
    <3> QED
      BY <1>7, <3>1, <3>2, ReplicaAssumption DEF Unsound
  <2>2. \A r \in Index : Accounted(r, lag[r], checkAge[r])'
    BY <1>1, <1>9, <2>1, Zenon DEF MissedRecent, Accounted
  <2>3. \A n1 \in measured' : Accounted(loopAt, n1.lag, n1.age)'
    BY <1>1, <1>10, <1>11, <2>1, Zenon DEF MissedRecent, Accounted
  <2> QED
    BY <2>2, <2>3, Zenon DEF MissedRecent, Index
<1> QED
  BY <1>12, <1>13, <1>14, <1>15, Zenon DEF ReplicaInv

\* Receiving and replaying only bring a replica nearer to the primary.
LEMMA ReplicateInv ==
  ASSUME ReplicaInv, NEW r \in Index, Replicate(r) PROVE ReplicaInv'
<1>1. /\ UNCHANGED <<log, connHealthy, lag, checkAge, writeAge, unmarked, marked,
                     loopAt, measured>>
      /\ ReplicaTypeOK /\ LogOrdered /\ MarkedLate /\ MissedRecent
  BY Zenon DEF Replicate, ReplicaInv, connVars, sessionVars, loopVars
<1>2. /\ received' \in [Index -> Nat] /\ replayed' \in [Index -> Nat]
      /\ \A q \in Index : /\ replayed[q] <= replayed'[q] /\ replayed'[q] <= received'[q]
                          /\ received'[q] <= Len(log)
  <2>1. /\ received \in [Index -> Nat] /\ replayed \in [Index -> Nat]
        /\ Len(log) \in Nat
        /\ \A q \in Index : /\ replayed[q] <= received[q] /\ received[q] <= Len(log)
    BY <1>1, Zenon DEF ReplicaTypeOK, LogOrdered
  <2>2. CASE /\ received[r] < Len(log) /\ replayed' = replayed
             /\ received' = [received EXCEPT ![r] = @ + 1]
    BY <2>1, <2>2
  <2>3. CASE /\ replayed[r] < received[r] /\ received' = received
             /\ replayed' = [replayed EXCEPT ![r] = @ + 1]
    BY <2>1, <2>3
  <2> QED
    BY <2>2, <2>3, Zenon DEF Replicate
<1>3. ReplicaTypeOK' /\ MarkedLate'
  BY <1>1, <1>2, Zenon DEF ReplicaTypeOK, MarkedLate, Ages, Index, TooOld, Unsound
<1>4. LogOrdered'
  <2>1. ASSUME NEW q \in Index PROVE 1 <= replayed'[q]
    <3>1. /\ replayed[q] \in Nat /\ replayed'[q] \in Nat
          /\ 1 <= replayed[q] /\ replayed[q] <= replayed'[q]
      BY <1>1, <1>2, Zenon DEF ReplicaTypeOK, LogOrdered
    <3> QED
      BY <3>1
  <2> QED
    BY <1>1, <1>2, <2>1, Zenon DEF LogOrdered, Index
<1>5. MissedRecent'
  <2>1. \A q \in Index : replayed'[q] < marked => replayed[q] < marked
    BY <1>1, <1>2 DEF ReplicaTypeOK
  <2>2. measured # {} => loopAt \in Index
    BY <1>1 DEF ReplicaTypeOK, Index
  <2> QED
    BY <1>1, <2>1, <2>2, Zenon DEF MissedRecent, Accounted, Index
<1> QED
  BY <1>3, <1>4, <1>5, Zenon DEF ReplicaInv

\* Every step of the session, the checker, Postgres and the clock keeps it.
LEMMA ReplicaNextInv ==
  ASSUME ReplicaInv, [ReplicaNext]_replicaVars PROVE ReplicaInv'
<1>1. CASE MarkWrite
  <2>1. /\ UNCHANGED <<log, received, replayed, connHealthy, lag, checkAge, loopAt,
                       measured>>
        /\ writeAge' = 0 /\ marked' = unmarked /\ unmarked' = 0 /\ unmarked # 0
        /\ ReplicaTypeOK /\ LogOrdered
    BY <1>1, Zenon DEF MarkWrite, ReplicaInv, externVars, connVars, loopVars
  <2>2. ReplicaTypeOK'
    <3>1. writeAge' \in 0..ConsistencyWindow /\ unmarked' \in 0..Len(log)
          /\ marked' \in 0..Len(log)
      BY <2>1, ReplicaAssumption DEF ReplicaTypeOK
    <3> QED
      BY <2>1, <3>1, Zenon DEF ReplicaTypeOK, Ages, Index, TooOld, Unsound
  <2>3. LogOrdered'
    BY <2>1, Zenon DEF LogOrdered, Index
  <2>4. unmarked \in 1..Len(log) /\ log \in Seq(Ages)
    BY <2>1 DEF ReplicaTypeOK
  <2>5. log[unmarked] \in 0..TooOld
    BY <2>4, LogEntries, Zenon DEF Ages
  <2>6. MarkedLate'
    BY <2>1, <2>5 DEF MarkedLate, TooOld
  <2>7. /\ \A r \in Index : checkAge'[r] \in Nat
        /\ \A m \in measured' : m.age \in Nat
    BY <2>1, ReplicaAssumption DEF ReplicaTypeOK, Unsound
  <2>8. \A age \in Nat : writeAge' <= MaxReplicaLag + age
    BY <2>1, ReplicaAssumption
  <2>9. MarkedLate' /\ MissedRecent'
    BY <2>6, <2>7, <2>8, Zenon DEF MissedRecent, Accounted, Index
  <2> QED
    BY <2>2, <2>3, <2>9, Zenon DEF ReplicaInv
<1>2. CASE \/ CheckBegins \/ LifecycleEnds \/ UNCHANGED replicaVars
           \/ (\E r \in Index : Outage(r) \/ Repair(r))
  <2>1. UNCHANGED <<log, received, replayed, connHealthy, lag, checkAge, writeAge,
                    unmarked, marked>>
    BY <1>2, Zenon DEF CheckBegins, LifecycleEnds, Outage, Repair, replicaVars,
                       externVars, connVars, sessionVars
  <2>2. /\ measured' = measured
        /\ loopAt' = loopAt \/ (loopAt = 0 /\ loopAt' = 1 /\ Replicas > 0)
    BY <1>2, Zenon DEF CheckBegins, LifecycleEnds, Outage, Repair, replicaVars,
                       loopVars
  <2>3. loopAt' \in 0..Replicas /\ (measured # {} => loopAt' = loopAt)
    BY <2>2, ReplicaAssumption DEF ReplicaInv, ReplicaTypeOK
  <2> QED
    BY <2>1, <2>2, <2>3, Zenon
       DEF ReplicaInv, ReplicaTypeOK, LogOrdered, MarkedLate, MissedRecent, Accounted,
           Ages, Index, TooOld, Unsound
<1> QED
  BY <1>1, <1>2, WithTxInv, MeasureLagInv, StoreLagInv, ReplicateInv, ReplicaTickInv,
     Zenon DEF ReplicaNext

\* ReadAfterWrite.Reader never sends a session to a replica that misses its last
\* marked write, if the replica's last check is recent and was sound: for any
\* number of replicas, any strategy, and any consistency window longer than the
\* acceptable lag and the age of a recent check together.
THEOREM WritesRead == ReplicaSpec => []ReadYourWrites
<1>1. ReplicaInv => ReadYourWrites
  <2> SUFFICES ASSUME ReplicaInv, FallbackToPrimary, ~WroteRecently,
                      NEW idx \in Counters, NEW r \in Reader(idx), r # Primary,
                      checkAge[r] <= CheckEvery
               PROVE  marked <= replayed[r]
    BY Zenon DEF ReadYourWrites, SessionReader
  <2>1. r \in HealthyReplicas
    BY Zenon DEF Reader, LeastLag, Balanced
  <2>2. r \in Index /\ lag[r] <= MaxReplicaLag
    BY <2>1, Zenon DEF HealthyReplicas
  <2>3. /\ writeAge >= ConsistencyWindow /\ writeAge \in Nat
        /\ checkAge[r] \in Nat /\ replayed[r] \in Nat /\ marked \in Nat
    BY <2>2, ReplicaAssumption DEF WroteRecently, ReplicaInv, ReplicaTypeOK, Unsound
  <2>4. replayed[r] < marked => writeAge <= MaxReplicaLag + checkAge[r]
    BY <2>2, Zenon DEF ReplicaInv, MissedRecent, Accounted
  <2> QED
    BY <2>3, <2>4, ReplicaAssumption
<1> QED
  BY <1>1, ReplicaInitInv, ReplicaNextInv, PTL DEF ReplicaSpec
=============================================================================
