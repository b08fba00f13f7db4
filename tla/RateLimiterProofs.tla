------------------------- MODULE RateLimiterProofs --------------------------
(* Proofs about RateLimiter for any number of concurrent requests, any      *)
(* limit, window and batch sizes, and any delay shorter than the window;    *)
(* and about RateLimitKeys.                                                 *)
EXTENDS RateLimiter, RateLimitKeys, FiniteSetTheorems, TLAPS

-----------------------------------------------------------------------------
(* Lemmas about the operators.                                              *)

\* A batch has n members, all of the type of the sorted set's entries.
LEMMA MembersFinite ==
  ASSUME NEW now \in Nat, NEW batch \in Nat, NEW n \in Nat
  PROVE  /\ IsFiniteSet(NewMembers(now, batch, n))
         /\ NewMembers(now, batch, n)
              \subseteq [batch : Nat, index : Nat, score : Nat]
         /\ \A e \in NewMembers(now, batch, n) : e.batch = batch /\ e.score = now
<1> DEFINE S == 0 .. n - 1
           f == [i \in S |-> [batch |-> batch, index |-> i, score |-> now]]
<1>1. IsFiniteSet(S)
  BY FS_Interval
<1>2. f \in Surjection(S, NewMembers(now, batch, n))
  BY Zenon DEF Surjection, NewMembers
<1>3. IsFiniteSet(NewMembers(now, batch, n))
  BY <1>1, <1>2, FS_Surjection, Zenon
<1>4. \A e \in NewMembers(now, batch, n) :
        \E i \in S : e = [batch |-> batch, index |-> i, score |-> now]
  BY Zenon DEF NewMembers
<1> QED
  BY <1>3, <1>4

\* The history records n grants for a batch of n.
LEMMA GrantsCounted ==
  ASSUME NEW batch, NEW n \in Nat, NEW t
  PROVE  LET G == {[batch |-> batch, index |-> i, at |-> t] : i \in 0 .. n - 1}
         IN  IsFiniteSet(G) /\ Cardinality(G) \in Nat /\ Cardinality(G) <= n
<1> DEFINE S == 0 .. n - 1
           G == {[batch |-> batch, index |-> i, at |-> t] : i \in S}
           f == [i \in S |-> [batch |-> batch, index |-> i, at |-> t]]
<1>1. IsFiniteSet(S) /\ Cardinality(S) = n
  <2>1. IsFiniteSet(0 .. n - 1)
        /\ Cardinality(0 .. n - 1) = IF 0 > n - 1 THEN 0 ELSE (n - 1) - 0 + 1
    BY FS_Interval
  <2> QED
    BY <2>1
<1>2. f \in Surjection(S, G)
  BY Zenon DEF Surjection
<1>3. IsFiniteSet(G) /\ Cardinality(G) <= Cardinality(S)
  BY <1>1, <1>2, FS_Surjection
<1>4. Cardinality(G) \in Nat
  BY <1>3, FS_CardinalityType, Zenon
<1> QED
  BY <1>1, <1>3, <1>4, Zenon

\* A purge leaves a part of the sorted set.
LEMMA WindowFinite ==
  ASSUME LimiterTypeOK, NEW now
  PROVE  /\ InWindow(now) \subseteq zset /\ IsFiniteSet(InWindow(now))
         /\ Cardinality(InWindow(now)) \in Nat
<1>1. InWindow(now) \subseteq zset
  BY Zenon DEF InWindow
<1>2. IsFiniteSet(InWindow(now))
  BY <1>1, FS_Subset, Zenon DEF LimiterTypeOK
<1> QED
  BY <1>1, <1>2, FS_CardinalityType, Zenon

\* Storing well-typed entries leaves a well-typed key that does not expire
\* before the time asked for, or holds nothing.
LEMMA StoreTyped ==
  ASSUME NEW entries \in SUBSET [batch : Nat, index : Nat, score : Nat],
         IsFiniteSet(entries), NEW ttl \in Nat, Store(entries, ttl)
  PROVE  /\ zset' = entries /\ IsFiniteSet(zset')
         /\ zset' \subseteq [batch : Nat, index : Nat, score : Nat]
         /\ kind' \in {"none", "zset"}
         /\ expires' \in Nat /\ (expires' = ttl \/ expires' = NoExpiry)
<1>1. NoExpiry \in Nat
  BY LimiterAssumption DEF NoExpiry
<1> QED
  BY <1>1, Zenon DEF Store

-----------------------------------------------------------------------------
(* How the conjuncts of the invariant survive a step.                       *)

\* A call that leaves its transaction or its rollback, with its job kept or
\* dropped, keeps the readings fresh and the batches apart.
LEMMA CallLeaves ==
  ASSUME LimiterTypeOK, FreshReadings, BatchesApart, NEW c \in Calls,
         NEW w \in {"rollback", "delete", "again", "served", "refused"},
         w = "rollback" => pc[c] = "exec" /\ job' = job,
         Go(c, w), job' = job \/ job' = [job EXCEPT ![c] = NoJob],
         UNCHANGED <<clock, sequence>>, granted' \subseteq granted
  PROVE  /\ FreshReadings' /\ BatchesApart'
         /\ pc' \in [Calls -> {"idle", "exec", "rollback", "delete", "again",
                               "served", "refused"}]
         /\ job' \in [Calls -> [now : Nat, batch : Nat, n : Nat \ {0},
                                tries : Nat]]
<1>1. NoJob \in [now : Nat, batch : Nat, n : Nat \ {0}, tries : Nat]
  BY DEF NoJob
<1>2. pc' \in [Calls -> {"idle", "exec", "rollback", "delete", "again",
                         "served", "refused"}]
  BY Zenon DEF Go, LimiterTypeOK
<1>3. job' \in [Calls -> [now : Nat, batch : Nat, n : Nat \ {0}, tries : Nat]]
  BY <1>1, Zenon DEF LimiterTypeOK
<1>4. \A d \in Calls : \/ pc'[d] = pc[d] /\ job'[d] = job[d] /\ d # c
                       \/ d = c /\ pc'[d] = w
  BY Zenon DEF Go, LimiterTypeOK
<1>5. FreshReadings'
  BY <1>4, Zenon DEF FreshReadings
<1>6. \A d \in Calls : HasBatch(d)' => HasBatch(d) /\ job'[d] = job[d]
  BY <1>4, Zenon DEF HasBatch
<1>7. BatchesApart'
  BY <1>6 DEF BatchesApart
<1> QED
  BY <1>2, <1>3, <1>5, <1>7, Zenon

\* What is granted stays counted through a step that takes no member of a
\* granted batch out of the window and does not let the key expire earlier.
LEMMA CountedKept ==
  ASSUME LimiterTypeOK, GrantedCounted, UNCHANGED <<clock, granted>>,
         expires' \in {expires, clock + Window, NoExpiry},
         \A e \in zset, g \in granted :
           e.score > clock - Window /\ e.batch = g.batch => e \in zset'
  PROVE  GrantedCounted'
<1> SUFFICES ASSUME NEW g \in granted
             PROVE  /\ g.at + Window <= expires'
                    /\ clock - (Window - MaxDelay) < g.at =>
                         \E e \in zset' : /\ e.batch = g.batch
                                          /\ e.index = g.index
                                          /\ g.at - MaxDelay <= e.score
  BY Zenon DEF GrantedCounted
<1>1. g.at \in 0 .. clock /\ clock \in 0 .. MaxTime /\ g.at + Window <= expires
  BY Zenon DEF LimiterTypeOK, GrantedCounted
<1>2. g.at + Window <= expires'
  BY <1>1, LimiterAssumption DEF NoExpiry
<1>3. ASSUME clock - (Window - MaxDelay) < g.at
      PROVE  \E e \in zset' : /\ e.batch = g.batch /\ e.index = g.index
                              /\ g.at - MaxDelay <= e.score
  <2>1. PICK e \in zset : /\ e.batch = g.batch /\ e.index = g.index
                          /\ g.at - MaxDelay <= e.score
    BY <1>3, Zenon DEF GrantedCounted
  <2>2. e.score \in Nat
    BY Zenon DEF LimiterTypeOK
  <2>3. e.score > clock - Window
    BY <1>1, <1>3, <2>1, <2>2, LimiterAssumption
  <2> QED
    BY <2>1, <2>3, Zenon
<1> QED
  BY <1>2, <1>3, Zenon

\* The bound on the window is about the history and the clock alone.
LEMMA BoundKept ==
  ASSUME LimiterTypeOK, WindowBound, clock' = clock, granted' \in {granted, {}}
  PROVE  WindowBound'
<1>1. CASE granted' = granted
  BY <1>1, Zenon DEF WindowBound, GrantedUpTo
<1>2. CASE granted' = {}
  <2> SUFFICES ASSUME NEW t \in 0 .. clock PROVE Cardinality(GrantedUpTo(t)') <= Limit
    BY Zenon DEF WindowBound
  <2>1. GrantedUpTo(t)' = {}
    BY <1>2, Zenon DEF GrantedUpTo
  <2> QED
    BY <2>1, FS_EmptySet, LimiterAssumption
<1> QED
  BY <1>1, <1>2, Zenon

-----------------------------------------------------------------------------
(* The steps.                                                               *)

\* The initial state satisfies the invariant.
LEMMA LimiterInitInv == Init => LimiterInv
<1> SUFFICES ASSUME Init PROVE LimiterInv
  BY Zenon
<1>1. LimiterTypeOK
  BY FS_EmptySet, LimiterAssumption DEF Init, LimiterTypeOK, NoJob, NoExpiry
<1>2. /\ StringHoldsNothing /\ FreshReadings /\ BatchesApart /\ GrantedCounted
      /\ RefusedLeaveNoTrace
  BY Zenon DEF Init, StringHoldsNothing, FreshReadings, BatchesApart, HasBatch,
         GrantedCounted, RefusedLeaveNoTrace
<1>3. WindowBound
  <2> SUFFICES ASSUME NEW t \in 0 .. clock
               PROVE  Cardinality(GrantedUpTo(t)) <= Limit
    BY Zenon DEF WindowBound
  <2>1. GrantedUpTo(t) = {}
    BY Zenon DEF Init, GrantedUpTo
  <2> QED
    BY <2>1, FS_EmptySet, LimiterAssumption
<1> QED
  BY <1>1, <1>2, <1>3, Zenon DEF LimiterInv

\* The next number of memberSequence is nobody's yet.
LEMMA PrepareInv ==
  ASSUME LimiterInv, NEW c \in Calls, NEW n \in Nat \ {0}, NEW tries \in Nat,
         ~HasBatch(c), Prepare(c, n, tries)
  PROVE  LimiterInv'
<1> USE DEF LimiterInv, Prepare, Go, redis, history
<1>1. LimiterTypeOK'
  BY DEF LimiterTypeOK, Readings
<1>2. StringHoldsNothing' /\ GrantedCounted' /\ WindowBound'
  BY Zenon DEF StringHoldsNothing, GrantedCounted, WindowBound, GrantedUpTo
<1>3. \A d \in Calls : \/ pc'[d] = pc[d] /\ job'[d] = job[d] /\ d # c
                       \/ /\ d = c /\ pc'[d] = "exec" /\ job'[d].now \in Readings
                          /\ job'[d].batch = sequence + 1
  <2>1. PICK now \in Readings :
          job' = [job EXCEPT ![c] = [now |-> now, batch |-> sequence + 1,
                                     n |-> n, tries |-> tries]]
    BY Zenon
  <2> QED
    BY <2>1 DEF LimiterTypeOK
<1>4. FreshReadings'
  BY <1>3, LimiterAssumption DEF FreshReadings, LimiterTypeOK, Readings
<1>5. \A d \in Calls : HasBatch(d)' =>
        IF d = c THEN job'[d].batch = sequence + 1
        ELSE HasBatch(d) /\ job'[d].batch = job[d].batch
  BY <1>3, Zenon DEF HasBatch
<1>6. BatchesApart'
  <2>1. \A d \in Calls : HasBatch(d) => job[d].batch <= sequence
                                        /\ job[d].batch \in Nat
    BY Zenon DEF BatchesApart, LimiterTypeOK
  <2>2. \A g \in granted : g.batch \in Nat /\ g.batch <= sequence
    BY Zenon DEF BatchesApart, LimiterTypeOK
  <2>3. sequence' = sequence + 1 /\ sequence \in Nat /\ granted' = granted
    BY Zenon DEF LimiterTypeOK
  <2>4. \A d \in Calls : HasBatch(d)' => job'[d].batch <= sequence'
    BY <1>5, <2>1, <2>3
  <2>5. \A d, e \in Calls :
          HasBatch(d)' /\ HasBatch(e)' /\ job'[d].batch = job'[e].batch => d = e
    BY <1>5, <2>1, <2>3 DEF BatchesApart
  <2>6. \A g \in granted :
          /\ g.batch <= sequence'
          /\ \A d \in Calls : HasBatch(d)' => job'[d].batch # g.batch
          /\ \A h \in granted : g.batch = h.batch /\ g.index = h.index => g = h
    BY <1>5, <2>2, <2>3 DEF BatchesApart
  <2> QED
    BY <2>3, <2>4, <2>5, <2>6, Zenon DEF BatchesApart
<1>7. RefusedLeaveNoTrace'
  BY <1>3 DEF RefusedLeaveNoTrace, HasBatch
<1> QED
  BY <1>1, <1>2, <1>4, <1>6, <1>7, Zenon

\* The rollback takes out the members of its own batch, which nobody else has
\* and which was not granted.
LEMMA RollbackInv == ASSUME LimiterInv, NEW c \in Calls, Rollback(c) PROVE LimiterInv'
<1> USE DEF LimiterInv
<1>1. /\ pc[c] = "rollback" /\ Go(c, "refused")
      /\ job' = [job EXCEPT ![c] = NoJob]
      /\ UNCHANGED <<clock, sequence, granted, stray>>
  BY Zenon DEF Rollback, Finish, history
<1>2. /\ FreshReadings' /\ BatchesApart'
      /\ pc' \in [Calls -> {"idle", "exec", "rollback", "delete", "again",
                            "served", "refused"}]
      /\ job' \in [Calls -> [now : Nat, batch : Nat, n : Nat \ {0},
                             tries : Nat]]
  BY <1>1, CallLeaves, Zenon
<1>3. /\ zset' = {e \in zset : e.batch # job[c].batch}
      /\ expires' \in {expires, NoExpiry} /\ expires' \in Nat
      /\ kind' = "string" => kind = "string"
      /\ kind' \in {"none", "zset", "string"}
  <2>1. CASE kind = "string"
    BY <2>1, Zenon DEF Rollback, redis, StringHoldsNothing, LimiterTypeOK
  <2>2. CASE kind # "string"
    <3>1. IsFiniteSet({e \in zset : e.batch # job[c].batch})
      BY FS_Subset, Zenon DEF LimiterTypeOK
    <3> QED
      BY <2>2, <3>1, StoreTyped, Zenon DEF Rollback, LimiterTypeOK
  <2> QED
    BY <2>1, <2>2, Zenon
<1>4. LimiterTypeOK'
  <2>1. zset' \subseteq zset /\ IsFiniteSet(zset')
    BY <1>3, FS_Subset, Zenon DEF LimiterTypeOK
  <2> QED
    BY <1>1, <1>2, <1>3, <2>1, Zenon DEF LimiterTypeOK
<1>5. StringHoldsNothing'
  BY <1>1, <1>3, Zenon DEF StringHoldsNothing
<1>6. GrantedCounted'
  <2>1. \A g \in granted : g.batch # job[c].batch
    BY <1>1, Zenon DEF BatchesApart, HasBatch
  <2> QED
    BY <1>1, <1>3, <2>1, CountedKept, Zenon
<1>7. WindowBound'
  BY <1>1, BoundKept, Zenon
<1>8. RefusedLeaveNoTrace'
  <2>1. \A d \in Calls \ {c} : pc'[d] = pc[d] /\ job'[d] = job[d]
    BY <1>1, Zenon DEF Go, LimiterTypeOK
  <2> QED
    BY <1>1, <1>3, <2>1 DEF RefusedLeaveNoTrace
<1> QED
  BY <1>2, <1>4, <1>5, <1>6, <1>7, <1>8, Zenon

\* A call that fails, or cannot roll back, leaves the members alone; a batch
\* that stays behind is on record as stray.
LEMMA FailureInv ==
  ASSUME LimiterInv, NEW c \in Calls,
         \/ RollbackFails(c) \/ ReadOnly(c) \/ WrongType(c) \/ Abort(c)
         \/ DeleteFails(c)
         \/ /\ ConnectionLost(c)
            /\ UNCHANGED <<redis, stray>>
  PROVE  LimiterInv'
<1> USE DEF LimiterInv
<1>1. PICK w \in {"delete", "served", "refused"} :
        /\ Go(c, w) /\ (job' = job \/ job' = [job EXCEPT ![c] = NoJob])
        /\ UNCHANGED <<clock, sequence, granted, kind, zset>>
        /\ stray \subseteq stray'
        /\ pc[c] = "rollback" => job[c].batch \in stray'
  BY Zenon DEF RollbackFails, ReadOnly, WrongType, Abort, DeleteFails, ConnectionLost,
         Recover, Finish, redis, history
<1>2. /\ expires' \in {expires, clock + Window}
      /\ expires' # expires => kind = "string"
  BY Zenon DEF RollbackFails, ReadOnly, WrongType, Abort, DeleteFails, ConnectionLost,
         redis
<1>3. /\ FreshReadings' /\ BatchesApart'
      /\ pc' \in [Calls -> {"idle", "exec", "rollback", "delete", "again",
                            "served", "refused"}]
      /\ job' \in [Calls -> [now : Nat, batch : Nat, n : Nat \ {0},
                             tries : Nat]]
  BY <1>1, CallLeaves, Zenon
<1>4. LimiterTypeOK'
  BY <1>1, <1>2, <1>3, LimiterAssumption DEF LimiterTypeOK
<1>5. StringHoldsNothing' /\ GrantedCounted' /\ WindowBound'
  BY <1>1, <1>2, CountedKept, BoundKept, Zenon DEF StringHoldsNothing
<1>6. RefusedLeaveNoTrace'
  <2>1. \A d \in Calls \ {c} : pc'[d] = pc[d] /\ job'[d] = job[d]
    BY <1>1, Zenon DEF Go, LimiterTypeOK
  <2> QED
    BY <1>1, <2>1 DEF RefusedLeaveNoTrace
<1> QED
  BY <1>3, <1>4, <1>5, <1>6, Zenon

\* The transaction of a call: what is in the window stays, and the members of
\* the batch are added.
LEMMA TransactionStores ==
  ASSUME LimiterInv, NEW c \in Calls, pc[c] = "exec", kind # "string",
         Store(InWindow(job[c].now) \cup MembersOf(c), clock + Window)
  PROVE  /\ zset' = InWindow(job[c].now) \cup MembersOf(c)
         /\ zset' \subseteq [batch : Nat, index : Nat, score : Nat]
         /\ IsFiniteSet(zset') /\ kind' \in {"none", "zset"}
         /\ expires' \in Nat /\ expires' \in {clock + Window, NoExpiry}
         /\ \A e \in MembersOf(c) : e.batch = job[c].batch
                                    /\ e.score = job[c].now
         /\ \A e \in zset : e.score > clock - Window => e \in zset'
<1> USE DEF LimiterInv
<1>1. /\ job[c].now \in Nat /\ job[c].batch \in Nat /\ job[c].n \in Nat
      /\ clock \in Nat /\ job[c].now <= clock
  BY DEF LimiterTypeOK, FreshReadings
<1>2. /\ IsFiniteSet(MembersOf(c))
      /\ MembersOf(c) \subseteq [batch : Nat, index : Nat, score : Nat]
      /\ \A e \in MembersOf(c) : e.batch = job[c].batch /\ e.score = job[c].now
  BY <1>1, MembersFinite DEF MembersOf
<1>3. /\ IsFiniteSet(InWindow(job[c].now) \cup MembersOf(c))
      /\ InWindow(job[c].now) \cup MembersOf(c)
           \in SUBSET [batch : Nat, index : Nat, score : Nat]
  BY <1>2, WindowFinite, FS_Union, Zenon DEF LimiterTypeOK
<1>4. clock + Window \in Nat
  BY <1>1, LimiterAssumption
<1>5. /\ zset' = InWindow(job[c].now) \cup MembersOf(c)
      /\ zset' \subseteq [batch : Nat, index : Nat, score : Nat]
      /\ IsFiniteSet(zset') /\ kind' \in {"none", "zset"}
      /\ expires' \in Nat /\ expires' \in {clock + Window, NoExpiry}
  BY <1>3, <1>4, StoreTyped, Zenon
<1>6. \A e \in zset : e.score > clock - Window => e \in zset'
  BY <1>1, <1>5, LimiterAssumption DEF InWindow, LimiterTypeOK
<1> QED
  BY <1>2, <1>5, <1>6, Zenon

\* A transaction whose reply is lost leaves its batch behind, also when it is
\* sent again.
LEMMA LostReplyInv ==
  ASSUME LimiterInv, NEW c \in Calls, pc[c] = "exec", kind # "string",
         Store(InWindow(job[c].now) \cup MembersOf(c), clock + Window),
         stray' = stray \cup {job[c].batch},
         Finish(c, "served") \/ UNCHANGED <<pc, job>>,
         UNCHANGED <<clock, sequence, granted>>
  PROVE  LimiterInv'
<1> USE DEF LimiterInv
<1>1. /\ FreshReadings' /\ BatchesApart'
      /\ pc' \in [Calls -> {"idle", "exec", "rollback", "delete", "again",
                            "served", "refused"}]
      /\ job' \in [Calls -> [now : Nat, batch : Nat, n : Nat \ {0},
                             tries : Nat]]
  <2>1. CASE Finish(c, "served")
    BY <2>1, CallLeaves, Zenon DEF Finish
  <2>2. CASE UNCHANGED <<pc, job>>
    BY <2>2, Zenon DEF FreshReadings, BatchesApart, HasBatch, LimiterTypeOK
  <2> QED
    BY <2>1, <2>2, Zenon
<1>2. LimiterTypeOK' /\ StringHoldsNothing'
  BY <1>1, TransactionStores, Zenon DEF LimiterTypeOK, StringHoldsNothing
<1>3. GrantedCounted'
  BY TransactionStores, CountedKept, Zenon
<1>4. WindowBound'
  BY BoundKept, Zenon
<1>5. RefusedLeaveNoTrace'
  <2>1. \A d \in Calls \ {c} : pc'[d] = pc[d] /\ job'[d] = job[d]
    BY Zenon DEF Finish, Go, LimiterTypeOK
  <2>2. \A e \in zset' : e \in zset \/ e.batch = job[c].batch
    BY TransactionStores, WindowFinite, Zenon
  <2> QED
    BY <2>1, <2>2, Zenon DEF RefusedLeaveNoTrace
<1> QED
  BY <1>1, <1>2, <1>3, <1>4, <1>5, Zenon

\* A key that is deleted or overwritten counts nothing, and nothing that was
\* granted before is held against it.
LEMMA ForgetInv ==
  ASSUME LimiterInv,
         \/ Reset \/ Overwrite \/ \E c \in Calls : Delete(c)
  PROVE  LimiterInv'
<1> USE DEF LimiterInv
<1>1. /\ zset' = {} /\ granted' = {} /\ kind' \in {"none", "string"}
      /\ expires' = NoExpiry /\ UNCHANGED <<clock, sequence, job>>
  BY Zenon DEF Reset, Overwrite, Delete, Forget
<1>2. NoExpiry \in Nat
  BY LimiterAssumption DEF NoExpiry
<1>3. /\ FreshReadings' /\ BatchesApart'
      /\ pc' \in [Calls -> {"idle", "exec", "rollback", "delete", "again",
                            "served", "refused"}]
  <2>1. CASE \E c \in Calls : Delete(c)
    BY <1>1, <2>1, CallLeaves, Zenon DEF Delete
  <2>2. CASE pc' = pc
    BY <1>1, <2>2, Zenon
       DEF FreshReadings, BatchesApart, HasBatch, LimiterTypeOK
  <2> QED
    BY <2>1, <2>2, Zenon DEF Reset, Overwrite
<1>4. LimiterTypeOK'
  BY <1>1, <1>2, <1>3, FS_EmptySet, Zenon DEF LimiterTypeOK
<1>5. StringHoldsNothing' /\ GrantedCounted' /\ RefusedLeaveNoTrace'
  BY <1>1, Zenon DEF StringHoldsNothing, GrantedCounted, RefusedLeaveNoTrace
<1>6. WindowBound'
  BY <1>1, BoundKept, Zenon
<1> QED
  BY <1>3, <1>4, <1>5, <1>6, Zenon

\* The transaction counts at least what was granted in the window that ends
\* now: every grant has a member of its own that the purge leaves.
LEMMA CountCoversGrants ==
  ASSUME LimiterInv, NEW now \in Nat, now <= clock
  PROVE  /\ IsFiniteSet(GrantedUpTo(clock))
         /\ Cardinality(GrantedUpTo(clock)) \in Nat
         /\ Cardinality(GrantedUpTo(clock)) <= Cardinality(InWindow(now))
<1> USE DEF LimiterInv
<1> DEFINE G == GrantedUpTo(clock)
           K == InWindow(now)
           Of(g) == CHOOSE e \in K : e.batch = g.batch /\ e.index = g.index
           f == [g \in G |-> Of(g)]
<1>1. \A g \in G : \E e \in K : e.batch = g.batch /\ e.index = g.index
  <2> SUFFICES ASSUME NEW g \in G
               PROVE  \E e \in K : e.batch = g.batch /\ e.index = g.index
    BY Zenon
  <2>1. g \in granted /\ clock - (Window - MaxDelay) < g.at
    BY Zenon DEF GrantedUpTo
  <2>2. g.at \in Nat /\ clock \in Nat
    BY <2>1 DEF LimiterTypeOK
  <2>3. PICK e \in zset : /\ e.batch = g.batch /\ e.index = g.index
                          /\ g.at - MaxDelay <= e.score
    BY <2>1, Zenon DEF GrantedCounted
  <2>4. e.score \in Nat
    BY Zenon DEF LimiterTypeOK
  <2>5. e.score > now - Window
    BY <2>1, <2>2, <2>3, <2>4, LimiterAssumption
  <2> QED
    BY <2>3, <2>5, Zenon DEF InWindow
<1>2. \A g \in G : f[g] \in K /\ f[g].batch = g.batch /\ f[g].index = g.index
  BY <1>1, Zenon
<1>3. f \in [G -> K]
  BY <1>2, Zenon
<1>4. \A g, h \in G : f[g] = f[h] => g = h
  <2> SUFFICES ASSUME NEW g \in G, NEW h \in G, f[g] = f[h] PROVE g = h
    BY Zenon
  <2>1. g.batch = h.batch /\ g.index = h.index
    BY <1>2
  <2>2. g \in granted /\ h \in granted
    BY Zenon DEF GrantedUpTo
  <2> QED
    BY <2>1, <2>2, Zenon DEF BatchesApart
<1>5. f \in Injection(G, K)
  <2> HIDE DEF f, G, K
  <2> QED
    BY <1>3, <1>4, Zenon DEF Injection, IsInjective
<1>6. IsFiniteSet(K)
  BY WindowFinite, Zenon
<1>7. IsFiniteSet(G) /\ Cardinality(G) <= Cardinality(K)
  <2> HIDE DEF f, G, K
  <2> QED
    BY <1>5, <1>6, FS_Injection, Zenon
<1> QED
  BY <1>7, FS_CardinalityType, Zenon

\* A transaction that counts too many: the call has a rollback to make.
LEMMA RefusedInv ==
  ASSUME LimiterInv, NEW c \in Calls, Count(c), Go(c, "rollback"),
         UNCHANGED <<job, granted>>
  PROVE  LimiterInv'
<1> USE DEF LimiterInv
<1>1. /\ pc[c] = "exec" /\ kind # "string"
      /\ Store(InWindow(job[c].now) \cup MembersOf(c), clock + Window)
      /\ UNCHANGED <<clock, sequence, stray>>
  BY Zenon DEF Count
<1>2. /\ FreshReadings' /\ BatchesApart'
      /\ pc' \in [Calls -> {"idle", "exec", "rollback", "delete", "again",
                            "served", "refused"}]
  BY <1>1, CallLeaves, Zenon
<1>3. LimiterTypeOK' /\ StringHoldsNothing'
  BY <1>1, <1>2, TransactionStores, Zenon DEF LimiterTypeOK, StringHoldsNothing
<1>4. GrantedCounted'
  BY <1>1, TransactionStores, CountedKept, Zenon
<1>5. WindowBound'
  BY <1>1, BoundKept, Zenon
<1>6. RefusedLeaveNoTrace'
  <2>1. \A d \in Calls : \/ d # c /\ pc'[d] = pc[d]
                         \/ d = c /\ pc'[d] = "rollback"
    BY Zenon DEF Go, LimiterTypeOK
  <2>2. \A e \in zset' : e \in zset \/ e.batch = job[c].batch
    BY <1>1, TransactionStores, WindowFinite, Zenon
  <2> QED
    BY <1>1, <2>1, <2>2, Zenon DEF RefusedLeaveNoTrace
<1> QED
  BY <1>2, <1>3, <1>4, <1>5, <1>6, Zenon

\* The grants of a call that is allowed.
NewGrants(c) ==
  {[batch |-> job[c].batch, index |-> i, at |-> clock] : i \in 0 .. job[c].n - 1}

\* Each of the new grants has its member in the sorted set, and they are n.
LEMMA NewGrantsCounted ==
  ASSUME LimiterInv, NEW c \in Calls
  PROVE  /\ IsFiniteSet(NewGrants(c)) /\ Cardinality(NewGrants(c)) \in Nat
         /\ Cardinality(NewGrants(c)) <= job[c].n
         /\ NewGrants(c) \subseteq [batch : Nat, index : Nat, at : 0 .. clock]
         /\ \A g \in NewGrants(c) :
              /\ g.batch = job[c].batch /\ g.at = clock
              /\ \E e \in MembersOf(c) : e.batch = g.batch /\ e.index = g.index
         /\ \A e \in MembersOf(c) :
              \E g \in NewGrants(c) : g.batch = e.batch /\ g.index = e.index
<1> USE DEF LimiterInv
<1>1. job[c].n \in Nat /\ job[c].batch \in Nat /\ clock \in Nat
  BY DEF LimiterTypeOK
<1>2. /\ IsFiniteSet(NewGrants(c)) /\ Cardinality(NewGrants(c)) \in Nat
      /\ Cardinality(NewGrants(c)) <= job[c].n
  BY <1>1, GrantsCounted, Zenon DEF NewGrants
<1>3. NewGrants(c) \subseteq [batch : Nat, index : Nat, at : 0 .. clock]
  BY <1>1 DEF NewGrants
<1>4. \A g \in NewGrants(c) :
        /\ g.batch = job[c].batch /\ g.at = clock
        /\ \E e \in MembersOf(c) : e.batch = g.batch /\ e.index = g.index
  <2> SUFFICES ASSUME NEW i \in 0 .. job[c].n - 1
               PROVE  \E e \in MembersOf(c) : e.batch = job[c].batch
                                              /\ e.index = i
    BY DEF NewGrants
  <2>1. [batch |-> job[c].batch, index |-> i, score |-> job[c].now]
          \in MembersOf(c)
    BY Zenon DEF MembersOf, NewMembers
  <2> QED
    BY <2>1, Zenon
<1>5. \A e \in MembersOf(c) :
        \E g \in NewGrants(c) : g.batch = e.batch /\ g.index = e.index
  <2> SUFFICES ASSUME NEW i \in 0 .. job[c].n - 1
               PROVE  \E g \in NewGrants(c) : g.batch = job[c].batch
                                              /\ g.index = i
    BY DEF MembersOf, NewMembers
  <2>1. [batch |-> job[c].batch, index |-> i, at |-> clock] \in NewGrants(c)
    BY Zenon DEF NewGrants
  <2> QED
    BY <2>1, Zenon
<1> QED
  BY <1>2, <1>3, <1>4, <1>5, Zenon

\* A transaction that counts few enough: with the new grants the window that
\* ends now holds no more than Limit, and the earlier windows are as they were.
LEMMA AllowedInv ==
  ASSUME LimiterInv, NEW c \in Calls, Count(c), Finish(c, "served"),
         Allowed(Cardinality(InWindow(job[c].now)), job[c].n),
         granted' = granted \cup NewGrants(c)
  PROVE  LimiterInv'
<1> USE DEF LimiterInv
<1>1. /\ pc[c] = "exec" /\ kind # "string"
      /\ Store(InWindow(job[c].now) \cup MembersOf(c), clock + Window)
      /\ UNCHANGED <<clock, sequence, stray>>
  BY Zenon DEF Count
<1>2. /\ job[c].now \in Nat /\ job[c].batch \in Nat /\ job[c].n \in Nat
      /\ clock \in Nat /\ job[c].now <= clock /\ clock - job[c].now <= MaxDelay
  BY <1>1 DEF LimiterTypeOK, FreshReadings
<1>3. \A d \in Calls : \/ d # c /\ pc'[d] = pc[d] /\ job'[d] = job[d]
                       \/ d = c /\ pc'[d] = "served"
  BY Zenon DEF Finish, Go, LimiterTypeOK
<1>4. FreshReadings'
  BY <1>1, <1>3, Zenon DEF FreshReadings
<1>5. BatchesApart'
  <2>1. \A d \in Calls : HasBatch(d)' => d # c /\ HasBatch(d)
                                         /\ job'[d] = job[d]
    BY <1>3, Zenon DEF HasBatch
  <2>2. HasBatch(c) /\ job[c].batch <= sequence
    BY <1>1, Zenon DEF HasBatch, BatchesApart
  <2>3. \A g \in granted : g.batch # job[c].batch
    BY <2>2, Zenon DEF BatchesApart
  <2>4. \A g, h \in NewGrants(c) : g.index = h.index => g = h
    BY DEF NewGrants
  <2>5. \A g \in granted' :
          /\ g.batch <= sequence
          /\ \A d \in Calls : HasBatch(d)' => job'[d].batch # g.batch
    BY <2>1, <2>2, NewGrantsCounted DEF BatchesApart
  <2>6. \A g, h \in granted' : g.batch = h.batch /\ g.index = h.index => g = h
    BY <2>3, <2>4, NewGrantsCounted DEF BatchesApart
  <2> QED
    BY <1>1, <2>1, <2>5, <2>6 DEF BatchesApart
<1>6. LimiterTypeOK'
  <2>1. /\ pc' \in [Calls -> {"idle", "exec", "rollback", "delete", "again",
                              "served", "refused"}]
        /\ job' \in [Calls -> [now : Nat, batch : Nat, n : Nat \ {0},
                               tries : Nat]]
    BY DEF Finish, Go, LimiterTypeOK, NoJob
  <2>2. IsFiniteSet(granted') /\ granted' \subseteq
          [batch : Nat, index : Nat, at : 0 .. clock]
    BY NewGrantsCounted, FS_Union, Zenon DEF LimiterTypeOK
  <2> QED
    BY <1>1, <2>1, <2>2, TransactionStores, Zenon DEF LimiterTypeOK
<1>7. StringHoldsNothing'
  BY <1>1, TransactionStores, Zenon DEF StringHoldsNothing
<1>8. GrantedCounted'
  <2>1. clock + Window <= expires'
    <3>1. expires' \in {clock + Window, NoExpiry}
      BY <1>1, TransactionStores, Zenon
    <3>2. clock <= MaxTime
      BY LimiterAssumption DEF LimiterTypeOK
    <3> QED
      BY <1>2, <3>1, <3>2, LimiterAssumption DEF NoExpiry
  <2>2. ASSUME NEW g \in NewGrants(c)
        PROVE  /\ g.at + Window <= expires'
               /\ \E e \in zset' : /\ e.batch = g.batch /\ e.index = g.index
                                   /\ g.at - MaxDelay <= e.score
    <3>1. g.at = clock
      BY NewGrantsCounted, Zenon
    <3>2. PICK e \in MembersOf(c) : e.batch = g.batch /\ e.index = g.index
      BY NewGrantsCounted
    <3>3. e \in zset' /\ e.score = job[c].now
      BY <1>1, TransactionStores, Zenon
    <3>4. g.at - MaxDelay <= e.score
      BY <1>2, <3>1, <3>3, LimiterAssumption
    <3> QED
      BY <2>1, <3>1, <3>2, <3>3, <3>4, Zenon
  <2>3. ASSUME NEW g \in granted
        PROVE  /\ g.at + Window <= expires'
               /\ clock - (Window - MaxDelay) < g.at =>
                    \E e \in zset' : /\ e.batch = g.batch /\ e.index = g.index
                                     /\ g.at - MaxDelay <= e.score
    <3>1. g.at \in 0 .. clock
      BY Zenon DEF LimiterTypeOK
    <3>2. g.at + Window <= expires'
      BY <1>1, <1>2, <2>1, <3>1, TransactionStores, LimiterAssumption
         DEF NoExpiry
    <3>3. ASSUME clock - (Window - MaxDelay) < g.at
          PROVE  \E e \in zset' : /\ e.batch = g.batch /\ e.index = g.index
                                  /\ g.at - MaxDelay <= e.score
      <4>1. PICK e \in zset : /\ e.batch = g.batch /\ e.index = g.index
                              /\ g.at - MaxDelay <= e.score
        BY <3>3, Zenon DEF GrantedCounted
      <4>2. e.score \in Nat
        BY Zenon DEF LimiterTypeOK
      <4>3. e.score > clock - Window
        BY <1>2, <3>1, <3>3, <4>1, <4>2, LimiterAssumption
      <4> QED
        BY <1>1, <4>1, <4>3, TransactionStores, Zenon
    <3> QED
      BY <3>2, <3>3, Zenon
  <2> QED
    BY <1>1, <2>2, <2>3, Zenon DEF GrantedCounted
<1>9. WindowBound'
  <2> SUFFICES ASSUME NEW t \in 0 .. clock
               PROVE  Cardinality(GrantedUpTo(t)') <= Limit
    BY <1>1, Zenon DEF WindowBound
  <2>1. CASE t # clock
    <3>1. GrantedUpTo(t)' = GrantedUpTo(t)
      BY <1>2, <2>1, NewGrantsCounted DEF GrantedUpTo
    <3> QED
      BY <3>1, Zenon DEF WindowBound
  <2>2. CASE t = clock
    <3> DEFINE G == GrantedUpTo(clock)
               N == NewGrants(c)
    <3>1. GrantedUpTo(t)' \subseteq G \cup N
      BY <2>2, Zenon DEF GrantedUpTo
    <3>2. /\ IsFiniteSet(G) /\ Cardinality(G) \in Nat
          /\ Cardinality(G) <= Cardinality(InWindow(job[c].now))
      BY <1>2, CountCoversGrants, Zenon
    <3>3. /\ IsFiniteSet(N) /\ Cardinality(N) \in Nat
          /\ Cardinality(N) <= job[c].n
      BY NewGrantsCounted, Zenon
    <3>4. Cardinality(InWindow(job[c].now)) + job[c].n <= Limit
          /\ Cardinality(InWindow(job[c].now)) \in Nat
      BY WindowFinite, Zenon DEF Allowed
    <3> HIDE DEF G, N
    <3>5. /\ IsFiniteSet(G \cup N)
          /\ Cardinality(G \cup N)
               = Cardinality(G) + Cardinality(N) - Cardinality(G \cap N)
      BY <3>2, <3>3, FS_Union, Zenon
    <3>6. Cardinality(G \cap N) \in Nat /\ Cardinality(G \cup N) \in Nat
      <4>1. IsFiniteSet(G \cap N)
        BY <3>2, FS_Subset, Zenon
      <4> QED
        BY <3>5, <4>1, FS_CardinalityType, Zenon
    <3>7. Cardinality(GrantedUpTo(t)') <= Cardinality(G \cup N)
          /\ Cardinality(GrantedUpTo(t)') \in Nat
      BY <3>1, <3>5, FS_Subset, FS_CardinalityType, Zenon
    <3> QED
      BY <1>2, <3>2, <3>3, <3>4, <3>5, <3>6, <3>7, LimiterAssumption
  <2> QED
    BY <2>1, <2>2, Zenon
<1>10. RefusedLeaveNoTrace'
  <2>1. \A e \in zset' : e \in zset \/ e \in MembersOf(c)
    BY <1>1, TransactionStores, WindowFinite, Zenon
  <2>2. ASSUME NEW e \in zset', e \in MembersOf(c)
        PROVE  \E g \in granted' : g.batch = e.batch /\ g.index = e.index
    BY <2>2, NewGrantsCounted
  <2>3. ASSUME NEW e \in zset
        PROVE  \/ \E g \in granted' : g.batch = e.batch /\ g.index = e.index
               \/ \E d \in Calls : pc'[d] = "rollback" /\ job'[d].batch = e.batch
               \/ e.batch \in stray'
    <3>1. CASE \E d \in Calls : pc[d] = "rollback" /\ job[d].batch = e.batch
      BY <1>1, <1>3, <3>1, Zenon
    <3> QED
      BY <1>1, <2>3, <3>1, Zenon DEF RefusedLeaveNoTrace
  <2> QED
    BY <2>1, <2>2, <2>3, Zenon DEF RefusedLeaveNoTrace
<1> QED
  BY <1>4, <1>5, <1>6, <1>7, <1>8, <1>9, <1>10, Zenon

\* The purge of GetCount takes out what has left the window.
LEMMA GetCountInv == ASSUME LimiterInv, GetCount PROVE LimiterInv'
<1> USE DEF LimiterInv
<1>1. PICK now \in 0 .. clock : Store(InWindow(now), expires)
  BY Zenon DEF GetCount, Readings
<1>2. /\ kind = "zset" /\ UNCHANGED <<clock, sequence, pc, job, granted, stray>>
  BY Zenon DEF GetCount, history
<1>3. /\ zset' = InWindow(now) /\ kind' \in {"none", "zset"} /\ IsFiniteSet(zset')
      /\ zset' \subseteq [batch : Nat, index : Nat, score : Nat]
      /\ expires' \in Nat /\ expires' \in {expires, NoExpiry}
  BY <1>1, StoreTyped, WindowFinite, Zenon DEF LimiterTypeOK
<1>4. LimiterTypeOK' /\ StringHoldsNothing' /\ FreshReadings' /\ BatchesApart'
  BY <1>2, <1>3, Zenon DEF LimiterTypeOK, StringHoldsNothing, FreshReadings,
                    BatchesApart, HasBatch
<1>5. \A e \in zset : e.score > clock - Window => e \in zset'
  BY <1>3, LimiterAssumption DEF InWindow, LimiterTypeOK
<1>6. GrantedCounted' /\ WindowBound'
  BY <1>2, <1>3, <1>5, CountedKept, BoundKept, Zenon
<1>7. RefusedLeaveNoTrace'
  BY <1>2, <1>3, WindowFinite, Zenon DEF RefusedLeaveNoTrace
<1> QED
  BY <1>4, <1>6, <1>7, Zenon

\* Time passes: the windows that end later hold no more than the one that ends
\* now, and a key expires only when everything granted has left the window.
LEMMA TickInv == ASSUME LimiterInv, Tick PROVE LimiterInv'
<1> USE DEF LimiterInv
<1>1. /\ clock' = clock + 1 /\ clock \in Nat /\ clock' \in 0 .. MaxTime
      /\ UNCHANGED <<sequence, pc, job, granted, stray>>
  BY LimiterAssumption DEF Tick, history, LimiterTypeOK
<1>2. \/ UNCHANGED <<kind, zset, expires>>
      \/ /\ expires = clock + 1 /\ kind' = "none" /\ zset' = {}
         /\ expires' = NoExpiry
  BY Zenon DEF Tick, redis
<1>3. NoExpiry \in Nat /\ clock + Window <= NoExpiry
  BY LimiterAssumption DEF NoExpiry, LimiterTypeOK
<1>4. LimiterTypeOK'
  BY <1>1, <1>2, <1>3, FS_EmptySet DEF LimiterTypeOK
<1>5. StringHoldsNothing' /\ RefusedLeaveNoTrace'
  BY <1>1, <1>2, Zenon DEF StringHoldsNothing, RefusedLeaveNoTrace
<1>6. FreshReadings'
  <2> SUFFICES ASSUME NEW c \in Calls, pc[c] = "exec"
               PROVE  job[c].now <= clock' /\ clock' - job[c].now <= MaxDelay
    BY <1>1, Zenon DEF FreshReadings
  <2>1. job[c].now \in Nat /\ job[c].now <= clock
        /\ clock - job[c].now < MaxDelay
    BY Zenon DEF Tick, FreshReadings, LimiterTypeOK
  <2> QED
    BY <1>1, <2>1, LimiterAssumption
<1>7. BatchesApart'
  BY <1>1, Zenon DEF BatchesApart, HasBatch
<1>8. GrantedCounted'
  <2> SUFFICES ASSUME NEW g \in granted
               PROVE  /\ g.at + Window <= expires'
                      /\ clock' - (Window - MaxDelay) < g.at =>
                           \E e \in zset' : /\ e.batch = g.batch
                                            /\ e.index = g.index
                                            /\ g.at - MaxDelay <= e.score
    BY <1>1, Zenon DEF GrantedCounted
  <2>1. g.at \in 0 .. clock /\ g.at + Window <= expires
    BY Zenon DEF LimiterTypeOK, GrantedCounted
  <2>2. CASE UNCHANGED <<kind, zset, expires>>
    BY <1>1, <2>1, <2>2, LimiterAssumption DEF GrantedCounted
  <2>3. CASE expires = clock + 1 /\ expires' = NoExpiry
    BY <1>1, <1>3, <2>1, <2>3, LimiterAssumption
  <2> QED
    BY <1>2, <2>2, <2>3, Zenon
<1>9. WindowBound'
  <2> SUFFICES ASSUME NEW t \in 0 .. clock + 1
               PROVE  Cardinality(GrantedUpTo(t)') <= Limit
    BY <1>1, Zenon DEF WindowBound
  <2>1. CASE t \in 0 .. clock
    BY <1>1, <2>1, Zenon DEF WindowBound, GrantedUpTo
  <2>2. CASE t = clock + 1
    <3>1. \A g \in granted : g.at \in 0 .. clock
      BY Zenon DEF LimiterTypeOK
    <3>2. GrantedUpTo(t)' \subseteq GrantedUpTo(clock)
      BY <1>1, <2>2, <3>1, LimiterAssumption DEF GrantedUpTo
    <3>3. IsFiniteSet(GrantedUpTo(clock)) /\ GrantedUpTo(clock) \subseteq granted
      BY FS_Subset, Zenon DEF GrantedUpTo, LimiterTypeOK
    <3>4. /\ Cardinality(GrantedUpTo(t)') <= Cardinality(GrantedUpTo(clock))
          /\ Cardinality(GrantedUpTo(t)') \in Nat
          /\ Cardinality(GrantedUpTo(clock)) \in Nat
      BY <3>2, <3>3, FS_Subset, FS_CardinalityType, Zenon
    <3>5. Cardinality(GrantedUpTo(clock)) <= Limit
      BY <1>1 DEF WindowBound
    <3> QED
      BY <3>4, <3>5, LimiterAssumption
  <2> QED
    BY <1>1, <2>1, <2>2
<1> QED
  BY <1>4, <1>5, <1>6, <1>7, <1>8, <1>9, Zenon

\* The invariant holds in every reachable state.
THEOREM LimiterInvariance == Spec => []LimiterInv
<1>1. LimiterInv /\ [Next]_vars => LimiterInv'
  <2> SUFFICES ASSUME LimiterInv, [Next]_vars PROVE LimiterInv'
    BY Zenon
  <2>1. ASSUME NEW c \in Calls, Arrive(c) \/ Again(c) PROVE LimiterInv'
    <3>1. \E n \in Nat \ {0}, tries \in Nat : Prepare(c, n, tries)
      BY <2>1, LimiterAssumption, Zenon DEF Arrive, Again, LimiterInv, LimiterTypeOK
    <3>2. ~HasBatch(c)
      BY <2>1, Zenon DEF Arrive, Again, HasBatch
    <3> QED
      BY <3>1, <3>2, PrepareInv, Zenon
  <2>2. ASSUME NEW c \in Calls, Count(c) PROVE LimiterInv'
    BY <2>2, AllowedInv, RefusedInv, Zenon DEF Count, NewGrants
  <2>3. ASSUME NEW c \in Calls, ConnectionLost(c) \/ Resend(c) PROVE LimiterInv'
    BY <2>3, FailureInv, LostReplyInv, Zenon DEF ConnectionLost, Resend
  <2>4. CASE Failover \/ UNCHANGED vars
    <3>1. UNCHANGED <<clock, kind, zset, expires, sequence, pc, job, granted,
                      stray>>
      BY <2>4, Zenon DEF Failover, vars, redis, history
    <3> QED
      BY <3>1 DEF LimiterInv, LimiterTypeOK, StringHoldsNothing, FreshReadings,
                  BatchesApart, HasBatch, GrantedCounted, RefusedLeaveNoTrace,
                  WindowBound, GrantedUpTo
  <2>5. ASSUME NEW c \in Calls,
               \/ RollbackFails(c) \/ ReadOnly(c) \/ WrongType(c) \/ Abort(c)
               \/ DeleteFails(c)
        PROVE  LimiterInv'
    BY <2>5, FailureInv, Zenon
  <2>6. ASSUME NEW c \in Calls, Request(c) PROVE LimiterInv'
    BY <2>1, <2>2, <2>3, <2>5, <2>6, RollbackInv, ForgetInv, Zenon DEF Request
  <2> QED
    BY <2>4, <2>6, ForgetInv, GetCountInv, TickInv, Zenon DEF Next
<1> QED
  BY LimiterInitInv, <1>1, PTL DEF Spec

\* For every limit, window and number of concurrent calls, no stretch of time
\* as long as the window, less the delay of a transaction, sees more than Limit
\* requests granted (allowN), since the key was last deleted or overwritten.
THEOREM LimitHolds == Spec => []WindowBound
<1>1. LimiterInv => WindowBound
  BY Zenon DEF LimiterInv
<1> QED
  BY LimiterInvariance, <1>1, PTL

\* However the calls interleave, a refused call leaves nothing in Redis once
\* its rollback ran, and no rollback takes a member of another call.
THEOREM RefusedTraceless == Spec => []RefusedLeaveNoTrace
<1>1. LimiterInv => RefusedLeaveNoTrace
  BY Zenon DEF LimiterInv
<1> QED
  BY LimiterInvariance, <1>1, PTL

-----------------------------------------------------------------------------
(* RateLimitKeys: any addresses, users, tiers and limit.                    *)

\* The key of every request has a budget (getRateLimitKey).
LEMMA KeyHasBudget ==
  ASSUME NEW r \in LimitedRequests PROVE RateLimitKey(r) \in Keys
<1>1. r.host \in Hosts /\ r.account \in Accounts \cup {Anonymous}
  BY Zenon DEF LimitedRequests
<1>2. ByUser(r) \in Keys /\ <<"ip", r.host>> \in Keys
  BY <1>1 DEF ByUser, Keys
<1> QED
  BY <1>2, Zenon DEF RateLimitKey, GetRateLimitKey, HTTPRateLimitKey

\* An admitted request is charged to its own budget and to no other
\* (MultiLimiter.Allow).
LEMMA ChargedOnce ==
  ASSUME LimitKeysInv, NEW r \in LimitedRequests, RateLimitMiddleware(r)
  PROVE  LimitKeysInv'
<1> DEFINE own == RateLimitKey(r)
           new == [request |-> r, nth |-> budget[r.tier][own] + 1]
<1>1. own \in Keys
  BY KeyHasBudget, Zenon
<1>2. /\ r.tier \in KnownTiers /\ stack' = stack /\ served' = served \cup {new}
      /\ budget' = [budget EXCEPT ![r.tier][own] = @ + 1]
      /\ new.request = r /\ new.nth = budget[r.tier][own] + 1
  BY Zenon DEF RateLimitMiddleware
<1>3. /\ stack \in {"gin", "http"} /\ IsFiniteSet(served)
      /\ budget \in [KnownTiers -> [Keys -> Nat]]
      /\ \A s \in served : s.request \in LimitedRequests
  BY Zenon DEF LimitKeysInv
<1> HIDE DEF new, own
<1>4. /\ budget' \in [KnownTiers -> [Keys -> Nat]]
      /\ budget'[r.tier][own] = budget[r.tier][own] + 1
      /\ \A t \in KnownTiers, k \in Keys :
           t # r.tier \/ k # own => budget'[t][k] = budget[t][k]
  BY <1>1, <1>2, <1>3
<1>5. IsFiniteSet(served')
  BY <1>2, <1>3, FS_AddElement, Zenon
<1>6. \A s : RateLimitKey(s)' = RateLimitKey(s)
  BY <1>2, Zenon DEF RateLimitKey
<1>7. ASSUME NEW t \in KnownTiers, NEW k \in Keys
      PROVE  /\ Cardinality(Charged(t, k)') = budget'[t][k]
             /\ \A s \in Charged(t, k)' : s.nth <= budget'[t][k] /\ s.nth \in Nat
  <2>1. /\ Cardinality(Charged(t, k)) = budget[t][k] /\ budget[t][k] \in Nat
        /\ \A s \in Charged(t, k) : s.nth <= budget[t][k] /\ s.nth \in Nat
    BY <1>3, Zenon DEF LimitKeysInv
  <2>2. Charged(t, k)' = {s \in served' : /\ s.request.tier = t
                                         /\ RateLimitKey(s.request) = k}
    BY <1>6, Zenon DEF Charged
  <2>3. CASE t = r.tier /\ k = own
    <3>1. Charged(t, k)' = Charged(t, k) \cup {new}
      BY <1>2, <2>2, <2>3, Zenon DEF Charged, own
    <3>2. new \notin Charged(t, k)
      BY <1>2, <2>1, <2>3
    <3>3. IsFiniteSet(Charged(t, k))
      BY <1>3, FS_Subset, Zenon DEF Charged
    <3>4. Cardinality(Charged(t, k)') = Cardinality(Charged(t, k)) + 1
      BY <3>1, <3>2, <3>3, FS_AddElement, Zenon
    <3> QED
      BY <1>2, <1>4, <2>1, <2>3, <3>1, <3>4
  <2>4. CASE t # r.tier \/ k # own
    <3>1. Charged(t, k)' = Charged(t, k)
      BY <1>2, <2>2, <2>4, Zenon DEF Charged, own
    <3> QED
      BY <1>4, <2>1, <2>4, <3>1, Zenon
  <2> QED
    BY <2>3, <2>4, Zenon
<1>8. \A s \in served' : s.request \in LimitedRequests
  BY <1>2, <1>3, Zenon
<1> QED
  BY <1>2, <1>3, <1>4, <1>5, <1>7, <1>8, Zenon DEF LimitKeysInv

\* An empty window has spent no budget (NewMultiLimiter, and every new window).
LEMMA NothingCharged ==
  ASSUME stack \in {"gin", "http"}, budget = NoneUsed, served = {}
  PROVE  LimitKeysInv
<1>1. budget \in [KnownTiers -> [Keys -> Nat]]
  BY DEF NoneUsed
<1>2. ASSUME NEW t \in KnownTiers, NEW k \in Keys
      PROVE  Charged(t, k) = {} /\ budget[t][k] = 0
  BY Zenon DEF Charged, NoneUsed
<1>3. IsFiniteSet({}) /\ Cardinality({}) = 0
  BY FS_EmptySet, Zenon
<1> QED
  BY <1>1, <1>2, <1>3, Zenon DEF LimitKeysInv

\* Each budget counts exactly the requests that were charged to it.
THEOREM BudgetsCount == LimitSpec => []LimitKeysInv
<1>1. LimitInit => LimitKeysInv
  BY NothingCharged, Zenon DEF LimitInit
<1>2. ASSUME LimitKeysInv, [LimitNext]_limitVars PROVE LimitKeysInv'
  <2>1. CASE \E r \in LimitedRequests : RateLimitMiddleware(r)
    BY <1>2, <2>1, ChargedOnce, Zenon
  <2>2. CASE WindowEnds
    <3>1. stack' \in {"gin", "http"} /\ budget' = NoneUsed' /\ served' = {}
      BY <1>2, <2>2, Zenon DEF WindowEnds, LimitKeysInv, NoneUsed, Keys
    <3>2. (stack \in {"gin", "http"} /\ budget = NoneUsed /\ served = {}
             => LimitKeysInv)'
      BY NothingCharged, PTL
    <3> QED
      BY <3>1, <3>2, Zenon
  <2>3. CASE UNCHANGED limitVars
    <3>1. UNCHANGED <<stack, budget, served>>
      BY <2>3, Zenon DEF limitVars
    <3>2. \A t, k : Charged(t, k)' = Charged(t, k)
      BY <3>1, Zenon DEF Charged, RateLimitKey
    <3> QED
      BY <1>2, <3>1, <3>2, Zenon DEF LimitKeysInv
  <2> QED
    BY <1>2, <2>1, <2>2, <2>3, Zenon DEF LimitNext
<1> QED
  BY <1>1, <1>2, PTL DEF LimitSpec

\* A user, or an address without one, is refused only after as many requests of
\* its own as the tier admits, and nobody when Redis is down or the tier is
\* unknown (getRateLimitKey, HTTPRateLimitMiddleware, MultiLimiter.Allow).
THEOREM NobodyCrowdedOut == LimitSpec => []NotCrowdedOut
<1>1. ASSUME LimitKeysInv, NEW r \in LimitedRequests, NEW up \in BOOLEAN,
             Outcome(r, up) = "429"
      PROVE  up /\ r.tier \in KnownTiers /\ ~HasBudget(r)
  BY <1>1, Zenon DEF Outcome, OnLimiterError
<1>2. ASSUME LimitKeysInv, NEW r \in LimitedRequests,
             r.tier \in KnownTiers, ~HasBudget(r)
      PROVE  Cardinality(AdmittedFor(r)) >= TierLimit
  <2> DEFINE k == RateLimitKey(r)
  <2>1. k \in Keys
    BY KeyHasBudget, Zenon
  <2>2. Charged(r.tier, k) \subseteq AdmittedFor(r)
    <3> SUFFICES ASSUME NEW s \in served, s.request.tier = r.tier,
                        RateLimitKey(s.request) = RateLimitKey(r)
                 PROVE  IF r.account = Anonymous \/ (stack = "gin" /\ r.tier = "auth")
                        THEN s.request.host = r.host
                        ELSE s.request.account = r.account
      BY Zenon DEF Charged, AdmittedFor
    <3> QED
      BY DEF RateLimitKey, GetRateLimitKey, HTTPRateLimitKey, ByUser
  <2> HIDE DEF k
  <2>3. /\ IsFiniteSet(served) /\ budget[r.tier][k] \in Nat
        /\ Cardinality(Charged(r.tier, k)) = budget[r.tier][k]
    BY <1>2, <2>1, Zenon DEF LimitKeysInv
  <2>4. IsFiniteSet(AdmittedFor(r))
    BY <2>3, FS_Subset, Zenon DEF AdmittedFor
  <2>5. /\ Cardinality(Charged(r.tier, k)) <= Cardinality(AdmittedFor(r))
        /\ Cardinality(AdmittedFor(r)) \in Nat
    BY <2>2, <2>4, FS_Subset, FS_CardinalityType, Zenon
  <2>6. ~(budget[r.tier][k] < TierLimit)
    BY <1>2, Zenon DEF HasBudget, k
  <2> QED
    BY <2>3, <2>5, <2>6, RateLimitKeysAssumption
<1>3. LimitKeysInv => NotCrowdedOut
  BY <1>1, <1>2, Zenon DEF NotCrowdedOut
<1> QED
  BY <1>3, BudgetsCount, PTL
=============================================================================
