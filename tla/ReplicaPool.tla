----------------------------- MODULE ReplicaPool ----------------------------
(***************************************************************************)
(* postgres.ReplicaPool with its health checker, and a session that writes *)
(* through WithTx and reads through ReadAfterWrite.  The primary's log is  *)
(* the sequence of the ages of its commits.  A replica receives and then   *)
(* replays it; the lag query of getReplicationLag compares the two         *)
(* positions and takes the age of the last replayed entry.  Postgres is    *)
(* external: a replica may receive and replay at any time, and may be out  *)
(* of reach for a while.  Times are kept as ages, up to the largest age    *)
(* that some comparison tells apart from a larger one.                     *)
(***************************************************************************)
EXTENDS Integers, Sequences, FiniteSets

CONSTANTS
  Replicas,           \* number of replicas
  Strategy,           \* config.LoadBalancing
  FallbackToPrimary,
  MaxReplicaLag,
  ConsistencyWindow,  \* of the ReadAfterWrite
  CheckEvery,         \* age up to which a check counts as recent
  NetDelay,           \* time in which a replica that streams gets an entry
  MaxWrites, MaxOutages  \* bounds: commits, and failures of replicas

ASSUME ReplicaAssumption ==
  /\ Replicas \in Nat /\ FallbackToPrimary \in BOOLEAN
  /\ MaxReplicaLag \in Nat /\ CheckEvery \in Nat
  /\ NetDelay \in 0..MaxReplicaLag
  /\ ConsistencyWindow \in Nat /\ ConsistencyWindow > MaxReplicaLag + CheckEvery
  /\ MaxWrites \in Nat /\ MaxOutages \in Nat

Index == 1..Replicas
Primary == 0
Counters == 0..Replicas            \* enough for every index into the pools
TooOld == MaxReplicaLag + 1        \* for an entry of the log and for a lag
Unsound == CheckEvery + 1          \* for a check

VARIABLES
  log,                 \* ages of the primary's commits
  received, replayed,  \* positions of the replicas in the log
  pingable,            \* replicas that answer a ping
  outages,
  connHealthy, lag,    \* the fields of replicaConn
  loopAt,              \* replica the health check is at, 0 between checks
  measured,            \* what getReplicationLag returned for it, if it has: the
                       \*   lag, and the age of the measurement (history)
  lifecycle,           \* "open", "canceled" (ctx of NewReplicaPool), "closed"
  writeAge,            \* age of raw.writeTime, ConsistencyWindow for no write
  unmarked,            \* a commit that MarkWrite was not yet called for
  \* history
  marked,              \* the session's last write that MarkWrite was called for
  checkAge             \* age of the measurement of lag, Unsound for none

externVars == <<received, replayed, pingable>>
connVars == <<connHealthy, lag, checkAge>>
sessionVars == <<writeAge, unmarked, marked>>
replicaVars == <<log, received, replayed, pingable, outages, connHealthy, lag,
                 checkAge, writeAge, unmarked, marked, loopAt, measured,
                 lifecycle>>
loopVars == <<loopAt, measured>>

\* NewReplicaPool; replicas that cannot be reached then are not in the pool.
\* The database has a history, of which the last commit is in the log.
ReplicaInit ==
  /\ \E age \in 0..TooOld : log = <<age>>
  /\ received = [r \in Index |-> 1] /\ replayed = [r \in Index |-> 1]
  /\ outages = 0
  /\ pingable = Index
  /\ connHealthy = [r \in Index |-> TRUE] /\ lag = [r \in Index |-> 0]
  /\ checkAge = [r \in Index |-> Unsound]
  /\ loopAt = 0 /\ measured = {} /\ lifecycle = "open"
  /\ writeAge = ConsistencyWindow /\ unmarked = 0 /\ marked = 0

-----------------------------------------------------------------------------
(* Reader                                                                  *)

\* Mutant: replicas beyond the acceptable lag are not left out.
HealthyReplicasAnyLag == {r \in Index : connHealthy[r]}

HealthyReplicas == {r \in Index : connHealthy[r] /\ lag[r] <= MaxReplicaLag}

\* The first of those with the least lag.
LeastLag(rs) ==
  {r \in rs : \A s \in rs : lag[r] < lag[s] \/ (lag[r] = lag[s] /\ r <= s)}

\* The slice has them in the order of the pool: the one at a 0-based index has
\* that many before it.
Balanced(rs, idx) ==
  {r \in rs : Cardinality({s \in rs : s < r}) = idx % Cardinality(rs)}

\* Reader, when rp.counter has come to idx: all sessions of the service advance
\* it, so one of them finds any value.  Each case has exactly one element.
Reader(idx) ==
  LET rs == HealthyReplicas IN
    IF rs = {} THEN {IF FallbackToPrimary \/ Replicas = 0 THEN Primary ELSE 1}
    ELSE IF Strategy = "least-lag" THEN LeastLag(rs)
    ELSE IF Strategy = "random" THEN Balanced(rs, idx * 31)
    ELSE Balanced(rs, idx)

-----------------------------------------------------------------------------
(* The session                                                             *)

\* WithTx on the primary: it commits and returns nil; or it commits and the
\* answer is lost, so that the session sees an error; or Begin, fn or Commit
\* fails, or fn panics, and nothing was written.
WithTx ==
  /\ unmarked = 0
  /\ \/ /\ Len(log) <= MaxWrites /\ log' = Append(log, 0)
        /\ unmarked' = Len(log') \/ unmarked' = 0
     \/ UNCHANGED <<log, unmarked>>
  /\ UNCHANGED <<outages, externVars, connVars, loopVars, lifecycle,
                 writeAge, marked>>

MarkWrite ==
  /\ unmarked # 0
  /\ writeAge' = 0 /\ marked' = unmarked /\ unmarked' = 0
  /\ UNCHANGED <<log, outages, externVars, connVars, loopVars,
                 lifecycle>>

\* time.Since(raw.writeTime) < raw.consistencyWindow
WroteRecently == writeAge < ConsistencyWindow

\* ReadAfterWrite.Reader: the pools that a read of the session may be sent to.
SessionReader ==
  IF WroteRecently THEN {Primary} ELSE UNION {Reader(idx) : idx \in Counters}

-----------------------------------------------------------------------------
(* The health checker                                                      *)

CheckBegins ==
  /\ loopAt = 0 /\ lifecycle # "canceled" /\ Replicas > 0
  /\ loopAt' = 1
  /\ UNCHANGED <<log, outages, externVars, connVars, sessionVars, lifecycle,
                 measured>>

Pings(r) == r \in pingable /\ lifecycle = "open"

\* getReplicationLag
MeasuredLag(r) == IF received[r] = replayed[r] THEN 0 ELSE log[replayed[r]]

\* The replica has every entry that is older than NetDelay.
Streams(r) == \A i \in DOMAIN log : log[i] > NetDelay => i <= received[r]

\* The loop of checkReplicasHealth goes on whatever the result.
NextReplica(r) == IF r < Replicas THEN r + 1 ELSE 0

PingFails ==
  /\ loopAt # 0 /\ measured = {} /\ ~Pings(loopAt)
  /\ connHealthy' = [connHealthy EXCEPT ![loopAt] = FALSE]
  /\ loopAt' = NextReplica(loopAt)
  /\ UNCHANGED <<log, outages, externVars, lag, checkAge, sessionVars, lifecycle,
                 measured>>

\* The lag query answers; or it fails, or its timestamp is NULL, and the largest
\* acceptable lag is assumed.
MeasureLag ==
  /\ loopAt # 0 /\ measured = {} /\ Pings(loopAt)
  /\ \/ /\ measured' = {[lag |-> MeasuredLag(loopAt),
                          age |-> IF Streams(loopAt) THEN 0 ELSE Unsound]}
        /\ UNCHANGED outages
     \/ /\ measured' = {[lag |-> MaxReplicaLag, age |-> Unsound]}
        /\ outages < MaxOutages /\ outages' = outages + 1
  /\ UNCHANGED <<log, externVars, connVars, sessionVars, loopAt, lifecycle>>

StoreLag ==
  /\ \E m \in measured :
       /\ connHealthy' = [connHealthy EXCEPT ![loopAt] = TRUE]
       /\ lag' = [lag EXCEPT ![loopAt] = m.lag]
       /\ checkAge' = [checkAge EXCEPT ![loopAt] = m.age]
  /\ measured' = {} /\ loopAt' = NextReplica(loopAt)
  /\ UNCHANGED <<log, outages, externVars, sessionVars, lifecycle>>

\* The context passed to NewReplicaPool ends, which ends the loop; Close closes
\* the pools and leaves the loop running.
LifecycleEnds ==
  /\ lifecycle = "open" /\ lifecycle' \in {"canceled", "closed"}
  /\ UNCHANGED <<log, outages, externVars, connVars, sessionVars, loopVars>>

-----------------------------------------------------------------------------
(* Postgres and the clock                                                  *)

Replicate(r) ==
  /\ \/ /\ received[r] < Len(log)
        /\ received' = [received EXCEPT ![r] = @ + 1]
        /\ UNCHANGED replayed
     \/ /\ replayed[r] < received[r]
        /\ replayed' = [replayed EXCEPT ![r] = @ + 1]
        /\ UNCHANGED received
  /\ UNCHANGED <<log, outages, pingable, connVars, sessionVars, loopVars,
                 lifecycle>>

Outage(r) ==
  /\ outages < MaxOutages /\ outages' = outages + 1
  /\ r \in pingable /\ pingable' = pingable \ {r}
  /\ UNCHANGED <<log, received, replayed, connVars, sessionVars, loopVars,
                 lifecycle>>

Repair(r) ==
  /\ r \notin pingable /\ pingable' = pingable \cup {r}
  /\ UNCHANGED <<log, outages, received, replayed, connVars, sessionVars,
                 loopVars, lifecycle>>

Older(age, cap) == IF age < cap THEN age + 1 ELSE cap

ReplicaTick ==
  /\ log' = [i \in DOMAIN log |-> Older(log[i], TooOld)]
  /\ writeAge' = Older(writeAge, ConsistencyWindow)
  /\ checkAge' = [r \in Index |-> Older(checkAge[r], Unsound)]
  /\ measured' = {[lag |-> m.lag, age |-> Older(m.age, Unsound)] : m \in measured}
  /\ UNCHANGED <<outages, externVars, connHealthy, lag, unmarked, marked,
                 loopAt, lifecycle>>

ReplicaNext ==
  \/ WithTx \/ MarkWrite
  \/ CheckBegins \/ PingFails \/ MeasureLag \/ StoreLag \/ LifecycleEnds
  \/ \E r \in Index : Replicate(r) \/ Outage(r) \/ Repair(r)
  \/ ReplicaTick

ReplicaSpec == ReplicaInit /\ [][ReplicaNext]_replicaVars

-----------------------------------------------------------------------------
(* Properties                                                              *)

\* A session reads its own writes: whenever ReadAfterWrite.Reader would send it
\* to a replica, that replica has replayed the session's last marked write,
\* provided the pool falls back to the primary and the lag on record for the
\* replica was measured, recently, and while the replica was streaming.
ReadYourWrites ==
  unmarked = 0 /\ FallbackToPrimary =>
    \A r \in SessionReader \ {Primary} :
      checkAge[r] <= CheckEvery => marked <= replayed[r]
-----------------------------------------------------------------------------
(* The inductive invariant behind ReadYourWrites                           *)

Ages == 0..TooOld

ReplicaTypeOK ==
  /\ log \in Seq(Ages) /\ Len(log) \in Nat \ {0}
  /\ received \in [Index -> Nat] /\ replayed \in [Index -> Nat]
  /\ DOMAIN connHealthy = Index /\ lag \in [Index -> 0..TooOld]
  /\ checkAge \in [Index -> 0..Unsound]
  /\ loopAt \in 0..Replicas
  /\ measured \subseteq [lag : 0..TooOld, age : 0..Unsound]
  /\ measured # {} => loopAt # 0
  /\ writeAge \in 0..ConsistencyWindow
  /\ unmarked \in 0..Len(log) /\ marked \in 0..Len(log)

\* The log is in the order of the commits, and a replica replays what it has.
LogOrdered ==
  /\ \A i, j \in DOMAIN log : i < j => log[j] <= log[i]
  /\ \A r \in Index : 1 <= replayed[r] /\ replayed[r] <= received[r]
                      /\ received[r] <= Len(log)

\* MarkWrite comes after the commit.
MarkedLate ==
  marked # 0 => writeAge <= log[marked] \/ log[marked] = TooOld

\* A write that a replica misses was made at most the acceptable lag before the
\* last sound check that found the replica within it.
Accounted(r, l, age) ==
  age <= CheckEvery /\ l <= MaxReplicaLag /\ replayed[r] < marked
    => writeAge <= MaxReplicaLag + age

MissedRecent ==
  /\ \A r \in Index : Accounted(r, lag[r], checkAge[r])
  /\ \A m \in measured : Accounted(loopAt, m.lag, m.age)

ReplicaInv == ReplicaTypeOK /\ LogOrdered /\ MarkedLate /\ MissedRecent
=============================================================================
