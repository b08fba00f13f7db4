---------------------------- MODULE RateLimiter ----------------------------
(***************************************************************************)
(* The sliding-window rate limiter of ratelimit/ratelimit.go behind the    *)
(* HTTP middleware of middleware/ratelimit.go.  A call reads the clock,    *)
(* builds members scored with that reading, and runs one Redis             *)
(* transaction (purge, count, add, expire); a refused call takes its       *)
(* members out again in a second transaction.  Calls run concurrently, so  *)
(* a transaction may execute later than the clock reading it carries, and  *)
(* between another call's transaction and that call's rollback.            *)
(*                                                                         *)
(* One Redis key is modelled: every command names a single full key, so    *)
(* keys do not interact.  Time is in units coarser than the rounding of a  *)
(* nanosecond timestamp to a float64 score (256ns), in which the offsets   *)
(* 0..n-1 that newMembers adds to the scores of a batch vanish.            *)
(*                                                                         *)
(* The callers are goroutines of one process or of several: clock is the   *)
(* fastest of their clocks, and a reading may trail it.  One sequence      *)
(* numbers the batches of them all, because a member also carries the      *)
(* nanosecond of its reading, in which two processes do not meet.          *)
(*                                                                         *)
(* Bounds: MaxTime on the clock, MaxBatches on memberSequence, MaxFaults   *)
(* on what Redis and its other users do to the key.  MaxDelay bounds how   *)
(* long a transaction may trail the fastest clock with the reading it      *)
(* carries.                                                                *)
(***************************************************************************)
EXTENDS Integers, FiniteSets

CONSTANTS
    Calls,       \* concurrent requests, all with the same key
    Sizes,       \* the batch sizes n that callers of AllowN use
    Limit,       \* Config.Limit
    Window,      \* Config.Window
    MaxDelay, MaxTime, MaxBatches, MaxFaults

ASSUME LimiterAssumption ==
    /\ Limit \in Nat \ {0} /\ Window \in Nat \ {0}
    /\ MaxDelay \in Nat /\ MaxDelay < Window
    /\ MaxTime \in Nat /\ MaxBatches \in Nat /\ MaxFaults \in Nat
    /\ Sizes \subseteq Nat \ {0} /\ IsFiniteSet(Sizes)

VARIABLES
    clock,      \* time.Now()
    replica,    \* TRUE while the client is connected to a read-only replica
    kind,       \* type of the value at the key: "none", "zset" or "string"
    zset,       \* the sorted set at the key: its members with their scores
    expires,    \* when the key expires
    sequence,   \* memberSequence
    pc,         \* where each request is
    job,        \* what each request carries between its steps
    faults,     \* environment faults used so far
    granted,    \* history: members of the batches allowed by a count, with
                \*   the time, since the key was last deleted or overwritten
    stray,      \* history: batches left behind by a lost reply or rollback
    wiped       \* history: a recovery deleted a key that was a sorted set

vars == <<clock, replica, kind, zset, expires, sequence, pc, job, faults,
          granted, stray, wiped>>

redis == <<kind, zset, expires>>
history == <<granted, stray, wiped>>

NoExpiry == MaxTime + Window + 1
NoJob == [now |-> 0, batch |-> 0, n |-> 1, tries |-> 0]

Init ==
    /\ clock = 0 /\ replica = FALSE
    /\ kind = "none" /\ zset = {} /\ expires = NoExpiry
    /\ sequence = 0
    /\ pc = [c \in Calls |-> "idle"] /\ job = [c \in Calls |-> NoJob]
    /\ faults = 0
    /\ granted = {} /\ stray = {} /\ wiped = FALSE

-----------------------------------------------------------------------------
(* The sorted set.                                                         *)

\* The process-wide batch number keeps the members of two calls apart when
\* the clock returns the same time to both.
NewMembers(now, batch, n) ==
    {[batch |-> batch, index |-> i, score |-> now] : i \in 0 .. n - 1}

\* ZREMRANGEBYSCORE key 0 windowStart: what is left after the purge.
InWindow(now) == {e \in zset : e.score > now - Window}

\* Mutant: the batch that fills the limit is counted as one request.
AllowedSingle(count, n) == count < Limit

Allowed(count, n) == count + n <= Limit

MembersOf(c) == NewMembers(job[c].now, job[c].batch, job[c].n)

\* A key that holds no member any more does not exist.
Store(entries, ttl) ==
    /\ zset' = entries
    /\ kind' = IF entries = {} THEN "none" ELSE "zset"
    /\ expires' = IF entries = {} THEN NoExpiry ELSE ttl

Forget ==
    /\ zset' = {} /\ granted' = {}

Go(c, where) == pc' = [pc EXCEPT ![c] = where]

-----------------------------------------------------------------------------
(* A request: the middleware asks the limiter, AllowN runs allowN.         *)

\* A reading of the caller's clock.
Readings == {now \in 0 .. clock : clock - now <= MaxDelay}

\* The first lines of allowN: the clock is read and the members are built.
\* The transaction is sent later.
Prepare(c, n, tries) ==
    /\ sequence < MaxBatches
    /\ sequence' = sequence + 1
    /\ \E now \in Readings :
         job' = [job EXCEPT ![c] = [now |-> now, batch |-> sequence + 1,
                                    n |-> n, tries |-> tries]]
    /\ Go(c, "exec")
    /\ UNCHANGED <<clock, replica, redis, faults, history>>

Arrive(c) ==
    /\ pc[c] \in {"idle", "served", "refused"}
    /\ \E n \in Sizes : Prepare(c, n, 1)

Finish(c, where) ==
    /\ Go(c, where)
    /\ job' = [job EXCEPT ![c] = NoJob]

\* The transaction runs on a key of the right type, and its reply arrives.
Count(c) ==
    LET kept == InWindow(job[c].now)
        ok == Allowed(Cardinality(kept), job[c].n)
    IN  /\ pc[c] = "exec" /\ ~replica /\ kind # "string"
        /\ Store(kept \cup MembersOf(c), clock + Window)
        /\ IF ok
           THEN /\ Finish(c, "served")
                /\ granted' = granted \cup
                     {[batch |-> job[c].batch, index |-> i, at |-> clock] :
                        i \in 0 .. job[c].n - 1}
           ELSE /\ Go(c, "rollback")
                /\ UNCHANGED <<job, granted>>
        /\ UNCHANGED <<clock, replica, sequence, faults, stray, wiped>>

\* Mutant: only the first member of the batch is taken out.
RollbackFirst(c) ==
    /\ pc[c] = "rollback" /\ ~replica
    /\ IF kind = "string"
       THEN UNCHANGED redis
       ELSE Store({e \in zset : e.batch # job[c].batch \/ e.index # 0}, expires)
    /\ Finish(c, "refused")
    /\ UNCHANGED <<clock, replica, sequence, faults, history>>

\* The second transaction of a refused call; ZREM of a missing key or member
\* does nothing, and on a key of another type it fails, which is only logged.
Rollback(c) ==
    /\ pc[c] = "rollback" /\ ~replica
    /\ IF kind = "string"
       THEN UNCHANGED redis
       ELSE Store({e \in zset : e.batch # job[c].batch}, expires)
    /\ Finish(c, "refused")
    /\ UNCHANGED <<clock, replica, sequence, faults, history>>

\* The rollback fails: a warning is logged and the members stay.
RollbackFails(c) ==
    /\ pc[c] = "rollback"
    /\ \/ replica /\ faults' = faults
       \/ ~replica /\ faults < MaxFaults /\ faults' = faults + 1
    /\ stray' = stray \cup {job[c].batch}
    /\ Finish(c, "refused")
    /\ UNCHANGED <<clock, replica, redis, sequence, granted, wiped>>

\* A replica answers READONLY, and AllowN fails open.
ReadOnly(c) ==
    /\ pc[c] = "exec" /\ replica
    /\ Finish(c, "served")
    /\ UNCHANGED <<clock, replica, redis, sequence, faults, history>>

\* AllowN deletes the key after a recoverable error of the first try; an
\* error of the second try goes to the middleware, which fails open.
Recover(c) ==
    IF job[c].tries = 1 THEN Go(c, "delete") /\ job' = job
                        ELSE Finish(c, "served")

\* WRONGTYPE: the commands on the sorted set fail, EXPIRE does not.
WrongType(c) ==
    /\ pc[c] = "exec" /\ ~replica /\ kind = "string"
    /\ expires' = clock + Window
    /\ Recover(c)
    /\ UNCHANGED <<clock, replica, kind, zset, sequence, faults, history>>

\* EXECABORT: nothing is executed.  A replica may reject the queued commands
\* this way too.
Abort(c) ==
    /\ pc[c] = "exec"
    /\ \/ replica /\ faults' = faults
       \/ ~replica /\ faults < MaxFaults /\ faults' = faults + 1
    /\ Recover(c)
    /\ UNCHANGED <<clock, replica, redis, sequence, history>>

\* Any other error: AllowN returns it and the middleware fails open.  The
\* transaction may have run before its reply was lost.
ConnectionLost(c) ==
    /\ pc[c] = "exec" /\ faults < MaxFaults
    /\ faults' = faults + 1
    /\ \/ UNCHANGED <<redis, stray>>
       \/ /\ ~replica /\ kind # "string"
          /\ Store(InWindow(job[c].now) \cup MembersOf(c), clock + Window)
          /\ stray' = stray \cup {job[c].batch}
    /\ Finish(c, "served")
    /\ UNCHANGED <<clock, replica, sequence, granted, wiped>>

\* The transaction ran, its reply was lost, and the Redis client sends it again
\* by itself: it will find its own members counted.
Resend(c) ==
    /\ pc[c] = "exec" /\ ~replica /\ kind # "string" /\ faults < MaxFaults
    /\ faults' = faults + 1
    /\ Store(InWindow(job[c].now) \cup MembersOf(c), clock + Window)
    /\ stray' = stray \cup {job[c].batch}
    /\ UNCHANGED <<clock, replica, sequence, pc, job, granted, wiped>>

\* The recovery: DEL whatever is at the key now, then a second try with a
\* new reading of the clock and a new batch.
Delete(c) ==
    /\ pc[c] = "delete" /\ ~replica
    /\ kind' = "none" /\ expires' = NoExpiry /\ Forget
    /\ wiped' = (wiped \/ kind = "zset")
    /\ Go(c, "again")
    /\ UNCHANGED <<clock, replica, sequence, job, faults, stray>>

Again(c) == pc[c] = "again" /\ Prepare(c, job[c].n, 2)

\* DEL fails: on a replica AllowN fails open, otherwise its error reaches the
\* middleware, which fails open.
DeleteFails(c) ==
    /\ pc[c] = "delete"
    /\ \/ replica /\ faults' = faults
       \/ ~replica /\ faults < MaxFaults /\ faults' = faults + 1
    /\ Finish(c, "served")
    /\ UNCHANGED <<clock, replica, redis, sequence, history>>

-----------------------------------------------------------------------------
(* The other operations of a Limiter, and the environment.                 *)

\* GetCount purges the key like allowN; its clock reading may be as old.
GetCount ==
    /\ ~replica /\ kind = "zset"
    /\ \E now \in Readings :
         /\ InWindow(now) # zset
         /\ Store(InWindow(now), expires)
    /\ UNCHANGED <<clock, replica, sequence, pc, job, faults, history>>

Reset ==
    /\ ~replica /\ kind # "none" /\ faults < MaxFaults
    /\ faults' = faults + 1
    /\ kind' = "none" /\ expires' = NoExpiry /\ Forget
    /\ UNCHANGED <<clock, replica, sequence, pc, job, stray, wiped>>

\* Another service, or old code, stores a string at the key.
Overwrite ==
    /\ kind # "string" /\ faults < MaxFaults
    /\ faults' = faults + 1
    /\ kind' = "string" /\ expires' = NoExpiry /\ Forget
    /\ UNCHANGED <<clock, replica, sequence, pc, job, stray, wiped>>

\* The client is moved to a replica, and back to a primary.
Failover ==
    /\ \/ replica /\ faults' = faults
       \/ ~replica /\ faults < MaxFaults /\ faults' = faults + 1
    /\ replica' = ~replica
    /\ UNCHANGED <<clock, redis, sequence, pc, job, history>>

\* Redis drops the key when its time has come.
Tick ==
    /\ clock < MaxTime
    /\ \A c \in Calls : pc[c] = "exec" => clock - job[c].now < MaxDelay
    /\ clock' = clock + 1
    /\ IF expires = clock + 1
       THEN kind' = "none" /\ zset' = {} /\ expires' = NoExpiry
       ELSE UNCHANGED redis
    /\ UNCHANGED <<replica, sequence, pc, job, faults, history>>

Request(c) ==
    \/ Arrive(c) \/ Count(c) \/ Rollback(c) \/ RollbackFails(c)
    \/ ReadOnly(c) \/ WrongType(c) \/ Abort(c) \/ ConnectionLost(c) \/ Resend(c)
    \/ Delete(c) \/ Again(c) \/ DeleteFails(c)

Next ==
    \/ \E c \in Calls : Request(c)
    \/ GetCount \/ Reset \/ Overwrite \/ Failover \/ Tick

Spec == Init /\ [][Next]_vars

-----------------------------------------------------------------------------
(* Properties.                                                             *)

\* The requests granted in the Window - MaxDelay up to a time.
GrantedUpTo(t) == {g \in granted : t - (Window - MaxDelay) < g.at /\ g.at <= t}

\* The limiter does what Allow promises ("checks if a request is allowed
\* under the rate limit"): whatever the interleaving of the transactions,
\* the rollbacks and the purges of other calls, no stretch of time as long
\* as the window, less the delay of a transaction, sees more than Limit
\* requests granted (since the key was last deleted or overwritten).
WindowBound == \A t \in 0 .. clock : Cardinality(GrantedUpTo(t)) <= Limit

\* A refused call leaves no trace ("Remove the requests we just added since
\* they're not allowed"): every member in Redis belongs to a granted batch,
\* to a call that still has to roll back, or to a batch whose rollback or
\* reply was lost.  A leftover would be counted against later requests.
RefusedLeaveNoTrace ==
    \A e \in zset :
        \/ \E g \in granted : g.batch = e.batch /\ g.index = e.index
        \/ \E c \in Calls : pc[c] = "rollback" /\ job[c].batch = e.batch
        \/ e.batch \in stray

\* The recovery deletes only a key "with wrong type" (the comment and the log
\* line of AllowN), never the sorted set that counts the granted requests.
DeletedKeyHadWrongType == ~wiped

-----------------------------------------------------------------------------
(* The inductive invariant                                                 *)

\* The types of the key's contents, of the requests and of the history.
LimiterTypeOK ==
    /\ clock \in 0 .. MaxTime /\ sequence \in Nat /\ expires \in Nat
    /\ kind \in {"none", "zset", "string"}
    /\ zset \subseteq [batch : Nat, index : Nat, score : Nat]
    /\ granted \subseteq [batch : Nat, index : Nat, at : 0 .. clock]
    /\ IsFiniteSet(zset) /\ IsFiniteSet(granted)
    /\ pc \in [Calls -> {"idle", "exec", "rollback", "delete", "again",
                         "served", "refused"}]
    /\ job \in [Calls -> [now : Nat, batch : Nat, n : Nat \ {0}, tries : Nat]]

\* Nothing is granted, and no member counted, at a key of another type.
StringHoldsNothing == kind = "string" => zset = {} /\ granted = {}

\* The reading of the clock that a transaction carries is recent.
FreshReadings ==
    \A c \in Calls :
        pc[c] = "exec" => job[c].now <= clock /\ clock - job[c].now <= MaxDelay

HasBatch(c) == pc[c] \in {"exec", "rollback"}

\* memberSequence keeps batches apart: those under way from one another and
\* from the granted ones, and no member was granted at two times.
BatchesApart ==
    /\ \A c \in Calls : HasBatch(c) => job[c].batch <= sequence
    /\ \A c, d \in Calls :
         HasBatch(c) /\ HasBatch(d) /\ job[c].batch = job[d].batch => c = d
    /\ \A g \in granted :
         /\ g.batch <= sequence
         /\ \A c \in Calls : HasBatch(c) => job[c].batch # g.batch
         /\ \A h \in granted : g.batch = h.batch /\ g.index = h.index => g = h

\* What was granted in the window is still counted: no purge, expiry or rollback
\* takes the member out while its time is inside the window.
GrantedCounted ==
    \A g \in granted :
        /\ g.at + Window <= expires
        /\ clock - (Window - MaxDelay) < g.at =>
             \E e \in zset : /\ e.batch = g.batch /\ e.index = g.index
                             /\ g.at - MaxDelay <= e.score

LimiterInv ==
    /\ LimiterTypeOK /\ StringHoldsNothing /\ FreshReadings /\ BatchesApart
    /\ GrantedCounted /\ RefusedLeaveNoTrace /\ WindowBound

=============================================================================
