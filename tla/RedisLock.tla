----------------------------- MODULE RedisLock ------------------------------
(***************************************************************************)
(* The distributed lock of redis.Client: Lock is one SETNX with an         *)
(* expiration, Unlock a script that deletes the key only while it holds    *)
(* the caller's value.  A command and its reply are separate steps: either *)
(* can be lost, and the Redis client resends a command that got no reply   *)
(* or gives it up.  A command resent or given up may still be on its way   *)
(* and reach the server long after.                                        *)
(*                                                                         *)
(* The value a caller locks with is its own, and it stands for the caller  *)
(* here.  It is not used for Lock again after an Unlock with it: a late    *)
(* Unlock would delete the key of the second lease.                        *)
(***************************************************************************)
EXTENDS Integers

CONSTANTS
  Lockers,      \* callers of Lock and Unlock, by their values
  Nobody,       \* the key does not exist
  Expiration,   \* the expiration passed to Lock, in ticks
  MaxLockFaults \* bound: lost and late commands, lost replies, and crashes

ASSUME LockAssumption ==
  /\ Nobody \notin Lockers
  /\ Expiration \in Nat \ {0}
  /\ MaxLockFaults \in Nat

VARIABLES
  keyValue,     \* the value stored under the lock's key
  keyTTL,       \* ticks until the key expires
  lockPc,       \* where each caller is
  late,         \* commands on their way that nobody waits for
  lockFaults,   \* losses and crashes so far
  \* history
  lease         \* ticks left of the lease each caller was granted

keyVars == <<keyValue, keyTTL>>
lockVars == <<keyValue, keyTTL, lockPc, late, lockFaults, lease>>

LockInit ==
  /\ keyValue = Nobody /\ keyTTL = 0
  /\ lockPc = [c \in Lockers |-> "idle"]
  /\ late = {} /\ lockFaults = 0
  /\ lease = [c \in Lockers |-> 0]

LockGoto(c, from, to) == lockPc[c] = from /\ lockPc' = [lockPc EXCEPT ![c] = to]

-----------------------------------------------------------------------------
(* The commands at the server                                              *)

\* SETNX key value with the expiration.
SetNX(c) ==
  IF keyValue = Nobody THEN keyValue' = c /\ keyTTL' = Expiration
                       ELSE UNCHANGED keyVars

\* Mutant: DEL without comparing the value.
DeletesAny(c) == keyValue # Nobody

\* The script's condition.
DeletesOwn(c) == keyValue = c

Script(c) ==
  IF DeletesOwn(c) THEN keyValue' = Nobody /\ keyTTL' = 0
                   ELSE UNCHANGED keyVars

-----------------------------------------------------------------------------
(* Lock                                                                    *)

LockCall(c) ==
  /\ LockGoto(c, "idle", "locking")
  /\ UNCHANGED <<keyVars, late, lockFaults, lease>>

LockCommand(c) ==
  /\ \/ /\ keyValue = Nobody /\ LockGoto(c, "locking", "granted")
        /\ lease' = [lease EXCEPT ![c] = Expiration]
     \/ /\ keyValue # Nobody /\ LockGoto(c, "locking", "refused")
        /\ UNCHANGED lease
  /\ SetNX(c)
  /\ UNCHANGED <<late, lockFaults>>

\* Lock returns true or false.
LockReturn(c) ==
  /\ LockGoto(c, "granted", "held") \/ LockGoto(c, "refused", "idle")
  /\ UNCHANGED <<keyVars, late, lockFaults, lease>>

-----------------------------------------------------------------------------
(* Unlock                                                                  *)

\* The caller gives its lease up.  It may also unlock what it does not hold,
\* e.g. after an error of Lock, and again after an error of Unlock.
UnlockCall(c) ==
  /\ \E l \in {"held", "idle", "done"} : LockGoto(c, l, "unlocking")
  /\ lease' = [lease EXCEPT ![c] = 0]
  /\ UNCHANGED <<keyVars, late, lockFaults>>

UnlockCommand(c) ==
  /\ LockGoto(c, "unlocking", "unlocked")
  /\ Script(c)
  /\ UNCHANGED <<late, lockFaults, lease>>

UnlockReturn(c) ==
  /\ LockGoto(c, "unlocked", "done")
  /\ UNCHANGED <<keyVars, late, lockFaults, lease>>

-----------------------------------------------------------------------------
(* Redis, the network and the clock                                        *)

\* The command a caller waits for.
Sent(c) ==
  IF lockPc[c] \in {"locking", "unlocking"} THEN {<<lockPc[c], c>>} ELSE {}

Fault == lockFaults < MaxLockFaults /\ lockFaults' = lockFaults + 1

\* No reply comes in time, because the command or the reply is lost or late.
\* The client sends the command again.
CommandResent(c) ==
  /\ Fault
  /\ \/ \E l \in {"granted", "refused"} : LockGoto(c, l, "locking")
     \/ LockGoto(c, "unlocked", "unlocking")
     \/ lockPc[c] \in {"locking", "unlocking"} /\ UNCHANGED lockPc
  /\ late' = late \cup Sent(c)
  /\ UNCHANGED <<keyVars, lease>>

\* Or it gives up and the call returns an error.
CommandGivenUp(c) ==
  /\ Fault
  /\ \/ \E l \in {"locking", "granted", "refused"} : LockGoto(c, l, "idle")
     \/ \E l \in {"unlocking", "unlocked"} : LockGoto(c, l, "done")
  /\ late' \in {late, late \cup Sent(c)}
  /\ UNCHANGED <<keyVars, lease>>

\* The caller's process dies and leaves the key behind.
LockCrash(c) ==
  /\ Fault
  /\ \E l \in {"locking", "granted", "held", "unlocking", "unlocked"} :
       LockGoto(c, l, "crashed")
  /\ late' \in {late, late \cup Sent(c)}
  /\ UNCHANGED <<keyVars, lease>>

\* A command that nobody waits for reaches the server.
LateCommand(m) ==
  /\ late' = late \ {m}
  /\ IF m[1] = "locking" THEN SetNX(m[2]) ELSE Script(m[2])
  /\ UNCHANGED <<lockPc, lockFaults, lease>>

LockTick ==
  /\ keyTTL > 0
  /\ keyTTL' = keyTTL - 1
  /\ keyValue' = IF keyTTL = 1 THEN Nobody ELSE keyValue
  /\ lease' = [c \in Lockers |-> IF lease[c] > 0 THEN lease[c] - 1 ELSE 0]
  /\ UNCHANGED <<lockPc, late, lockFaults>>

LockNext ==
  \/ \E c \in Lockers :
       \/ LockCall(c) \/ LockCommand(c) \/ LockReturn(c)
       \/ UnlockCall(c) \/ UnlockCommand(c) \/ UnlockReturn(c)
       \/ CommandResent(c) \/ CommandGivenUp(c) \/ LockCrash(c)
  \/ \E m \in late : LateCommand(m)
  \/ LockTick

LockSpec == LockInit /\ [][LockNext]_lockVars

-----------------------------------------------------------------------------
(* Properties                                                              *)

\* A key that exists has a time to live of at most Expiration, and a lease is
\* never longer.
LockTypeOK ==
  /\ keyValue \in Lockers \cup {Nobody}
  /\ keyTTL \in 0..Expiration /\ (keyTTL = 0 <=> keyValue = Nobody)
  /\ lockPc \in [Lockers -> {"idle", "locking", "granted", "refused", "held",
                             "unlocking", "unlocked", "done", "crashed"}]
  /\ late \subseteq {"locking", "unlocking"} \X Lockers
  /\ lockFaults \in 0..MaxLockFaults
  /\ lease \in [Lockers -> 0..Expiration]

\* Two callers never both have time left on a lease that Lock granted and that
\* they have not given up with Unlock, whatever was lost, resent or late.
LeaseExclusive ==
  \A c, d \in Lockers : lease[c] > 0 /\ lease[d] > 0 => c = d

\* A lease is backed by the key: it ends no later than the key does.
LeaseBacked ==
  \A c \in Lockers : lease[c] > 0 => keyValue = c /\ lease[c] <= keyTTL

\* Whoever has an Unlock on its way has no lease and will get none.
UnlocksLast ==
  \A c \in Lockers :
    /\ lockPc[c] \in {"unlocking", "unlocked", "done"} => lease[c] = 0
    /\ <<"unlocking", c>> \in late =>
         lease[c] = 0 /\ lockPc[c] \in {"unlocking", "unlocked", "done", "crashed"}

\* The inductive invariant: it implies LeaseExclusive.
LockIInv == LockTypeOK /\ LeaseBacked /\ UnlocksLast

=============================================================================
