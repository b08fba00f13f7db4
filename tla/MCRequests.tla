----------------------------- MODULE MCRequests -----------------------------
(***************************************************************************)
(* Model checking of what a request meets: sessions and interceptors,      *)
(* service tokens, the webhook guards, the rate limiter and the keys of    *)
(* its limits, the replica it reads from, the lock it takes and the        *)
(* producer it publishes with.  They share no state; a behaviour is one of *)
(* one of them, the part chosen at the start, while the others rest.       *)
(***************************************************************************)
EXTENDS RateLimiter, RateLimitKeys, Sessions, ServiceToken, Webhook,
        ReplicaPool, RedisLock, Producer, TLC

CONSTANT k1

MCPartitionOf == k1 :> 1

\* The callers of the rate limiter are interchangeable.
CallSymmetry == Permutations(Calls)

VARIABLE part

requestVars ==
  <<part, vars, authVars, tokenVars, hookVars, limitVars, replicaVars,
    lockVars, producerVars>>

\* The parts that rest start in one fixed state.
RequestsInit ==
  /\ part \in {"sessions", "token", "hook", "limiter", "limit", "replicas",
              "lock", "producer"}
  /\ part # "sessions" => admin = {} /\ member = [u \in Users |-> {}]
  /\ part # "hook" => hook = CHOOSE r \in HookRequests : TRUE
  /\ part # "limit" => stack = "gin"
  /\ part # "replicas" => log = <<0>>
  /\ Init /\ SessionsInit /\ TokenInit /\ HookInit /\ LimitInit
  /\ ReplicaInit /\ LockInit /\ ProducerInit
  /\ part # "producer" => ~requireKey

RequestsNext ==
  \/ /\ part = "sessions" /\ SessionsNext
     /\ UNCHANGED <<part, vars, tokenVars, hookVars, limitVars, replicaVars,
                    lockVars, producerVars>>
  \/ /\ part = "token" /\ TokenNext
     /\ UNCHANGED <<part, vars, authVars, hookVars, limitVars, replicaVars,
                    lockVars, producerVars>>
  \/ /\ part = "hook" /\ HookNext
     /\ UNCHANGED <<part, vars, authVars, tokenVars, limitVars, replicaVars,
                    lockVars, producerVars>>
  \/ /\ part = "limiter" /\ Next
     /\ UNCHANGED <<part, authVars, tokenVars, hookVars, limitVars, replicaVars,
                    lockVars, producerVars>>
  \/ /\ part = "limit" /\ LimitNext
     /\ UNCHANGED <<part, vars, authVars, tokenVars, hookVars, replicaVars,
                    lockVars, producerVars>>
  \/ /\ part = "replicas" /\ ReplicaNext
     /\ UNCHANGED <<part, vars, authVars, tokenVars, hookVars, limitVars,
                    lockVars, producerVars>>
  \/ /\ part = "lock" /\ LockNext
     /\ UNCHANGED <<part, vars, authVars, tokenVars, hookVars, limitVars,
                    replicaVars, producerVars>>
  \/ /\ part = "producer" /\ ProducerNext
     /\ UNCHANGED <<part, vars, authVars, tokenVars, hookVars, limitVars,
                    replicaVars, lockVars>>

RequestsSpec == RequestsInit /\ [][RequestsNext]_requestVars
=============================================================================
