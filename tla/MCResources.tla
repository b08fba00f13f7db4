---------------------------- MODULE MCResources -----------------------------
(***************************************************************************)
(* The components of a service that share no state with each other: the    *)
(* circuit breaker, the MultiConsumer, the health endpoint and the CSRF    *)
(* middleware.  One of them, fixed in the initial state, takes all the     *)
(* steps of a behaviour, so the state space is the sum of theirs and every *)
(* behaviour of each of them is in it.                                     *)
(***************************************************************************)
EXTENDS CircuitBreaker, MultiConsumer, MCHealth, CSRF

VARIABLE part

resourceVars == <<part, vars, multiVars, healthVars, csrfVars>>

ResourcesInit ==
  /\ part \in {"breaker", "multi", "health", "csrf"}
  /\ Init /\ MultiInit /\ HealthInit /\ CSRFInit

ResourcesNext ==
  \/ /\ part = "breaker" /\ Next
     /\ UNCHANGED <<part, multiVars, healthVars, csrfVars>>
  \/ /\ part = "multi" /\ MultiNext
     /\ UNCHANGED <<part, vars, healthVars, csrfVars>>
  \/ /\ part = "health" /\ HealthNext
     /\ UNCHANGED <<part, vars, multiVars, csrfVars>>
  \/ /\ part = "csrf" /\ CSRFNext
     /\ UNCHANGED <<part, vars, multiVars, healthVars>>

\* The fairness of the component at work.
BreakerFair ==
  /\ \A c \in Callers : /\ WF_vars(part = "breaker" /\ Start(c))
                        /\ WF_vars(part = "breaker" /\ Finish(c))
  /\ WF_vars(part = "breaker" /\ TimeoutElapses)

\* Consume returns when its context has ended, and goroutines are scheduled.
MultiFair ==
  /\ \A i \in 1..Consumers :
       WF_multiVars(part = "multi" /\ (ConsumeReturns(i) \/ SendResult(i)))
  /\ WF_multiVars(part = "multi" /\ ConsumeAllReturns)

\* Checkers return (all but CustomChecker have a timeout), and a waiter for
\* h.mu gets it.
HealthFair ==
  /\ \A p \in Probes :
       WF_healthVars(part = "health" /\ (ProbeBegins(p) \/ RunChecker(p)
                                         \/ CheckEnds(p)))
  /\ WF_healthVars(part = "health" /\ RegisterChecker)

\* A request is served, its response arrives, and a refused write is retried.
CSRFFair ==
  \A t \in Tabs :
    WF_csrfVars(part = "csrf" /\ (\/ Write(t) \/ Reload(t) \/ Loaded(t)
                                  \/ ServeExempt(t) \/ ServeRead(t)
                                  \/ ServeWrite(t)))

ResourcesSpec ==
  /\ ResourcesInit /\ [][ResourcesNext]_resourceVars
  /\ BreakerFair /\ MultiFair /\ HealthFair /\ CSRFFair

=============================================================================
