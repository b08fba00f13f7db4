-------------------------- MODULE GrpcClientProofs --------------------------
(* Proofs about the gRPC client: GrpcClient for any number of callers, any  *)
(* methods and any limits, and RetryDelay for any width.                    *)
EXTENDS GrpcClient, RetryDelay, TLAPS

\* Only a method configured as retryable is retried, MaxRetries times at most.
LEMMA RetriesGranted ==
  ASSUME NEW m
  PROVE  /\ EffectiveRetries(m) \in Nat
         /\ EffectiveRetries(m) > 0 => MethodAllowsRetry(m)
                                       /\ EffectiveRetries(m) = MaxRetries
BY ClientAssumption DEF EffectiveRetries

\* The initial state satisfies the invariant.
LEMMA InitInv == Init => IInv
<1> SUFFICES ASSUME Init PROVE IInv
  BY Zenon
<1>1. ClientTypeOK
  <2>1. resendable \in [Callers -> BOOLEAN]
    BY Zenon DEF Init
  <2> QED
    BY <2>1, ClientAssumption DEF Init, CB!Init, ClientTypeOK
<1>2. RunningInLoop /\ Registered
  BY Zenon DEF Init, CB!Init, RunningInLoop, Registered, InLoop
<1>3. ResendsPaid
  <2> SUFFICES ASSUME NEW c \in Callers
               PROVE  /\ retries[c] <= EffectiveRetries(method[c])
                      /\ sent[c] <= retries[c] + 1
                      /\ pc[c] = "idle"
    BY Zenon DEF ResendsPaid
  <2> QED
    BY RetriesGranted DEF Init
<1>4. FailuresCounted
  BY ClientAssumption DEF Init, CB!Init, FailuresCounted
<1> QED
  BY <1>1, <1>2, <1>3, <1>4, Zenon DEF IInv

\* A step that leaves the counters alone and puts no call into the transport
\* keeps the requests paid for.
LEMMA ResendsKept ==
  ASSUME ResendsPaid, UNCHANGED <<method, retries, sent, resendable>>,
         \A d \in Callers : \/ pc'[d] = pc[d] \/ pc'[d] = "idle"
                            \/ /\ pc[d] \notin {"idle", "inflight"}
                               /\ pc'[d] # "inflight"
  PROVE  ResendsPaid'
<1> SUFFICES ASSUME NEW d \in Callers
             PROVE  /\ retries'[d] <= EffectiveRetries(method'[d])
                    /\ sent'[d] <= retries'[d] + 1
                    /\ pc'[d] \notin {"idle", "inflight"}
                         => sent'[d] <= retries'[d]
                    /\ pc'[d] # "idle" => resendable'[d]
  BY Zenon DEF ResendsPaid, EffectiveRetries, MethodAllowsRetry
<1> QED
  BY Zenon DEF ResendsPaid

\* A call begins: its counters are reset.
LEMMA CallInv == ASSUME NEW c \in Callers, IInv, Call(c) PROVE IInv'
<1> USE DEF IInv, Call, Goto, breakerVars, probeVars
<1>1. ClientTypeOK'
  <2>1. resendable' \in [Callers -> BOOLEAN]
    BY Zenon DEF ClientTypeOK
  <2> QED
    BY <2>1 DEF ClientTypeOK
<1>2. RunningInLoop' /\ Registered'
  BY Zenon DEF ClientTypeOK, RunningInLoop, Registered, InLoop
<1>3. ResendsPaid'
  <2> SUFFICES ASSUME NEW d \in Callers
               PROVE  /\ retries'[d] <= EffectiveRetries(method'[d])
                      /\ sent'[d] <= retries'[d] + 1
                      /\ pc'[d] \notin {"idle", "inflight"}
                           => sent'[d] <= retries'[d]
                      /\ pc'[d] # "idle" => resendable'[d]
    BY Zenon DEF ResendsPaid, EffectiveRetries, MethodAllowsRetry
  <2>1. CASE d = c
    BY <2>1, RetriesGranted DEF ClientTypeOK
  <2>2. CASE d # c
    BY <2>2, Zenon DEF ClientTypeOK, ResendsPaid
  <2> QED
    BY <2>1, <2>2, Zenon
<1>4. FailuresCounted'
  BY Zenon DEF FailuresCounted
<1> QED
  BY <1>1, <1>2, <1>3, <1>4, Zenon

\* The registry is looked up, and the breaker made if there is none.
LEMMA RegistryInv ==
  ASSUME NEW c \in Callers, IInv, Lookup(c) \/ Create(c) PROVE IInv'
<1> USE DEF IInv, Lookup, Create, Goto, breakerVars, probeVars
<1>1. ClientTypeOK'
  BY DEF ClientTypeOK
<1>2. RunningInLoop'
  BY Zenon DEF ClientTypeOK, RunningInLoop, InLoop
<1>3. Registered'
  BY DEF ClientTypeOK, Registered, InLoop
<1>4. ResendsPaid'
  BY ResendsKept, Zenon DEF ClientTypeOK
<1>5. FailuresCounted'
  BY Zenon DEF FailuresCounted
<1> QED
  BY <1>1, <1>2, <1>3, <1>4, <1>5, Zenon

\* The breaker admits a call or turns it away.
LEMMA AdmissionInv ==
  ASSUME NEW c \in Callers, IInv, Admitted(c) \/ TurnedAway(c) PROVE IInv'
<1> USE DEF IInv, Goto, breakerVars, probeVars, callVars
<1>1. CASE TurnedAway(c)
  <2>1. ClientTypeOK' /\ RunningInLoop' /\ Registered'
    BY <1>1, Zenon DEF TurnedAway, ClientTypeOK, RunningInLoop, Registered, InLoop
  <2>2. ResendsPaid' /\ FailuresCounted'
    BY <1>1, ResendsKept, Zenon DEF TurnedAway, ClientTypeOK, FailuresCounted
  <2> QED
    BY <2>1, <2>2, Zenon
<1>2. CASE Admitted(c)
  <2>1. /\ state' \in {"closed", "open", "halfopen"} /\ failures' = failures
        /\ state' = "closed" <=> state = "closed"
    BY <1>2, Zenon DEF Admitted, ClientTypeOK, CB!BeforeRequest, CB!ToHalfOpen,
                CB!cbVars
  <2>2. /\ running' = running \cup {c} /\ pc[c] = "before"
        /\ pc' = [pc EXCEPT ![c] = "attempt"]
        /\ UNCHANGED <<registry, created, method, handle, deadline, retries,
                       sent, resendable, ctx, failedCalls>>
    BY <1>2, Zenon DEF Admitted
  <2>3. ClientTypeOK' /\ RunningInLoop' /\ Registered'
    BY <2>1, <2>2, Zenon DEF ClientTypeOK, RunningInLoop, Registered, InLoop
  <2>4. ResendsPaid' /\ FailuresCounted'
    BY <2>1, <2>2, ResendsKept, Zenon DEF ClientTypeOK, FailuresCounted
  <2> QED
    BY <2>3, <2>4, Zenon
<1> QED
  BY <1>1, <1>2, Zenon

\* The request goes out unless the context has ended.
LEMMA AttemptInv == ASSUME NEW c \in Callers, IInv, Attempt(c) PROVE IInv'
<1> USE DEF IInv, Attempt, Goto, breakerVars, probeVars
<1>1. ClientTypeOK'
  BY DEF ClientTypeOK
<1>2. RunningInLoop' /\ Registered' /\ FailuresCounted'
  BY Zenon DEF ClientTypeOK, RunningInLoop, Registered, InLoop, FailuresCounted
<1>3. ResendsPaid'
  <2> SUFFICES ASSUME NEW d \in Callers
               PROVE  /\ retries'[d] <= EffectiveRetries(method'[d])
                      /\ sent'[d] <= retries'[d] + 1
                      /\ pc'[d] \notin {"idle", "inflight"}
                           => sent'[d] <= retries'[d]
                      /\ pc'[d] # "idle" => resendable'[d]
    BY Zenon DEF ResendsPaid, EffectiveRetries, MethodAllowsRetry
  <2>1. /\ retries[d] <= EffectiveRetries(method[d])
        /\ pc[d] # "idle" => resendable[d]
    BY Zenon DEF ResendsPaid
  <2>2. CASE d = c
    <3>1. sent[c] <= retries[c] /\ sent'[c] \in {sent[c], sent[c] + 1}
      BY DEF ClientTypeOK, ResendsPaid
    <3> QED
      BY <2>1, <2>2, <3>1 DEF ClientTypeOK
  <2>3. CASE d # c
    BY <2>1, <2>3, Zenon DEF ClientTypeOK, ResendsPaid
  <2> QED
    BY <2>2, <2>3, Zenon
<1> QED
  BY <1>1, <1>2, <1>3, Zenon

\* afterRequest is told of a failure only for a fault of the service, so the
\* failures on record stay failed calls, whichever state the breaker is in.
LEMMA ReportCounted ==
  ASSUME NEW c \in Callers, NEW code, ClientTypeOK, FailuresCounted,
         Report(c, code)
  PROVE  /\ FailuresCounted' /\ state' \in {"closed", "open", "halfopen"}
         /\ failures' \in Nat /\ failedCalls' \in 0..MaxFailures
<1> USE ClientAssumption DEF ClientTypeOK, FailuresCounted
<1>1. /\ CB!AfterRequest(IsBreakerFailure(code))
      /\ failedCalls' = IF ServiceFault(code) /\ failedCalls < MaxFailures
                        THEN failedCalls + 1 ELSE failedCalls
  BY Zenon DEF Report
<1>2. CASE IsBreakerFailure(code)
  <2>1. ServiceFault(code)
    BY <1>2, Zenon DEF IsBreakerFailure, ServiceFault
  <2>2. CB!OnFailure
    BY <1>1, <1>2, Zenon DEF CB!AfterRequest
  <2>3. \/ /\ state = "closed" /\ failures' = failures + 1
           /\ state' = IF failures + 1 >= MaxFailures THEN "open" ELSE "closed"
        \/ state \in {"open", "halfopen"} /\ state' = "open"
           /\ failures' = failures
    BY <2>2, Zenon DEF CB!OnFailure, CB!ToOpen, CB!cbVars
  <2> QED
    BY <1>1, <2>1, <2>3
<1>3. CASE ~IsBreakerFailure(code)
  <2>1. CB!OnSuccess
    BY <1>1, <1>3, Zenon DEF CB!AfterRequest
  <2>2. \/ state = "closed" /\ state' = "closed" /\ failures' = 0
        \/ state = "halfopen" /\ state' = "closed" /\ failures' = 0
        \/ state # "closed" /\ state' = state /\ failures' = failures
    BY <2>1, Zenon DEF CB!OnSuccess, CB!ToClosed, CB!cbVars
  <2> QED
    BY <1>1, <2>2
<1> QED
  BY <1>2, <1>3, Zenon

\* A call that ends with its counters unchanged keeps the invariant.
LEMMA ReportInv ==
  ASSUME NEW c \in Callers, NEW code, IInv, Report(c, code), UNCHANGED retries,
         resendable' \in [Callers -> BOOLEAN],
         \A d \in Callers \ {c} : resendable'[d] = resendable[d]
  PROVE  IInv'
<1> USE DEF IInv
<1>1. /\ pc' = [pc EXCEPT ![c] = "idle"] /\ running' = running \ {c}
      /\ UNCHANGED <<registry, created, method, handle, ctx, retries, sent>>
  BY Zenon DEF Report, Goto
<1>2. /\ FailuresCounted' /\ state' \in {"closed", "open", "halfopen"}
      /\ failures' \in Nat /\ failedCalls' \in 0..MaxFailures
  BY ReportCounted, Zenon
<1>3. ClientTypeOK'
  BY <1>1, <1>2, Zenon DEF ClientTypeOK
<1>4. RunningInLoop' /\ Registered'
  BY <1>1, Zenon DEF ClientTypeOK, RunningInLoop, Registered, InLoop
<1>5. ResendsPaid'
  <2> SUFFICES ASSUME NEW d \in Callers
               PROVE  /\ retries'[d] <= EffectiveRetries(method'[d])
                      /\ sent'[d] <= retries'[d] + 1
                      /\ pc'[d] \notin {"idle", "inflight"}
                           => sent'[d] <= retries'[d]
                      /\ pc'[d] # "idle" => resendable'[d]
    BY Zenon DEF ResendsPaid, EffectiveRetries, MethodAllowsRetry
  <2>1. CASE d = c
    BY <1>1, <2>1, Zenon DEF ClientTypeOK, ResendsPaid
  <2>2. CASE d # c
    BY <1>1, <2>2, Zenon DEF ClientTypeOK, ResendsPaid
  <2> QED
    BY <2>1, <2>2, Zenon
<1> QED
  BY <1>2, <1>3, <1>4, <1>5, Zenon

\* The transport answers: only Unavailable, and only while retries are left,
\* keeps the call in the loop.
LEMMA AnswerInv ==
  ASSUME NEW c \in Callers, NEW code, IInv, Answer(c, code) PROVE IInv'
<1> USE DEF IInv
<1>1. /\ pc[c] = "inflight"
      /\ resendable' =
           [resendable EXCEPT ![c] = resendable[c] /\ code = "Unavailable"]
  BY Zenon DEF Answer
<1>2. resendable' \in [Callers -> BOOLEAN]
  BY <1>1, Zenon DEF ClientTypeOK
<1>3. \A d \in Callers \ {c} : resendable'[d] = resendable[d]
  BY <1>1, Zenon DEF ClientTypeOK
<1>4. CASE Report(c, code) /\ UNCHANGED retries
  BY <1>2, <1>3, <1>4, ReportInv, Zenon
<1>5. CASE /\ IsRetryable(code) /\ retries[c] < EffectiveRetries(method[c])
           /\ Goto(c, "wait")
           /\ retries' = [retries EXCEPT ![c] = @ + 1]
           /\ UNCHANGED <<breakerVars, probeVars, registry, created, method,
                          handle, deadline, ctx, sent, failedCalls>>
  <2> USE DEF Goto, breakerVars, probeVars
  <2>1. ClientTypeOK'
    BY <1>2, <1>5 DEF ClientTypeOK
  <2>2. RunningInLoop' /\ Registered' /\ FailuresCounted'
    BY <1>1, <1>5, Zenon DEF ClientTypeOK, RunningInLoop, Registered, InLoop,
                      FailuresCounted
  <2>3. ResendsPaid'
    <3> SUFFICES ASSUME NEW d \in Callers
                 PROVE  /\ retries'[d] <= EffectiveRetries(method'[d])
                        /\ sent'[d] <= retries'[d] + 1
                        /\ pc'[d] \notin {"idle", "inflight"}
                             => sent'[d] <= retries'[d]
                        /\ pc'[d] # "idle" => resendable'[d]
      BY Zenon DEF ResendsPaid, EffectiveRetries, MethodAllowsRetry
    <3>1. CASE d = c
      <4>1. resendable'[c]
        BY <1>1, <1>5, Zenon DEF ClientTypeOK, ResendsPaid, IsRetryable
      <4>2. /\ retries'[c] = retries[c] + 1 /\ sent'[c] = sent[c]
            /\ sent[c] <= retries[c] + 1 /\ method' = method
            /\ retries[c] < EffectiveRetries(method[c])
        BY <1>5, Zenon DEF ClientTypeOK, ResendsPaid
      <4> QED
        BY <3>1, <4>1, <4>2, RetriesGranted DEF ClientTypeOK
    <3>2. CASE d # c
      BY <1>3, <1>5, <3>2, Zenon DEF ClientTypeOK, ResendsPaid
    <3> QED
      BY <3>1, <3>2, Zenon
  <2> QED
    BY <2>1, <2>2, <2>3, Zenon
<1> QED
  BY <1>4, <1>5, Zenon DEF Answer

\* A wait ends: with another attempt, or because the context did.
LEMMA WaitInv ==
  ASSUME NEW c \in Callers, IInv, WaitEnds(c) \/ CtxEndsWait(c) PROVE IInv'
<1>1. CASE WaitEnds(c)
  <2> USE <1>1 DEF IInv, WaitEnds, Goto, breakerVars, probeVars, callVars
  <2>1. ClientTypeOK' /\ RunningInLoop' /\ Registered' /\ FailuresCounted'
    BY Zenon DEF ClientTypeOK, RunningInLoop, Registered, InLoop, FailuresCounted
  <2>2. ResendsPaid'
    BY ResendsKept, Zenon DEF ClientTypeOK
  <2> QED
    BY <2>1, <2>2, Zenon
<1>2. CASE CtxEndsWait(c)
  BY <1>2, ReportInv, Zenon DEF CtxEndsWait, IInv, ClientTypeOK
<1> QED
  BY <1>1, <1>2, Zenon

\* The context of a call ends, and what the environment does to the breaker.
LEMMA EnvironmentInv ==
  ASSUME IInv, \/ \E c \in Callers : CtxExpires(c) \/ CallerCancels(c)
               \/ ResetCircuitBreaker \/ TimeoutElapses
  PROVE  IInv'
<1> USE DEF IInv, breakerVars, probeVars, callVars
<1>1. CASE \E c \in Callers : CtxExpires(c) \/ CallerCancels(c)
  <2>1. ClientTypeOK' /\ RunningInLoop' /\ Registered' /\ FailuresCounted'
    BY <1>1 DEF CtxExpires, CallerCancels, ClientTypeOK, RunningInLoop,
                Registered, InLoop, FailuresCounted
  <2>2. ResendsPaid'
    BY <1>1, ResendsKept, Zenon DEF CtxExpires, CallerCancels
  <2> QED
    BY <2>1, <2>2, Zenon
<1>2. CASE ResetCircuitBreaker \/ TimeoutElapses
  <2>1. /\ UNCHANGED <<running, registry, created, pc, method, handle, ctx,
                       retries, sent, resendable, failedCalls>>
        /\ \/ state' = "closed" /\ failures' = 0
           \/ UNCHANGED <<state, failures>>
    BY <1>2, Zenon DEF ResetCircuitBreaker, CB!ToClosed, TimeoutElapses
  <2>2. ClientTypeOK' /\ RunningInLoop' /\ Registered'
    BY <2>1 DEF ClientTypeOK, RunningInLoop, Registered, InLoop
  <2>3. FailuresCounted'
    BY <2>1, ClientAssumption DEF ClientTypeOK, FailuresCounted
  <2>4. ResendsPaid'
    BY <2>1, ResendsKept, Zenon
  <2> QED
    BY <2>2, <2>3, <2>4, Zenon
<1> QED
  BY <1>1, <1>2, Zenon

\* The invariant holds in every reachable state.
THEOREM ClientInvariance == Spec => []IInv
<1>1. IInv /\ [Next]_vars => IInv'
  <2> SUFFICES ASSUME IInv, [Next]_vars PROVE IInv'
    BY Zenon
  <2>1. CASE UNCHANGED vars
    <3>1. ClientTypeOK' /\ RunningInLoop' /\ Registered' /\ FailuresCounted'
      BY <2>1, Zenon DEF vars, IInv, ClientTypeOK, RunningInLoop, Registered, InLoop,
                  FailuresCounted
    <3>2. ResendsPaid'
      BY <2>1, ResendsKept, Zenon DEF vars, IInv
    <3> QED
      BY <3>1, <3>2, Zenon DEF IInv
  <2>2. ASSUME NEW c \in Callers, CallStep(c) PROVE IInv'
    BY <2>2, RegistryInv, AdmissionInv, AttemptInv, AnswerInv, WaitInv, Zenon
       DEF CallStep, CtxEndsAttempt
  <2>3. ASSUME NEW c \in Callers, CalleeAnswers(c) PROVE IInv'
    BY <2>3, AnswerInv, Zenon DEF CalleeAnswers
  <2> QED
    BY <2>1, <2>2, <2>3, CallInv, EnvironmentInv, Zenon DEF Next
<1> QED
  BY InitInv, <1>1, PTL DEF Spec

\* For every number of callers and every configuration of the retries, a
\* request goes out again only for a method configured as retryable, after
\* nothing but Unavailable, and at most MaxRetries times (retryInterceptor).
THEOREM ResendsSafe == Spec => []SafeResend
<1>1. IInv => SafeResend
  <2> SUFFICES ASSUME IInv, NEW c \in Callers, sent[c] > 1
               PROVE  /\ MethodAllowsRetry(method[c])
                      /\ sent[c] <= MaxRetries + 1
                      /\ pc[c] = "inflight" => resendable[c]
    BY Zenon DEF SafeResend
  <2>1. /\ retries[c] \in Nat /\ sent[c] \in Nat /\ sent[c] <= retries[c] + 1
        /\ retries[c] <= EffectiveRetries(method[c])
        /\ pc[c] # "idle" => resendable[c]
    BY Zenon DEF IInv, ClientTypeOK, ResendsPaid
  <2>2. EffectiveRetries(method[c]) > 0
    BY <2>1, RetriesGranted
  <2> QED
    BY <2>1, <2>2, RetriesGranted, ClientAssumption
<1> QED
  BY ClientInvariance, <1>1, PTL

\* However many first calls race for a target, all of them use the one breaker
\* that is registered (getOrCreateCircuitBreaker).
THEOREM BreakerShared == Spec => []SharedBreaker
<1>1. IInv => SharedBreaker
  BY Zenon DEF IInv, Registered, SharedBreaker
<1> QED
  BY ClientInvariance, <1>1, PTL

\* For every threshold the breaker leaves the closed state only after that many
\* calls ended in a fault of the service (isBreakerFailure).
THEOREM OpeningEarned == Spec => []OpenedByFailures
<1>1. IInv => OpenedByFailures
  BY ClientAssumption DEF IInv, ClientTypeOK, FailuresCounted, OpenedByFailures
<1> QED
  BY ClientInvariance, <1>1, PTL

\* A call that reports its result takes the breaker through one Finish.
LEMMA ReportRefines ==
  ASSUME NEW c \in Callers, NEW code, IInv, InLoop(c), Report(c, code)
  PROVE  CB!Next
<1>1. c \in running
  BY Zenon DEF IInv, RunningInLoop
<1>2. IsBreakerFailure(code) \in BOOLEAN
  BY DEF IsBreakerFailure
<1>3. /\ CB!AfterRequest(IsBreakerFailure(code))
      /\ running' = running \ {c} /\ probing' = probing \ {c}
      /\ probes' = probes
  BY Zenon DEF Report
<1>4. CB!Finish(c)
  BY <1>1, <1>2, <1>3, Zenon DEF CB!Finish
<1> QED
  BY <1>4, Zenon DEF CB!Next

\* A step of the client is a step of its breaker, or leaves the breaker alone.
LEMMA StepRefines ==
  ASSUME IInv, [Next]_vars PROVE [CB!Next]_(CB!vars)
<1> DEFINE Stutter == UNCHANGED <<state, failures, successes, halfOpenCalls,
                                 elapsed, running, probing, probes>>
<1>1. Stutter => UNCHANGED CB!vars
  BY Zenon DEF CB!vars
<1>2. ASSUME NEW c \in Callers, Admitted(c) PROVE CB!Next
  <2>1. c \notin running
    BY <1>2, Zenon DEF Admitted, IInv, RunningInLoop, InLoop
  <2>2. CB!Start(c)
    BY <1>2, <2>1, Zenon DEF Admitted, CB!Start
  <2> QED
    BY <2>2, Zenon DEF CB!Next
<1>3. ASSUME NEW c \in Callers, NEW code, Answer(c, code)
      PROVE  CB!Next \/ Stutter
  BY <1>3, ReportRefines, Zenon DEF Answer, InLoop, breakerVars, probeVars
<1>4. ASSUME NEW c \in Callers, CtxEndsWait(c) PROVE CB!Next
  BY <1>4, ReportRefines, Zenon DEF CtxEndsWait, InLoop
<1>5. ASSUME NEW c \in Callers,
             \/ Call(c) \/ Lookup(c) \/ Create(c) \/ TurnedAway(c) \/ Attempt(c)
             \/ WaitEnds(c) \/ CtxExpires(c) \/ CallerCancels(c)
      PROVE  Stutter
  BY <1>5, Zenon DEF Call, Lookup, Create, TurnedAway, Attempt, WaitEnds, CtxExpires,
              CallerCancels, breakerVars, probeVars
<1>6. CASE ResetCircuitBreaker
  <2>1. CB!Reset
    BY <1>6, Zenon DEF ResetCircuitBreaker, probeVars, CB!Reset
  <2> QED
    BY <2>1, Zenon DEF CB!Next
<1>7. CASE TimeoutElapses
  <2>1. CB!TimeoutElapses
    BY <1>7, Zenon DEF TimeoutElapses, probeVars, CB!TimeoutElapses
  <2> QED
    BY <2>1, Zenon DEF CB!Next
<1>8. CASE UNCHANGED vars
  BY <1>1, <1>8, Zenon DEF vars
<1> QED
  BY <1>1, <1>2, <1>3, <1>4, <1>5, <1>6, <1>7, <1>8, Zenon
     DEF Next, CallStep, CtxEndsAttempt, CalleeAnswers

\* The interceptor stack implements the protocol of the breaker: whatever the
\* retry loops do, each call is one admission and one result, and nothing but
\* Execute and Reset touches the breaker.
THEOREM BreakerRefinement == Spec => UsesBreaker
<1>1. Init => CB!Init
  BY Zenon DEF Init
<1>2. IInv /\ [Next]_vars => [CB!Next]_(CB!vars)
  BY StepRefines, Zenon
<1> QED
  BY ClientInvariance, <1>1, <1>2, PTL DEF Spec, UsesBreaker, CB!Spec

-----------------------------------------------------------------------------
(* The wait between two attempts.                                            *)

\* A number that fits is kept as it is.
LEMMA WrapFits == ASSUME NEW n \in 0..Largest PROVE Wrap(n) = n
<1>1. ASSUME NEW L \in Nat, NEW k \in 0..L
      PROVE  ((k + L + 1) % (2 * (L + 1))) - L - 1 = k
  BY <1>1
<1> HIDE DEF Largest
<1> QED
  BY <1>1, PowersOfTwo, Zenon DEF Wrap

\* The product of the base and a power of two is a number, doubles with the
\* exponent, and does not fall.
LEMMA ScaledBase ==
  ASSUME NEW b \in Nat
  PROVE  /\ \A n \in 0..MaxAttempt : b * 2 ^ n \in Nat
         /\ \A n \in 0..MaxAttempt : b * 2 ^ (n + 1) = 2 * (b * 2 ^ n)
         /\ \A m, n \in 0..MaxAttempt : m <= n => b * 2 ^ m <= b * 2 ^ n
<1>1. \A x, y \in Nat : b * x \in Nat /\ b * (2 * x) = 2 * (b * x)
                        /\ (x <= y => b * x <= b * y)
  OBVIOUS
<1> QED
  BY <1>1, PowersOfTwo, Zenon

\* One round of the loop doubles the ceiling or reaches the maximum, and
\* nothing overflows.
LEMMA DelayLoopInv ==
  ASSUME DelayInv, DelayLoop PROVE DelayInv'
<1> DEFINE E(n) == base * 2 ^ n
<1>1. base \in Nat /\ attempt \in Nat /\ round \in Nat /\ round >= 1
      /\ round < attempt /\ attempt <= MaxAttempt /\ maximum \in 0..Largest
      /\ MaxAttempt \in Nat /\ Largest \in Nat
  BY DelayAssumption, PowersOfTwo DEF DelayInv, DelayLoop
<1>2. E(round - 1) \in Nat /\ E((round - 1) + 1) = 2 * E(round - 1)
  BY <1>1, ScaledBase
<1>3. E(round) = 2 * E(round - 1)
  BY <1>1, <1>2
<1>4. ceiling = E(round - 1) /\ ceiling < maximum /\ ceiling' = Doubled
      /\ round' = round + 1 /\ UNCHANGED <<base, maximum, attempt, delay, delayPc>>
      /\ delayPc = "loop" /\ base > 0 /\ maximum > 0
  BY DEF DelayInv, DelayLoop
<1> HIDE DEF E, Largest
<1>5. \/ ceiling' = E(round)
      \/ ceiling' = maximum /\ maximum <= E(round)
  <2>1. CASE ceiling > maximum \div 2
    BY <1>1, <1>2, <1>3, <1>4, <2>1 DEF Doubled
  <2>2. CASE ~(ceiling > maximum \div 2)
    <3>1. ceiling * 2 \in 0..Largest
      BY <1>1, <1>2, <1>4, <2>2
    <3>2. ceiling' = ceiling * 2
      BY <1>4, <2>2, <3>1, WrapFits, Zenon DEF Doubled
    <3> QED
      BY <1>2, <1>3, <1>4, <3>2
  <2> QED
    BY <2>1, <2>2, Zenon
<1>6. round' \in 1..attempt' /\ round' - 1 = round
  BY <1>1, <1>4
<1> QED
  BY <1>1, <1>4, <1>5, <1>6, Zenon DEF DelayInv, DelayBounded, E

\* The ceiling that the loop ends with is the exponential, cut at the maximum.
LEMMA DelayReturnsInv ==
  ASSUME DelayInv, DelayReturns PROVE DelayInv'
<1> DEFINE E(n) == base * 2 ^ n
           c == IF ceiling > maximum THEN maximum ELSE ceiling
<1>1. base \in Nat /\ attempt \in Nat /\ round \in Nat /\ 1 <= round
      /\ round <= attempt /\ attempt <= MaxAttempt /\ maximum \in 0..Largest
      /\ MaxAttempt \in Nat /\ Largest \in Nat
  BY DelayAssumption, PowersOfTwo DEF DelayInv
<1>2. /\ E(round - 1) \in Nat /\ E(attempt - 1) \in Nat
      /\ E(round - 1) <= E(attempt - 1)
  BY <1>1, ScaledBase
<1>3. /\ delay' \in Jitter(c) /\ delayPc' = "done"
      /\ UNCHANGED <<base, maximum, attempt, ceiling, round>>
      /\ ~(round < attempt /\ ceiling < maximum)
      /\ \/ ceiling = E(round - 1)
         \/ ceiling = maximum /\ maximum <= E(round - 1)
  BY Zenon DEF DelayReturns, DelayInv
<1>4. Exponential' = IF E(attempt - 1) < maximum THEN E(attempt - 1) ELSE maximum
  BY <1>3, Zenon DEF Exponential
<1> HIDE DEF E, Largest
<1>5. c = IF E(attempt - 1) < maximum THEN E(attempt - 1) ELSE maximum
  <2>1. CASE round = attempt
    BY <1>1, <1>2, <1>3, <2>1
  <2>2. CASE round < attempt
    BY <1>1, <1>2, <1>3, <2>2
  <2> QED
    BY <1>1, <2>1, <2>2
<1>6. DelayBounded'
  BY <1>3, <1>4, <1>5, Zenon DEF DelayBounded, Jitter
<1> QED
  BY <1>1, <1>3, <1>6, Zenon DEF DelayInv

\* Every wait before a retry lies between half of base * 2^(attempt-1), cut at
\* the maximum, and all of it, for every width, base, maximum and attempt: no
\* doubling overflows (boundedRetryDelay).
THEOREM DelaysBounded == DelaySpec => []DelayBounded
<1>1. DelayInit => DelayInv
  BY DelayAssumption, PowersOfTwo DEF DelayInit, DelayInv, DelayBounded
<1>2. ASSUME DelayInv, [DelayNext]_delayVars PROVE DelayInv'
  <2>1. CASE DelayEnter
    <3>1. CASE base = 0
      BY <1>2, <2>1, <3>1, DelayAssumption, PowersOfTwo
         DEF DelayEnter, DelayInv, DelayBounded
    <3>2. CASE base # 0
      <4>1. base * 2 ^ (1 - 1) = base
        BY <1>2, PowersOfTwo DEF DelayInv
      <4> QED
        BY <1>2, <2>1, <3>2, <4>1, DelayAssumption, PowersOfTwo
           DEF DelayEnter, DelayInv, DelayBounded
    <3> QED
      BY <3>1, <3>2, Zenon
  <2>2. CASE UNCHANGED delayVars
    BY <1>2, <2>2, Zenon DEF delayVars, DelayInv, DelayBounded, Exponential
  <2> QED
    BY <1>2, <2>1, <2>2, DelayLoopInv, DelayReturnsInv, Zenon DEF DelayNext
<1>3. DelayInv => DelayBounded
  BY Zenon DEF DelayInv
<1> QED
  BY <1>1, <1>2, <1>3, PTL DEF DelaySpec
=============================================================================
