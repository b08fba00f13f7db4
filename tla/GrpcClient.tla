----------------------------- MODULE GrpcClient -----------------------------
(***************************************************************************)
(* A unary call through a client of NewClientWithCircuitBreaker: the       *)
(* registry of breakers, circuitBreakerInterceptor around retryInterceptor *)
(* around the transport, for concurrent callers of one target.  The        *)
(* breaker is the CircuitBreaker module; a call runs its whole retry loop  *)
(* inside one Execute.  Retry delays are left out; what the transport does *)
(* with a request (answer, fail, hang, notice a finished context) is       *)
(* modelled from how the interceptors use it.                              *)
(***************************************************************************)
EXTENDS Integers, FiniteSets

CONSTANTS
  Callers,
  Methods,           \* pairs <<service, method>>
  RetryAllMethods,   \* ClientConfig.RetryAllMethods
  RetryableMethods,  \* entries <<service, method>> and <<service, "*">>
  MaxRetries,        \* ClientConfig.MaxRetries, may be negative
  Timeout,           \* ClientConfig.Timeout is positive
  MaxFailures, MaxHalfOpenCalls

ASSUME ClientAssumption ==
  /\ IsFiniteSet(Callers)
  /\ RetryAllMethods \in BOOLEAN /\ Timeout \in BOOLEAN
  /\ MaxRetries \in Int
  /\ MaxFailures \in Nat \ {0} /\ MaxHalfOpenCalls \in Nat \ {0}

VARIABLES
  \* the breaker of the target, see CircuitBreaker
  state, failures, successes, halfOpenCalls, elapsed, running, probing, probes,
  registry,   \* cbRegistry[target]: 0 for none, else the breaker's number
  created,    \* breakers created so far
  \* callers
  pc, method,
  handle,     \* the breaker the caller got from the registry
  deadline,   \* the caller's own context has a deadline
  ctx,        \* callCtx: "live", "expired" or "canceled"
  retries,    \* i of the retry loop
  \* history
  sent,       \* requests this call has put on the wire
  resendable, \* every answer of this call so far was Unavailable
  failedCalls \* calls that ended in a service fault, counted to MaxFailures

breakerVars == <<state, failures, successes, halfOpenCalls, elapsed>>
probeVars == <<running, probing, probes>>
callVars == <<method, handle, deadline, retries, sent, resendable>>
vars == <<state, failures, successes, halfOpenCalls, elapsed, running, probing,
          probes, registry, created, pc, method, handle, deadline, ctx, retries,
          sent, resendable, failedCalls>>

CB == INSTANCE CircuitBreaker WITH healthy <- FALSE, lost <- 0, MaxLost <- 0

\* Codes that the code tells apart; Internal stands for Unknown and DataLoss
\* too, InvalidArgument for every code by which the callee blames the caller.
Codes == {"OK", "Unavailable", "Internal", "DeadlineExceeded",
          "InvalidArgument", "Canceled"}

-----------------------------------------------------------------------------
(* Classification                                                          *)

\* methodAllowsRetry; the entry "/*" has the empty service and covers all.
MethodAllowsRetry(m) ==
  \/ RetryAllMethods
  \/ \E r \in RetryableMethods : r = m \/ (r[2] = "*" /\ r[1] \in {m[1], ""})

EffectiveRetries(m) ==
  IF MaxRetries < 0 \/ ~MethodAllowsRetry(m) THEN 0 ELSE MaxRetries

\* Mutant: a call that timed out is sent again.
IsRetryableTimeouts(code) == code \in {"Unavailable", "DeadlineExceeded"}

IsRetryable(code) == code = "Unavailable"

\* The outcomes, for the history, that say something about the callee's health.
ServiceFault(code) == code \notin {"OK", "InvalidArgument", "Canceled"}

\* Mutant: every error trips the breaker.
IsBreakerFailureAny(code) == code # "OK"

IsBreakerFailure(code) == code \in {"Unavailable", "DeadlineExceeded", "Internal"}

\* Mutant: no default deadline for retried calls.
HasDeadlineNoDefault(c) == Timeout \/ deadline[c]

\* callCtx has a deadline: the configured one, the caller's, or the default
\* that retryInterceptor adds when it may retry.
HasDeadline(c) ==
  Timeout \/ deadline[c] \/ EffectiveRetries(method[c]) > 0

-----------------------------------------------------------------------------
Init ==
  /\ CB!Init
  /\ registry = 0 /\ created = 0
  /\ pc = [c \in Callers |-> "idle"]
  /\ method \in [Callers -> Methods]
  /\ handle = [c \in Callers |-> 0]
  /\ deadline = [c \in Callers |-> FALSE]
  /\ ctx = [c \in Callers |-> "live"]
  /\ retries = [c \in Callers |-> 0]
  /\ sent = [c \in Callers |-> 0]
  /\ resendable = [c \in Callers |-> TRUE]
  /\ failedCalls = 0

Goto(c, l) == pc' = [pc EXCEPT ![c] = l]

\* A new call: any method, with or without a deadline of its own.
Call(c) ==
  /\ pc[c] = "idle"
  /\ Goto(c, "lookup")
  /\ \E m \in Methods, d \in BOOLEAN :
       /\ method' = [method EXCEPT ![c] = m]
       /\ deadline' = [deadline EXCEPT ![c] = d]
  /\ ctx' = [ctx EXCEPT ![c] = "live"]
  /\ retries' = [retries EXCEPT ![c] = 0]
  /\ sent' = [sent EXCEPT ![c] = 0]
  /\ resendable' = [resendable EXCEPT ![c] = TRUE]
  /\ UNCHANGED <<breakerVars, probeVars, registry, created, handle, failedCalls>>

\* getOrCreateCircuitBreaker, under the read lock.
Lookup(c) ==
  /\ pc[c] = "lookup"
  /\ Goto(c, IF registry # 0 THEN "before" ELSE "create")
  /\ handle' = [handle EXCEPT ![c] = registry]
  /\ UNCHANGED <<breakerVars, probeVars, registry, created, method, deadline,
                 ctx, retries, sent, resendable, failedCalls>>

\* Mutant: no second look under the write lock.
CreateUnchecked(c) ==
  /\ pc[c] = "create"
  /\ Goto(c, "before")
  /\ created' = created + 1 /\ registry' = created + 1
  /\ handle' = [handle EXCEPT ![c] = registry']
  /\ UNCHANGED <<breakerVars, probeVars, method, deadline, ctx, retries, sent,
                 resendable, failedCalls>>

\* getOrCreateCircuitBreaker, under the write lock.
Create(c) ==
  /\ pc[c] = "create"
  /\ Goto(c, "before")
  /\ IF registry # 0
     THEN UNCHANGED <<registry, created>>
     ELSE created' = created + 1 /\ registry' = created + 1
  /\ handle' = [handle EXCEPT ![c] = registry']
  /\ UNCHANGED <<breakerVars, probeVars, method, deadline, ctx, retries, sent,
                 resendable, failedCalls>>

-----------------------------------------------------------------------------
(* Execute and the retry loop                                              *)

Admitted(c) ==
  /\ pc[c] = "before"
  /\ CB!BeforeRequest(c)
  /\ running' = running \cup {c}
  /\ Goto(c, "attempt")
  /\ UNCHANGED <<registry, created, callVars, ctx, failedCalls>>

TurnedAway(c) ==
  /\ pc[c] = "before"
  /\ CB!Rejected
  /\ Goto(c, "idle")
  /\ UNCHANGED <<breakerVars, probeVars, registry, created, callVars, ctx,
                 failedCalls>>

\* invoker is called: a finished context keeps the request off the wire.
Attempt(c) ==
  /\ pc[c] = "attempt"
  /\ Goto(c, "inflight")
  /\ sent' = [sent EXCEPT ![c] = @ + (IF ctx[c] = "live" THEN 1 ELSE 0)]
  /\ UNCHANGED <<breakerVars, probeVars, registry, created, method, handle,
                 deadline, ctx, retries, resendable, failedCalls>>

\* What invoker returns when the context has ended.
CtxCode(c) == IF ctx[c] = "expired" THEN "DeadlineExceeded" ELSE "Canceled"

\* The retry loop returns and afterRequest reports the outcome.
Report(c, code) ==
  /\ Goto(c, "idle")
  /\ CB!AfterRequest(IsBreakerFailure(code))
  /\ running' = running \ {c} /\ probing' = probing \ {c}
  /\ failedCalls' = IF ServiceFault(code) /\ failedCalls < MaxFailures
                    THEN failedCalls + 1 ELSE failedCalls
  /\ UNCHANGED <<probes, registry, created, method, handle, deadline, ctx, sent>>

\* Mutant: the breaker sits inside the retry loop and hears of every attempt.
AnswerReportsAttempts(c, code) ==
  /\ pc[c] = "inflight"
  /\ resendable' = [resendable EXCEPT ![c] = @ /\ code = "Unavailable"]
  /\ \/ /\ IsRetryable(code) /\ retries[c] < EffectiveRetries(method[c])
        /\ Goto(c, "wait")
        /\ CB!AfterRequest(TRUE)
        /\ retries' = [retries EXCEPT ![c] = @ + 1]
        /\ UNCHANGED <<probeVars, registry, created, method, handle, deadline,
                       ctx, sent, failedCalls>>
     \/ /\ ~(IsRetryable(code) /\ retries[c] < EffectiveRetries(method[c]))
        /\ Report(c, code)
        /\ UNCHANGED retries

\* invoker returns code: the loop waits for another attempt or ends.
Answer(c, code) ==
  /\ pc[c] = "inflight"
  /\ resendable' = [resendable EXCEPT ![c] = @ /\ code = "Unavailable"]
  /\ \/ /\ IsRetryable(code) /\ retries[c] < EffectiveRetries(method[c])
        /\ Goto(c, "wait")
        /\ retries' = [retries EXCEPT ![c] = @ + 1]
        /\ UNCHANGED <<breakerVars, probeVars, registry, created, method, handle,
                       deadline, ctx, sent, failedCalls>>
     \/ /\ ~(IsRetryable(code) /\ retries[c] < EffectiveRetries(method[c]))
        /\ Report(c, code)
        /\ UNCHANGED retries

\* The callee answers, or the transport fails; or the context ends the attempt.
CalleeAnswers(c) ==
  /\ ctx[c] = "live"
  /\ \E code \in Codes \ {"Canceled"} : Answer(c, code)

CtxEndsAttempt(c) == ctx[c] # "live" /\ Answer(c, CtxCode(c))

WaitEnds(c) ==
  /\ pc[c] = "wait"
  /\ Goto(c, "attempt")
  /\ UNCHANGED <<breakerVars, probeVars, registry, created, callVars, ctx,
                 failedCalls>>

\* callCtx.Done during the wait.
CtxEndsWait(c) ==
  /\ pc[c] = "wait" /\ ctx[c] # "live"
  /\ Report(c, CtxCode(c))
  /\ UNCHANGED <<retries, resendable>>

-----------------------------------------------------------------------------
(* Environment                                                             *)

\* A call's context lives from retryInterceptor on.
InLoop(c) == pc[c] \in {"attempt", "inflight", "wait"}

CtxExpires(c) ==
  /\ InLoop(c) /\ ctx[c] = "live" /\ HasDeadline(c)
  /\ ctx' = [ctx EXCEPT ![c] = "expired"]
  /\ UNCHANGED <<breakerVars, probeVars, registry, created, pc, callVars,
                 failedCalls>>

CallerCancels(c) ==
  /\ InLoop(c) /\ ctx[c] = "live"
  /\ ctx' = [ctx EXCEPT ![c] = "canceled"]
  /\ UNCHANGED <<breakerVars, probeVars, registry, created, pc, callVars,
                 failedCalls>>

ResetCircuitBreaker ==
  /\ registry # 0
  /\ CB!ToClosed
  /\ UNCHANGED <<probeVars, registry, created, pc, callVars, ctx, failedCalls>>

TimeoutElapses ==
  /\ ~elapsed /\ elapsed' = TRUE
  /\ UNCHANGED <<state, failures, successes, halfOpenCalls, probeVars, registry,
                 created, pc, callVars, ctx, failedCalls>>

\* The steps of a call that need no answer from the callee.
CallStep(c) ==
  \/ Lookup(c) \/ Create(c) \/ Admitted(c) \/ TurnedAway(c) \/ Attempt(c)
  \/ CtxEndsAttempt(c) \/ WaitEnds(c) \/ CtxEndsWait(c)

Next ==
  \/ \E c \in Callers : Call(c) \/ CallStep(c) \/ CalleeAnswers(c)
                        \/ CtxExpires(c) \/ CallerCancels(c)
  \/ ResetCircuitBreaker \/ TimeoutElapses

Spec == Init /\ [][Next]_vars

\* Goroutines run and deadlines expire; the callee may never answer.
FairSpec ==
  Spec /\ \A c \in Callers : WF_vars(CallStep(c)) /\ WF_vars(CtxExpires(c))

-----------------------------------------------------------------------------
(* Properties                                                              *)

\* A request is put on the wire a second time only for a method configured as
\* retryable, only when every earlier answer of the call was Unavailable, and
\* at most MaxRetries times more (retryInterceptor, methodAllowsRetry).
SafeResend ==
  \A c \in Callers : sent[c] > 1 =>
    /\ MethodAllowsRetry(method[c])
    /\ sent[c] <= MaxRetries + 1
    /\ pc[c] = "inflight" => resendable[c]

\* Concurrent first calls to a target agree on one breaker, the registered one
\* (getOrCreateCircuitBreaker: "Double-check after acquiring write lock").
SharedBreaker ==
  \A c \in Callers : pc[c] = "before" \/ InLoop(c) => handle[c] = registry

\* Calls the callee answered, calls with a caller's fault and calls the caller
\* gave up never open the breaker: it takes maxFailures calls that end in a
\* fault of the service (isBreakerFailure: such codes "must not open the breaker").
OpenedByFailures == state # "closed" => failedCalls >= MaxFailures

\* The interceptor stack drives the breaker only as Execute and Reset do: one
\* admission and one result per call, whatever the retry loop does in between.
UsesBreaker == CB!Spec

\* A call that may be retried, or that has a deadline, returns even when the
\* callee never answers (retryInterceptor: defaultRetryTotalTimeout).
BoundedCallsReturn ==
  \A c \in Callers :
    (pc[c] # "idle" /\ (deadline[c] \/ EffectiveRetries(method[c]) > 0))
      ~> pc[c] = "idle"

-----------------------------------------------------------------------------
(* The inductive invariant                                                 *)

\* The types of the breaker, of the registry and of the calls.
ClientTypeOK ==
  /\ state \in {"closed", "open", "halfopen"}
  /\ failures \in Nat /\ failedCalls \in 0..MaxFailures
  /\ registry \in Nat /\ created \in Nat
  /\ pc \in [Callers -> {"idle", "lookup", "create", "before", "attempt",
                         "inflight", "wait"}]
  /\ method \in [Callers -> Methods] /\ handle \in [Callers -> Nat]
  /\ ctx \in [Callers -> {"live", "expired", "canceled"}]
  /\ retries \in [Callers -> Nat] /\ sent \in [Callers -> Nat]
  /\ resendable \in [Callers -> BOOLEAN]

\* The breaker's callers are the calls inside the retry loop.
RunningInLoop == running = {c \in Callers : InLoop(c)}

\* A call that has a breaker has the registered one.
Registered ==
  \A c \in Callers :
    pc[c] = "before" \/ InLoop(c) => registry # 0 /\ handle[c] = registry

\* A request on the wire is the first or was paid for by a retry; the loop goes
\* on only while the answers allow it.
ResendsPaid ==
  \A c \in Callers :
    /\ retries[c] <= EffectiveRetries(method[c])
    /\ sent[c] <= retries[c] + 1
    /\ pc[c] \notin {"idle", "inflight"} => sent[c] <= retries[c]
    /\ pc[c] # "idle" => resendable[c]

\* The failures on record are failed calls, and a breaker that is not closed
\* has seen enough of them.
FailuresCounted ==
  IF state = "closed" THEN failures <= failedCalls /\ failures < MaxFailures
  ELSE failedCalls = MaxFailures

IInv == /\ ClientTypeOK /\ RunningInLoop /\ Registered /\ ResendsPaid
        /\ FailuresCounted

=============================================================================
