--------------------------- MODULE CircuitBreaker ---------------------------
(***************************************************************************)
(* circuitbreaker.CircuitBreaker used by concurrent callers of Execute.    *)
(* Each operation holds cb.mu for its whole body, so beforeRequest and     *)
(* afterRequest are atomic, and the protected call runs between them.      *)
(* Time enters only through time.Since(lastFailureTime) > timeout, which   *)
(* is the Boolean elapsed.  A call that panics never reaches afterRequest. *)
(***************************************************************************)
EXTENDS Integers, FiniteSets

CONSTANTS
  Callers,           \* goroutines that call Execute, each once at a time
  MaxFailures,       \* cb.maxFailures
  MaxHalfOpenCalls,  \* cb.maxHalfOpenCalls
  MaxLost            \* bound: calls that panic in one behaviour

ASSUME BreakerAssumption ==
  /\ IsFiniteSet(Callers)
  /\ MaxFailures \in Nat \ {0}        \* New replaces 0 by a default
  /\ MaxHalfOpenCalls \in Nat \ {0}
  /\ MaxLost \in Nat

VARIABLES
  state, failures, successes, halfOpenCalls,
  elapsed,   \* time.Since(cb.lastFailureTime) > cb.timeout
  running,   \* callers inside the protected call
  healthy,   \* the callee has recovered: calls no longer fail
  \* history
  probing,   \* callers admitted in the current half-open period, not yet back
  probes,    \* number of callers admitted in the current half-open period
  lost       \* number of calls that panicked

cbVars == <<state, failures, successes, halfOpenCalls, elapsed>>
vars == <<state, failures, successes, halfOpenCalls, elapsed, running, healthy,
          probing, probes, lost>>

Init ==
  /\ state = "closed"
  /\ failures = 0 /\ successes = 0 /\ halfOpenCalls = 0
  /\ elapsed = TRUE                   \* lastFailureTime is the zero time
  /\ running = {} /\ healthy = FALSE
  /\ probing = {} /\ probes = 0 /\ lost = 0

-----------------------------------------------------------------------------
(* State changes                                                           *)

ToClosed ==
  /\ state' = "closed"
  /\ failures' = 0 /\ successes' = 0 /\ halfOpenCalls' = 0
  /\ UNCHANGED elapsed

ToOpen ==
  /\ state' = "open"
  /\ elapsed' = FALSE
  /\ UNCHANGED <<successes, halfOpenCalls>>

\* Mutant: the successes of the previous half-open period are kept, and with
\* them an old count of admitted calls.
ToHalfOpenKeepsCalls ==
  /\ state' = "halfopen"
  /\ successes' = 0
  /\ UNCHANGED <<failures, elapsed, halfOpenCalls>>

ToHalfOpen ==
  /\ state' = "halfopen"
  /\ successes' = 0 /\ halfOpenCalls' = 0
  /\ UNCHANGED <<failures, elapsed>>

-----------------------------------------------------------------------------
(* beforeRequest and afterRequest                                          *)

HalfOpenHasRoom == halfOpenCalls < MaxHalfOpenCalls

\* beforeRequest returns nil.  The call that moves the breaker to half-open is
\* not counted in halfOpenCalls.
BeforeRequest(c) ==
  \/ /\ state = "closed"
     /\ UNCHANGED <<cbVars, probing, probes>>
  \/ /\ state = "open" /\ elapsed
     /\ ToHalfOpen
     /\ probing' = {c} /\ probes' = 1
  \/ /\ state = "halfopen" /\ HalfOpenHasRoom
     /\ halfOpenCalls' = halfOpenCalls + 1
     /\ probing' = probing \cup {c} /\ probes' = probes + 1
     /\ UNCHANGED <<state, failures, successes, elapsed>>

\* beforeRequest returns ErrCircuitOpen.
Rejected ==
  \/ state = "open" /\ ~elapsed
  \/ state = "halfopen" /\ ~HalfOpenHasRoom

\* Mutant: closing waits for more successes than calls are admitted.
EnoughSuccessesOffByOne == successes + 1 > MaxHalfOpenCalls

EnoughSuccesses == successes + 1 >= MaxHalfOpenCalls

OnSuccess ==
  \/ /\ state = "closed"
     /\ failures' = 0
     /\ UNCHANGED <<state, successes, halfOpenCalls, elapsed>>
  \/ /\ state = "halfopen" /\ EnoughSuccesses
     /\ ToClosed
  \/ /\ state = "halfopen" /\ ~EnoughSuccesses
     /\ successes' = successes + 1
     /\ UNCHANGED <<state, failures, halfOpenCalls, elapsed>>
  \/ /\ state = "open"
     /\ UNCHANGED cbVars

OnFailure ==
  \/ /\ state = "closed"
     /\ failures' = failures + 1
     /\ IF failures + 1 >= MaxFailures
        THEN ToOpen
        ELSE elapsed' = FALSE /\ UNCHANGED <<state, successes, halfOpenCalls>>
  \/ /\ state = "halfopen"
     /\ ToOpen
     /\ UNCHANGED failures
  \/ /\ state = "open"
     /\ UNCHANGED cbVars

\* afterRequest: isFailure decides which way an error counts.
AfterRequest(failed) == IF failed THEN OnFailure ELSE OnSuccess

-----------------------------------------------------------------------------
(* Execute                                                                 *)

Start(c) ==
  /\ c \notin running
  /\ BeforeRequest(c)
  /\ running' = running \cup {c}
  /\ UNCHANGED <<healthy, lost>>

\* fn returns, with an error isFailure accepts only while the callee is ill.
Finish(c) ==
  /\ c \in running
  /\ \E failed \in BOOLEAN : (failed => ~healthy) /\ AfterRequest(failed)
  /\ running' = running \ {c} /\ probing' = probing \ {c}
  /\ UNCHANGED <<healthy, probes, lost>>

\* fn panics: Execute does not defer afterRequest.
Panic(c) ==
  /\ c \in running
  /\ lost < MaxLost /\ lost' = lost + 1
  /\ running' = running \ {c} /\ probing' = probing \ {c}
  /\ UNCHANGED <<cbVars, healthy, probes>>

Reset ==
  /\ ToClosed
  /\ UNCHANGED <<running, healthy, probing, probes, lost>>

TimeoutElapses ==
  /\ ~elapsed /\ elapsed' = TRUE
  /\ UNCHANGED <<state, failures, successes, halfOpenCalls, running, healthy,
                 probing, probes, lost>>

CalleeRecovers ==
  /\ ~healthy /\ healthy' = TRUE
  /\ UNCHANGED <<cbVars, running, probing, probes, lost>>

Next ==
  \/ \E c \in Callers : Start(c) \/ Finish(c) \/ Panic(c)
  \/ Reset \/ TimeoutElapses \/ CalleeRecovers

Spec == Init /\ [][Next]_vars

\* Calls keep arriving and return, and the clock advances.
FairSpec ==
  /\ Spec
  /\ \A c \in Callers : WF_vars(Start(c)) /\ WF_vars(Finish(c))
  /\ WF_vars(TimeoutElapses)

-----------------------------------------------------------------------------
(* Properties                                                              *)

\* The fields of CircuitBreaker stay within the limits New configured.
TypeOK ==
  /\ state \in {"closed", "open", "halfopen"}
  /\ failures \in 0..MaxFailures
  /\ successes \in 0..MaxHalfOpenCalls
  /\ halfOpenCalls \in 0..MaxHalfOpenCalls
  /\ elapsed \in BOOLEAN /\ healthy \in BOOLEAN
  /\ running \subseteq Callers /\ probing \subseteq running
  /\ probes \in Nat /\ lost \in 0..MaxLost

\* The state and the failure count never disagree: the breaker is closed
\* exactly while fewer than maxFailures failures are on record, through every
\* reopening, late result and Reset (onFailure, onSuccess, toClosed).
ClosedBelowThreshold == state = "closed" <=> failures < MaxFailures

\* In one half-open period at most maxHalfOpenCalls + 1 calls reach the callee,
\* however many callers race: the call that ends the open period comes on top
\* of the ones beforeRequest counts.
ProbeBound == state = "halfopen" => probes <= MaxHalfOpenCalls + 1

\* A half-open breaker that turns calls away is still waiting for one of its
\* own probes, so it is not stuck, provided at most one call ever panicked
\* (beforeRequest admits one probe more than onSuccess needs).
NotWedged ==
  state = "halfopen" /\ ~HalfOpenHasRoom /\ lost <= 1 => probing # {}

\* The limit as the comment on Config.MaxHalfOpenCalls states it: "Max calls in
\* half-open state".
DocumentedProbeLimit == state = "halfopen" => probes <= MaxHalfOpenCalls

\* Once the callee has recovered the breaker closes and stays closed, also when
\* one call panicked.  The condition is needed: Execute does not give back the
\* slot of a call that panics, and two probes lost in one half-open period
\* leave too few for onSuccess, so that the breaker rejects until Reset.
RecoveryCloses == healthy ~> ([](state = "closed") \/ lost > 1)

-----------------------------------------------------------------------------
(* The inductive invariant                                                 *)

\* Every admission of the half-open period but the first is counted, and every
\* probe has reported a success, is still out, or panicked.
ProbesAccounted ==
  state = "halfopen" =>
    /\ probes = halfOpenCalls + 1
    /\ successes < MaxHalfOpenCalls
    /\ successes + Cardinality(probing) + lost >= probes

IInv == TypeOK /\ ClosedBelowThreshold /\ ProbesAccounted

=============================================================================
