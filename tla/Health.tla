------------------------------- MODULE Health -------------------------------
(***************************************************************************)
(* health.Health: probes of ReadinessHandler and Handler run the           *)
(* registered checkers one after the other under the read lock, while the  *)
(* service's start-up registers its checkers one by one under the write    *)
(* lock and the dependencies go up and down.  A writer that waits keeps    *)
(* new readers out, as sync.RWMutex does.  LivenessHandler and             *)
(* SimpleHandler read no state.  Results are kept in a map keyed by the    *)
(* checker's name, and two checkers may have the same name.                *)
(***************************************************************************)
EXTENDS Integers, Sequences

CONSTANTS
  Probes,         \* requests being served
  NameOf,         \* names of the checkers, in the order of their registration
  Unconfigured,   \* those that are KafkaCheckers without brokers
  MaxProbes,      \* bound: requests in one behaviour
  MaxDepFailures  \* bound: failures of dependencies

ASSUME HealthAssumption ==
  /\ NameOf \in Seq(STRING) /\ Unconfigured \subseteq DOMAIN NameOf
  /\ MaxProbes \in Nat /\ MaxDepFailures \in Nat

VARIABLES
  registered,     \* len(h.checkers)
  registering,    \* RegisterChecker waits for h.mu
  answering,      \* dependencies that answer within the checker's timeout
  probe,          \* the requests: see NewProbe
  probed, depFailures

healthVars == <<registered, registering, answering, probe, probed, depFailures>>

Checkers == DOMAIN NameOf
CheckerNames == {NameOf[c] : c \in Checkers}

\* A request that has arrived: where it is (pc), the index of the checker it
\* runs next, the map and the overall status that Check builds, the answer and,
\* as history, the checkers registered at arrival and those that failed.
NewProbe(pc, endpoint) ==
  [pc |-> pc, endpoint |-> endpoint, turn |-> 1,
   checks |-> [n \in CheckerNames |-> "none"], overall |-> "ok",
   code |-> 200, status |-> "ok", known |-> 1..registered, failing |-> {}]

HealthInit ==
  /\ registered = 0 /\ registering = FALSE
  /\ answering = Checkers /\ depFailures = 0
  /\ probe = [p \in Probes |-> NewProbe("idle", "ready")]
  /\ probed = 0

-----------------------------------------------------------------------------
(* RegisterChecker                                                         *)

RegisterCall ==
  /\ registered < Len(NameOf)
  /\ ~registering /\ registering' = TRUE
  /\ UNCHANGED <<registered, answering, probe, probed, depFailures>>

RegisterChecker ==
  /\ registering /\ registering' = FALSE
  /\ \A p \in Probes : probe[p].pc # "checking"
  /\ registered' = registered + 1
  /\ UNCHANGED <<answering, probe, probed, depFailures>>

-----------------------------------------------------------------------------
(* Check and the handlers                                                  *)

SetProbe(p, new) ==
  /\ probe' = [probe EXCEPT ![p] = new]
  /\ UNCHANGED <<registered, registering, answering, depFailures>>

ProbeArrives(p) ==
  /\ probe[p].pc \in {"idle", "answered"}
  /\ probed < MaxProbes /\ probed' = probed + 1
  /\ \E e \in {"ready", "health"} : SetProbe(p, NewProbe("waiting", e))

\* h.mu.RLock()
ProbeBegins(p) ==
  /\ probe[p].pc = "waiting" /\ ~registering
  /\ SetProbe(p, [probe[p] EXCEPT !.pc = "checking"])
  /\ UNCHANGED probed

\* The ping, the dial or the function of the checker returns nil within its
\* timeout; a KafkaChecker without brokers has nothing to dial.
CheckPasses(c) == c \in Unconfigured \/ c \in answering

\* Mutant: a failure is counted and left out of the map.
RecordOnlyPasses(p, c) ==
  IF CheckPasses(c)
  THEN [probe[p] EXCEPT !.turn = @ + 1, !.checks[NameOf[c]] = "ok"]
  ELSE [probe[p] EXCEPT !.turn = @ + 1, !.overall = "degraded",
                        !.failing = @ \cup {c}]

\* One turn of the loop of Check.
Record(p, c) ==
  IF CheckPasses(c)
  THEN [probe[p] EXCEPT !.turn = @ + 1, !.checks[NameOf[c]] = "ok"]
  ELSE [probe[p] EXCEPT !.turn = @ + 1, !.checks[NameOf[c]] = "down",
                        !.overall = "degraded", !.failing = @ \cup {c}]

HasNext(p) == probe[p].turn <= registered

RunChecker(p) ==
  /\ probe[p].pc = "checking" /\ HasNext(p)
  /\ SetProbe(p, Record(p, probe[p].turn))
  /\ UNCHANGED probed

\* ReadinessHandler looks at the map, Handler at the overall status.
NotReady(p) ==
  /\ probe[p].endpoint = "ready"
  /\ \E n \in CheckerNames : probe[p].checks[n] = "down"

\* Mutant: the read lock is kept when Check returns.
ReturnsToLocked == "checking"

\* The deferred h.mu.RUnlock()
ReturnsTo == "answered"

CheckEnds(p) ==
  /\ probe[p].pc = "checking" /\ ~HasNext(p)
  /\ SetProbe(p, [probe[p] EXCEPT
                    !.pc = ReturnsTo,
                    !.code = IF NotReady(p) THEN 503 ELSE 200,
                    !.status = IF NotReady(p) THEN "down"
                                              ELSE probe[p].overall])
  /\ UNCHANGED probed

-----------------------------------------------------------------------------
\* A dependency stops answering, or answers again.
DependencyChanges(c) ==
  /\ \/ /\ depFailures < MaxDepFailures /\ depFailures' = depFailures + 1
        /\ c \in answering /\ answering' = answering \ {c}
     \/ /\ c \notin answering /\ answering' = answering \cup {c}
        /\ UNCHANGED depFailures
  /\ UNCHANGED <<registered, registering, probe, probed>>

HealthNext ==
  \/ RegisterCall \/ RegisterChecker
  \/ \E c \in Checkers : DependencyChanges(c)
  \/ \E p \in Probes :
       ProbeArrives(p) \/ ProbeBegins(p) \/ RunChecker(p) \/ CheckEnds(p)

HealthSpec == HealthInit /\ [][HealthNext]_healthVars

-----------------------------------------------------------------------------
(* Properties                                                              *)

\* A later checker that the probe ran has the name of c and replaced its result.
Masked(p, c) ==
  \E d \in (c + 1)..(probe[p].turn - 1) : NameOf[d] = NameOf[c]

\* The answers tell what the checks found.  "ready" means that every checker
\* registered when the request came in was run for this request and passed,
\* unless a later one has its name: no registration that races the probe, and
\* no dependency that fails and recovers during it, hides a failed check.  The
\* reported status is "ok" exactly when every check of the request passed, also
\* one that a namesake masks in the map.
AnswersTellChecks ==
  \A p \in Probes :
    probe[p].pc = "answered" =>
      /\ probe[p].status = "ok" <=> probe[p].failing = {}
      /\ probe[p].endpoint = "ready" /\ probe[p].code = 200 =>
           \A c \in probe[p].known :
             \/ Masked(p, c)
             \/ c \notin probe[p].failing /\ probe[p].checks[NameOf[c]] = "ok"

\* "For readiness, we need all checks to pass" (ReadinessHandler), also those
\* whose name a later checker has.
ReadyMeansPassed ==
  \A p \in Probes :
    /\ probe[p].pc = "answered" /\ probe[p].endpoint = "ready"
    /\ probe[p].code = 200
    => probe[p].failing = {}

\* Nobody waits for h.mu for good: RegisterChecker gets the write lock although
\* probes keep coming, and a probe is answered although checkers are still being
\* registered and some of the dependencies it checks are down.
NobodyWaitsForever ==
  /\ registering ~> ~registering
  /\ \A p \in Probes : probe[p].pc = "waiting" ~> probe[p].pc = "answered"

-----------------------------------------------------------------------------
(* The inductive invariant                                                 *)

\* The types of the list of checkers and of the requests.
HealthTypeOK ==
  /\ registered \in 0..Len(NameOf)
  /\ registering => registered < Len(NameOf)
  /\ probe \in [Probes ->
       [pc : {"idle", "waiting", "checking", "answered"},
        endpoint : {"ready", "health"}, turn : Nat \ {0},
        checks : [CheckerNames -> {"none", "ok", "down"}],
        overall : {"ok", "degraded"}, code : {200, 503},
        status : {"ok", "degraded", "down"},
        known : SUBSET Nat, failing : SUBSET Nat]]

\* A request has run the checkers up to its turn, all of them registered; the
\* map has the result of each that no later one replaced, and names no failure
\* that did not happen; the overall status tells whether one failed.
ResultsKept(p) ==
  /\ probe[p].turn <= registered + 1
  /\ probe[p].known \subseteq 1..registered
  /\ probe[p].pc = "answered" => probe[p].known \subseteq 1..(probe[p].turn - 1)
  /\ probe[p].failing \subseteq 1..(probe[p].turn - 1)
  /\ probe[p].overall = "ok" <=> probe[p].failing = {}
  /\ \A c \in 1..(probe[p].turn - 1) :
       \/ Masked(p, c)
       \/ probe[p].checks[NameOf[c]]
            = IF c \in probe[p].failing THEN "down" ELSE "ok"
  /\ \A n \in CheckerNames :
       probe[p].checks[n] = "down" => probe[p].failing # {}

\* The answer is what ReadinessHandler and Handler make of the results.
AnswerMade(p) ==
  probe[p].pc = "answered" =>
    /\ probe[p].code = IF NotReady(p) THEN 503 ELSE 200
    /\ probe[p].status = IF NotReady(p) THEN "down" ELSE probe[p].overall

HealthInv ==
  HealthTypeOK /\ \A p \in Probes : ResultsKept(p) /\ AnswerMade(p)
=============================================================================
