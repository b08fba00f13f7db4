------------------------------ MODULE MCService ------------------------------
(***************************************************************************)
(* What a service loads before and while it serves: the configuration, the *)
(* database migrations, the translations and the verification keys.  The   *)
(* components share no state; a behaviour is one of the part chosen at the *)
(* start, while the others rest.  The keys have two parts: in "keys" the   *)
(* issuer rotates them, the cache may be closed and one verifier looks     *)
(* keys up; in "lookups" all verifiers do, and neither happens.            *)
(***************************************************************************)
EXTENDS Migrations, JWKSCache, MCConfig, Translator

VARIABLE part

serviceVars == <<part, vars, jwksVars, configVars, i18nVars>>

MCTags == {<<"ru", "">>, <<"ru", "RU">>, <<"kk", "">>, <<"en", "US">>,
           <<"de", "">>}

MCFiles == << [lang |-> "en", keys |-> {"common", "own"}, parses |-> TRUE],
              [lang |-> "ru", keys |-> {"own"}, parses |-> TRUE],
              [lang |-> "kk", keys |-> {"own"}, parses |-> FALSE] >>

\* The parts that rest: a migrated database, a closed cache, and one input of
\* each of the others.
MigrationsRest ==
  /\ version = 0 /\ dirty = FALSE /\ schema = {} /\ lock = Nobody
  /\ pc = [i \in Instances |-> "done"] /\ from = [i \in Instances |-> 0]
  /\ errors = 0 /\ crashes = 0 /\ disturbed = FALSE

JWKSRest ==
  /\ keys = Kids /\ published = Kids /\ fetchAge = 0 /\ attemptAge = 0
  /\ refreshMu = NoKid /\ rotations = 0 /\ demandAge = 0
  /\ jwksPc = [r \in Refreshers |-> "done"]
  /\ kid = [r \in Refreshers |-> NoKid] /\ got = [r \in Refreshers |-> {}]
  /\ fetchFor = [r \in Refreshers |-> 0] /\ goneFor = [k \in Kids |-> 0]
  /\ ready = TRUE /\ stopped = TRUE

KeyParts == {"keys", "lookups"}

\* The key published at first, and the verifier of the part "keys": any one.
OneKey == {CHOOSE k \in Kids : TRUE}
OneVerifier == CHOOSE v \in Verifiers : TRUE

ServiceInit ==
  /\ part \in {"migrate", "config", "i18n"} \cup KeyParts
  /\ part # "config" => /\ file = "absent"
                        /\ yaml = [i \in DOMAIN Fields |-> Empty]
                        /\ environ = [i \in DOMAIN Fields |-> Empty]
  /\ part # "i18n" => header = <<>>
  /\ IF part = "migrate" THEN Init ELSE MigrationsRest
  /\ IF part \in KeyParts THEN JWKSInit /\ published = OneKey ELSE JWKSRest
  /\ ConfigInit /\ TranslatorInit

ServiceNext ==
  \/ /\ part = "migrate" /\ Next
     /\ UNCHANGED <<part, jwksVars, configVars, i18nVars>>
  \/ /\ part = "keys" /\ JWKSNext
     /\ \A v \in Verifiers \ {OneVerifier} : jwksPc'[v] = "new"
     /\ UNCHANGED <<part, vars, configVars, i18nVars>>
  \/ /\ part = "lookups" /\ JWKSNext
     /\ rotations' = 0 /\ stopped' = FALSE
     /\ UNCHANGED <<part, vars, configVars, i18nVars>>
  \/ /\ part = "config" /\ ConfigNext
     /\ UNCHANGED <<part, vars, jwksVars, i18nVars>>
  \/ /\ part = "i18n" /\ TranslatorNext
     /\ UNCHANGED <<part, vars, jwksVars, configVars>>

\* Processes run, the advisory lock is handed over, failed instances are
\* restarted.
MigrateFair ==
  \A i \in Instances :
    SF_vars(part = "migrate" /\ Works(i)
              /\ disturbed' = (disturbed \/ Disturbs(i)))

\* The ticker fires, fetches end, goroutines run, refreshMu is granted to every
\* waiter (sync.Mutex does not starve), and the issuer answers again and again.
KeysFair ==
  /\ WF_jwksVars(part \in KeyParts /\ LoopTick)
  /\ SF_jwksVars(part \in KeyParts /\ IssuerAnswers(Loop))
  /\ SF_jwksVars(part \in KeyParts /\ StoreKeys(Loop))
  /\ \A r \in Refreshers :
       /\ WF_jwksVars(part \in KeyParts /\ Begin(r))
       /\ WF_jwksVars(part \in KeyParts /\ IssuerAnswers(r))
       /\ WF_jwksVars(part \in KeyParts /\ RefreshEnds(r))
  /\ \A v \in Verifiers :
       /\ WF_jwksVars(part \in KeyParts /\ VerifierStep(v))
       /\ SF_jwksVars(part \in KeyParts /\ Lock(v))

ServiceSpec ==
  /\ ServiceInit /\ [][ServiceNext]_serviceVars
  /\ MigrateFair /\ KeysFair
=============================================================================
