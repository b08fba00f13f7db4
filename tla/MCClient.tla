------------------------------ MODULE MCClient ------------------------------
(***************************************************************************)
(* A call from its client on: the interceptors that retry it and break the *)
(* circuit, the waits between the retries, and the chain of services it    *)
(* passes.  Of the two methods one is retryable through the wildcard of    *)
(* its service, the other, of another service, is not.  A behaviour is one *)
(* of the part chosen at the start, while the others rest.                 *)
(***************************************************************************)
EXTENDS GrpcClient, CallChain, RetryDelay

VARIABLE part

clientVars == <<part, vars, chainVars, delayVars>>

TwoMethods == {<<"users", "Get">>, <<"orders", "Create">>}
UsersWildcard == {<<"users", "*">>}

ClientInit ==
  /\ part \in {"client", "chain", "delay"}
  /\ part # "chain" => waitForReady = FALSE
  /\ part # "delay" => base = 0 /\ maximum = 0 /\ attempt = 1
  /\ Init /\ ChainInit /\ DelayInit

ClientNext ==
  \/ part = "client" /\ Next /\ UNCHANGED <<part, chainVars, delayVars>>
  \/ part = "chain" /\ ChainNext /\ UNCHANGED <<part, vars, delayVars>>
  \/ part = "delay" /\ DelayNext /\ UNCHANGED <<part, vars, chainVars>>

\* Goroutines run and deadlines expire; the callee may never answer.
CallersFair ==
  \A c \in Callers :
    /\ WF_vars(part = "client" /\ CallStep(c))
    /\ WF_vars(part = "client" /\ CtxExpires(c))

\* Handlers that do not wait for a call return, timers fire, GracefulStop
\* notices the end of the last handler.  A service need not accept a call.
ChainFair ==
  /\ WF_chainVars(part = "chain" /\ ChainTick)
  /\ \A s \in 1..Depth : WF_chainVars(part = "chain" /\ StopEnds(s))
  /\ \A c \in 1..MaxCalls :
       /\ WF_chainVars(/\ part = "chain" /\ c \in DOMAIN calls
                       /\ \/ HandlerReturns(c) \/ HandlerPanics(c)
                          \/ CallReturns(c))
       /\ WF_chainVars(/\ part = "chain" /\ c \in DOMAIN calls
                       /\ DeadlineExceeded(c))

ClientSpec ==
  ClientInit /\ [][ClientNext]_clientVars /\ CallersFair /\ ChainFair
=============================================================================
