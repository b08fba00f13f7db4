------------------------------ MODULE CallChain ------------------------------
(***************************************************************************)
(* A request on its way through several services: the interceptors of the  *)
(* gRPC server (recovery, logging, timeout), the logging interceptor and   *)
(* the total timeout of the client with which a handler calls the next     *)
(* service, and the start and graceful stop of the servers.                *)
(*                                                                         *)
(* Service s calls service s + 1.  A call is a record:                     *)
(*   at, parent   the service called, the call whose handler made it       *)
(*   id           x-request-id in the metadata it was sent with            *)
(*   log          request id in the logger of its handler                  *)
(*   due          time left to its caller, left: to its handler            *)
(*   pc, answer   where the handler is, what the caller got                *)
(* Time left is counted in ticks; NoDeadline is the largest value.         *)
(* Bounds: MaxCalls calls in a behaviour.                                  *)
(***************************************************************************)
EXTENDS Integers, Sequences

CONSTANTS
  Depth,           \* number of services
  MaxCalls,
  ServerTimeout,   \* ServerConfig.Timeout
  ClientTimeout,   \* total timeout of retryInterceptor, or NoDeadline
  NoDeadline

ASSUME ChainAssumption ==
  /\ Depth \in Nat \ {0} /\ MaxCalls \in Nat
  /\ ServerTimeout \in Nat /\ ServerTimeout < NoDeadline
  /\ ClientTimeout \in 0..NoDeadline /\ NoDeadline \in Nat

VARIABLES calls, server, waitForReady

chainVars == <<calls, server, waitForReady>>

\* Request ids: none, the one a gateway sends, and fresh ones.
NoID == 0
GatewayID == 1
ServerID(c) == 2 * c
ClientID(c) == 2 * c + 1

Earlier(a, b) == IF a < b THEN a ELSE b
Running(c) == calls[c].pc \in {"handling", "calling"}
Child(c) == CHOOSE d \in DOMAIN calls :
              /\ calls[d].parent = c
              /\ \A e \in DOMAIN calls : calls[e].parent = c => e <= d

\* ClientConfig.ServiceConfig: with a load-balancing policy, calls wait for a
\* server; otherwise they fail at once when there is none.
ServiceConfig == waitForReady \in BOOLEAN

ChainInit ==
  /\ calls = <<>> /\ server = [s \in 1..Depth |-> "new"]
  /\ ServiceConfig

Sent(s, parent, id, due) ==
  [at |-> s, parent |-> parent, id |-> id, log |-> NoID, due |-> due,
   left |-> NoDeadline, pc |-> "sent", answer |-> "none"]

\* Someone outside calls the first service, with or without id and deadline.
GatewayCalls ==
  /\ Len(calls) < MaxCalls
  /\ \E id \in {NoID, GatewayID}, due \in {1, NoDeadline} :
       calls' = Append(calls, Sent(1, 0, id, due))
  /\ UNCHANGED <<server, waitForReady>>

-----------------------------------------------------------------------------
(* The server.                                                             *)

StartServer(s) ==
  /\ server[s] = "new"
  /\ server' = [server EXCEPT ![s] = "serving"]
  /\ UNCHANGED <<calls, waitForReady>>

\* Stop: GracefulStop refuses new calls and waits for the running ones.
StopServer(s) ==
  /\ server[s] \in {"new", "serving"}
  /\ server' = [server EXCEPT ![s] = "stopping"]
  /\ UNCHANGED <<calls, waitForReady>>

StopEnds(s) ==
  /\ server[s] = "stopping"
  /\ \A c \in DOMAIN calls : calls[c].at = s => ~Running(c)
  /\ server' = [server EXCEPT ![s] = "stopped"]
  /\ UNCHANGED <<calls, waitForReady>>

\* loggingInterceptor: the id of the request, or a new one for the logger.
\* The incoming metadata, where the client looks for it, is left as it is.
LoggingInterceptor(c) ==
  IF calls[c].id # NoID THEN calls[c].id ELSE ServerID(c)

\* Mutant: the handler gets no deadline of its own.
TimeoutInterceptorNone(c) == calls[c].due

\* Mutant: the timeout replaces the deadline of the caller.
TimeoutInterceptorFresh(c) == ServerTimeout

\* timeoutInterceptor: context.WithTimeout keeps an earlier deadline.
TimeoutInterceptor(c) == Earlier(calls[c].due, ServerTimeout)

\* The chain NewServer builds around a handler.
Accept(c) ==
  /\ calls[c].pc = "sent" /\ calls[c].answer = "none"
  /\ server[calls[c].at] = "serving"
  /\ calls' = [calls EXCEPT ![c].pc = "handling",
                            ![c].log = LoggingInterceptor(c),
                            ![c].left = TimeoutInterceptor(c)]
  /\ UNCHANGED <<server, waitForReady>>

\* An answer reaches a caller that still waits for it; both contexts are
\* cancelled.
Ended(k, code) ==
  [k EXCEPT !.pc = "ended", !.due = 0, !.left = 0,
            !.answer = IF @ = "none" THEN code ELSE @]
EndCall(c, code) == calls' = [calls EXCEPT ![c] = Ended(@, code)]

HandlerReturns(c) ==
  /\ calls[c].pc = "handling"
  /\ EndCall(c, "returned")
  /\ UNCHANGED <<server, waitForReady>>

\* recoveryInterceptor is the outermost one: a panic becomes codes.Internal.
RecoveryInterceptor(c) == EndCall(c, "internal") /\ UNCHANGED server

HandlerPanics(c) ==
  /\ calls[c].pc = "handling"
  /\ RecoveryInterceptor(c)
  /\ UNCHANGED waitForReady

-----------------------------------------------------------------------------
(* The client, used by a handler.                                          *)

\* GetRequestIDFromContext: the incoming metadata of the handler's context.  A
\* handler that puts an x-request-id of its own into the outgoing metadata has
\* chosen the id of its calls itself; here handlers leave that to the client.
GetRequestIDFromContext(c) == calls[c].id

\* clientLoggingInterceptor: the id sent with the new call.
ClientLoggingInterceptor(c) ==
  IF GetRequestIDFromContext(c) # NoID THEN GetRequestIDFromContext(c)
  ELSE ClientID(Len(calls) + 1)

CallNext(c) ==
  /\ calls[c].pc = "handling" /\ calls[c].at < Depth /\ Len(calls) < MaxCalls
  /\ calls' = Append([calls EXCEPT ![c].pc = "calling"],
                     Sent(calls[c].at + 1, c, ClientLoggingInterceptor(c),
                          Earlier(calls[c].left, ClientTimeout)))
  /\ UNCHANGED <<server, waitForReady>>

CallReturns(c) ==
  /\ calls[c].pc = "calling" /\ calls[Child(c)].answer # "none"
  /\ calls' = [calls EXCEPT ![c].pc = "handling"]
  /\ UNCHANGED <<server, waitForReady>>

\* The caller's context ends; a handler at work does not notice.
DeadlineExceeded(c) ==
  /\ calls[c].answer = "none" /\ calls[c].due = 0
  /\ calls' = [calls EXCEPT ![c] =
                 IF @.pc = "sent" THEN Ended(@, "deadline")
                 ELSE [@ EXCEPT !.answer = "deadline"]]
  /\ UNCHANGED <<server, waitForReady>>

\* No server, and the call may not wait for one.
FailsFast(c) ==
  /\ calls[c].pc = "sent" /\ ~waitForReady
  /\ server[calls[c].at] # "serving"
  /\ EndCall(c, "unavailable")
  /\ UNCHANGED <<server, waitForReady>>

Less(t) == IF t \in {0, NoDeadline} THEN t ELSE t - 1

ChainTick ==
  /\ \E c \in DOMAIN calls :
       {calls[c].due, calls[c].left} \ {0, NoDeadline} # {}
  /\ calls' = [c \in DOMAIN calls |->
                 [calls[c] EXCEPT !.due = Less(@), !.left = Less(@)]]
  /\ UNCHANGED <<server, waitForReady>>

Handler(c) ==
  HandlerReturns(c) \/ HandlerPanics(c) \/ CallNext(c) \/ CallReturns(c)

ChainNext ==
  \/ GatewayCalls \/ ChainTick
  \/ \E s \in 1..Depth : StartServer(s) \/ StopServer(s) \/ StopEnds(s)
  \/ \E c \in DOMAIN calls :
       Accept(c) \/ Handler(c) \/ DeadlineExceeded(c) \/ FailsFast(c)

ChainSpec == ChainInit /\ [][ChainNext]_chainVars

-----------------------------------------------------------------------------
(* Properties                                                              *)

\* Calls keep their types, an ended handler has answered, and one that runs
\* has a deadline, the server's if its caller sets none (timeoutInterceptor).
ChainTypeOK ==
  /\ server \in [1..Depth -> {"new", "serving", "stopping", "stopped"}]
  /\ waitForReady \in BOOLEAN /\ Len(calls) <= MaxCalls
  /\ \A c \in DOMAIN calls :
       LET k == calls[c] IN
       /\ k.at \in 1..Depth /\ k.parent \in 0..(c - 1)
       /\ k.id \in 0..(2 * MaxCalls + 1) /\ k.log \in 0..(2 * MaxCalls + 1)
       /\ k.due \in 0..NoDeadline
       /\ k.pc \in {"sent", "handling", "calling", "ended"}
       /\ k.answer \in {"none", "returned", "internal", "deadline",
                        "unavailable"}
       /\ k.pc = "ended" => k.answer # "none"
       /\ k.left \in (IF Running(c) THEN 0..ServerTimeout ELSE 0..NoDeadline)

\* A request that came with an id is logged under it by every service it
\* reaches, over any number of hops and calls (loggingInterceptor,
\* GetRequestIDFromContext, clientLoggingInterceptor).
RequestIDKept ==
  \A c \in DOMAIN calls :
    LET k == calls[c] IN
    k.log # NoID =>
      /\ k.id # NoID => k.log = k.id
      /\ k.parent # 0 /\ calls[k.parent].id # NoID =>
           k.log = calls[k.parent].log

\* What the comment in loggingInterceptor says of an id generated there ("Add
\* to context for downstream use"): the services called by the handler log
\* the same id.
OneRequestID ==
  \A c \in DOMAIN calls :
    calls[c].log # NoID /\ calls[c].parent # 0 =>
      calls[c].log = calls[calls[c].parent].log

\* No service works longer on a call than its caller waits: the time left to
\* a handler is within its caller's, and within that of every handler above
\* (timeoutInterceptor, retryInterceptor).
DeadlineInherited ==
  \A c \in DOMAIN calls :
    /\ Running(c) => calls[c].left <= calls[c].due
    /\ calls[c].parent # 0 /\ calls[c].pc # "ended" =>
         calls[c].due <= calls[calls[c].parent].left

\* When Stop returns, no handler of the server is at work.
StopDrains ==
  \A c \in DOMAIN calls : Running(c) => server[calls[c].at] # "stopped"

\* Stop returns, even if a handler waits for a service that never answers
\* and neither the caller nor the client sets a deadline (timeoutInterceptor).
StopReturns ==
  \A s \in 1..Depth : server[s] = "stopping" ~> server[s] = "stopped"
=============================================================================
