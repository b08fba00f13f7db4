---------------------------- MODULE MultiConsumer ---------------------------
(***************************************************************************)
(* kafka.MultiConsumer: ConsumeAll starts one goroutine per consumer, each *)
(* of which sends the result of Consume on errCh, and returns on the first *)
(* result or when the context ends.  Consume (module KafkaConsumer) only   *)
(* returns once the context has ended: not on a fetch error, and not when  *)
(* Close closed its reader.                                                *)
(***************************************************************************)
EXTENDS Integers

CONSTANT Consumers       \* len(mc.consumers)
ASSUME MultiAssumption == Consumers \in Nat \ {0}

VARIABLES
  goroutine,             \* of each consumer: "consuming", "sending" or "done"
  errCh,                 \* results in the channel
  ctxDone,               \* the context has ended
  allReturned,           \* ConsumeAll has returned
  readersOpen            \* consumers whose reader is open

multiVars == <<goroutine, errCh, ctxDone, allReturned, readersOpen>>

MultiInit ==
  /\ goroutine = [i \in 1..Consumers |-> "consuming"]
  /\ errCh = 0 /\ ctxDone = FALSE /\ allReturned = FALSE
  /\ readersOpen = 1..Consumers

ConsumeReturns(i) ==
  /\ ctxDone /\ goroutine[i] = "consuming"
  /\ goroutine' = [goroutine EXCEPT ![i] = "sending"]
  /\ UNCHANGED <<errCh, ctxDone, allReturned, readersOpen>>

\* Mutant: make(chan error), where a send waits for ConsumeAll to receive.
ErrChHasRoomUnbuffered == errCh = 0 /\ ~allReturned

\* make(chan error, len(mc.consumers))
ErrChHasRoom == errCh < Consumers

SendResult(i) ==
  /\ goroutine[i] = "sending" /\ ErrChHasRoom
  /\ goroutine' = [goroutine EXCEPT ![i] = "done"]
  /\ errCh' = errCh + 1
  /\ UNCHANGED <<ctxDone, allReturned, readersOpen>>

\* The select of ConsumeAll.
ConsumeAllReturns ==
  /\ ~allReturned /\ allReturned' = TRUE
  /\ \/ errCh > 0 /\ errCh' = errCh - 1
     \/ ctxDone /\ UNCHANGED errCh
  /\ UNCHANGED <<goroutine, ctxDone, readersOpen>>

ContextEnds ==
  /\ ~ctxDone /\ ctxDone' = TRUE
  /\ UNCHANGED <<goroutine, errCh, allReturned, readersOpen>>

\* Close: in order, up to the consumer whose Close fails (if one does).
MultiClose ==
  /\ \E k \in 1..(Consumers + 1) : readersOpen' = readersOpen \ (1..(k - 1))
  /\ UNCHANGED <<goroutine, errCh, ctxDone, allReturned>>

MultiNext ==
  \/ \E i \in 1..Consumers : ConsumeReturns(i) \/ SendResult(i)
  \/ ConsumeAllReturns \/ ContextEnds \/ MultiClose

\* Once the context has ended, every goroutine of ConsumeAll delivers its
\* result and ends, although ConsumeAll receives at most one of them.
GoroutinesEnd == ctxDone ~> \A i \in 1..Consumers : goroutine[i] = "done"

=============================================================================
