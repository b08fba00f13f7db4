------------------------------ MODULE RetryDelay ------------------------------
(***************************************************************************)
(* boundedRetryDelay of the gRPC client: exponential backoff under a       *)
(* maximum, with equal jitter, in integers of DelayWidth bits.             *)
(***************************************************************************)
EXTENDS Integers

CONSTANTS
  DelayWidth,        \* 64 in the code
  MaxAttempt,        \* bound
  DefaultMaxWait     \* defaultRetryMaxWaitTime

Largest == 2 ^ (DelayWidth - 1) - 1

ASSUME DelayAssumption ==
  /\ DelayWidth \in Nat \ {0} /\ MaxAttempt \in Nat
  /\ DefaultMaxWait \in 1..Largest

\* What a proof needs to know of the powers of two in use.
ASSUME PowersOfTwo ==
  /\ Largest \in Nat
  /\ \A n \in 0..MaxAttempt : 2 ^ n \in Nat /\ 2 ^ (n + 1) = 2 * 2 ^ n
  /\ \A m, n \in 0..MaxAttempt : m <= n => 2 ^ m <= 2 ^ n

VARIABLES base, maximum, attempt, ceiling, round, delay, delayPc

delayVars == <<base, maximum, attempt, ceiling, round, delay, delayPc>>

Wrap(n) == ((n + Largest + 1) % (2 * (Largest + 1))) - Largest - 1

DelayInit ==
  /\ base \in 0..Largest /\ maximum \in 0..Largest /\ attempt \in 1..MaxAttempt
  /\ ceiling = base /\ round = 1 /\ delay = 0 /\ delayPc = "enter"

\* A base of zero waits not at all, a maximum of zero is the default.
DelayEnter ==
  /\ delayPc = "enter"
  /\ delayPc' = IF base = 0 THEN "done" ELSE "loop"
  /\ maximum' = IF maximum = 0 THEN DefaultMaxWait ELSE maximum
  /\ UNCHANGED <<base, attempt, ceiling, round, delay>>

\* Mutant: doubled without looking at the maximum first.
DoubledUnguarded == Wrap(ceiling * 2)

\* The body of the loop.
Doubled == IF ceiling > maximum \div 2 THEN maximum ELSE Wrap(ceiling * 2)

DelayLoop ==
  /\ delayPc = "loop" /\ round < attempt /\ ceiling < maximum
  /\ ceiling' = Doubled /\ round' = round + 1
  /\ UNCHANGED <<base, maximum, attempt, delay, delayPc>>

\* Half the ceiling, and a random part of the other half.
Jitter(c) == c \div 2 .. c

DelayReturns ==
  /\ delayPc = "loop" /\ ~(round < attempt /\ ceiling < maximum)
  /\ LET c == IF ceiling > maximum THEN maximum ELSE ceiling
     IN  delay' \in Jitter(c)
  /\ delayPc' = "done"
  /\ UNCHANGED <<base, maximum, attempt, ceiling, round>>

DelayNext == DelayEnter \/ DelayLoop \/ DelayReturns

DelaySpec == DelayInit /\ [][DelayNext]_delayVars

-----------------------------------------------------------------------------
(* Property                                                                *)

\* The backoff without rounds and overflow.
Exponential ==
  IF base * 2 ^ (attempt - 1) < maximum THEN base * 2 ^ (attempt - 1)
  ELSE maximum

\* The wait before a retry is between half of base * 2^(attempt-1), cut at
\* the maximum, and all of it: no doubling overflows, whatever base, maximum
\* and attempt (boundedRetryDelay).
DelayBounded ==
  delayPc = "done" /\ base > 0 => delay \in Exponential \div 2 .. Exponential

\* The inductive invariant: the ceiling is the base doubled once per round, or
\* the maximum where that is no more than the doubled base.
DelayInv ==
  /\ base \in 0..Largest /\ attempt \in 1..MaxAttempt
  /\ round \in 1..attempt /\ maximum \in 0..Largest
  /\ delayPc \in {"enter", "loop", "done"}
  /\ delayPc = "enter" => round = 1 /\ ceiling = base
  /\ delayPc = "loop" =>
       /\ base > 0 /\ maximum > 0
       /\ \/ ceiling = base * 2 ^ (round - 1)
          \/ ceiling = maximum /\ maximum <= base * 2 ^ (round - 1)
  /\ DelayBounded
=============================================================================
