-------------------------- MODULE ConsumerGroupLog --------------------------
(***************************************************************************)
(* What a consumer group promises about the offsets of its topic, with no  *)
(* mention of retries, dead letters, crashes or rebalances: a message is   *)
(* settled (processed, skipped, dead-lettered or given up on) before the   *)
(* group's committed offset passes it.  The committed offset may move      *)
(* backwards (a late commit of an earlier message), which only causes      *)
(* redelivery.  KafkaConsumer implements this specification.               *)
(***************************************************************************)
EXTENDS Naturals

CONSTANTS Partitions,   \* partitions of the topic
          MaxOffset     \* every partition holds the offsets 1..MaxOffset

VARIABLES committed,    \* committed[p]: the last committed offset, 0 for none
          settled       \* settled[p]: the offsets that have been settled

vars == <<committed, settled>>

Init ==
  /\ committed = [p \in Partitions |-> 0]
  /\ settled = [p \in Partitions |-> {}]

Settle(p, o) ==
  /\ settled' = [settled EXCEPT ![p] = @ \cup {o}]
  /\ UNCHANGED committed

Commit(p, o) ==
  /\ 1..o \subseteq settled[p]
  /\ committed' = [committed EXCEPT ![p] = o]
  /\ UNCHANGED settled

Next ==
  \E p \in Partitions, o \in 1..MaxOffset : Settle(p, o) \/ Commit(p, o)

Spec == Init /\ [][Next]_vars
=============================================================================
