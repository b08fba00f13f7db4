--------------------------- MODULE MCKafkaConsumer ---------------------------
(* Instances of KafkaConsumer for TLC. *)
EXTENDS KafkaConsumer

NoMessages == {}

\* The malformed message of every partition is its first.
FirstMessages == Partitions \X {1}
=============================================================================
