------------------------------ MODULE MCHealth ------------------------------
(* The health endpoint of a service with two stores, whose checkers were     *)
(* given one name, and a queue.                                              *)
EXTENDS Health

MCNameOf == <<"store", "queue", "store">>
=============================================================================
