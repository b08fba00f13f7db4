------------------------------ MODULE MCConfig -------------------------------
(***************************************************************************)
(* A small configuration struct for Config.                                *)
(***************************************************************************)
EXTENDS Config

\* A list, a number with a default, a narrow number, a number whose default has
\* no env tag to go with it, and a field of a kind that setField leaves alone.
MCFields ==
  << [kind |-> "slice", env |-> TRUE, default |-> Empty],
     [kind |-> "int", env |-> TRUE, default |-> Number(2)],
     [kind |-> "narrow", env |-> TRUE, default |-> Empty],
     [kind |-> "int", env |-> FALSE, default |-> Number(2)],
     [kind |-> "other", env |-> TRUE, default |-> Word] >>
=============================================================================
