-------------------------- MODULE MCEchoSelect ------------------------------
(* EchoSelect with two clients. *)
EXTENDS EchoSelect
=============================================================================
