-------------------------- MODULE MCEchoPoll --------------------------------
(* EchoPoll with two clients. *)
EXTENDS EchoPoll
=============================================================================
