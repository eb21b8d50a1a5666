-------------------------- MODULE MCStreamExchange --------------------------
(* StreamExchange for TLC: the cfg gives the bounds. *)
EXTENDS StreamExchange
=============================================================================
