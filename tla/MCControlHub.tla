---------------------------- MODULE MCControlHub ----------------------------
(* Instances of ControlHub for TLC. *)
EXTENDS ControlHub, TLC

WebAndSerial == Web \cup {Serial}
Symmetry     == Permutations(Runs)
=============================================================================
