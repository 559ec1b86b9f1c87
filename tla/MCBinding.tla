----------------------------- MODULE MCBinding -----------------------------
(* A small instance of Binding for TLC, with every function of Calls.      *)
EXTENDS Calls

MCCodes == {-2, 1}

=============================================================================
