------------------------------ MODULE MCSignal ------------------------------
(* Small instances of Signal for TLC.                                      *)
EXTENDS Signal, TLC

\* The signals are interchangeable.
Symmetry == Permutations(Sigs)

=============================================================================
