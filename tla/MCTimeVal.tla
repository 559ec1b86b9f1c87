------------------------------ MODULE MCTimeVal ------------------------------
(* A small instance of TimeVal for TLC: a second of three microseconds.    *)
EXTENDS TimeVal

=============================================================================
