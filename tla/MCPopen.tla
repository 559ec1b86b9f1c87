------------------------------- MODULE MCPopen -------------------------------
(* Small instances of Popen for TLC.                                       *)
EXTENDS Popen

=============================================================================
