---------------------------- MODULE MCNamespace ----------------------------
(* Platforms with every feature, with none, with only one missing, and     *)
(* with only one present.                                                  *)
EXTENDS Namespace

MCPlatforms ==
    {Features, {}} \cup {Features \ {f} : f \in Features} \cup {{f} : f \in Features}

=============================================================================
