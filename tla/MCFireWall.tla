----------------------------- MODULE MCFireWall -----------------------------
(***************************************************************************)
(* An instance of FireWall for TLC: two applications share a uid.          *)
(***************************************************************************)
EXTENDS FireWall

CONSTANTS a, b, c, u, v

Shared == [x \in Apps |-> IF x = a THEN u ELSE v]
=============================================================================
