-------------------------- MODULE MCBuildPipeline --------------------------
(***************************************************************************)
(* Instances of BuildPipeline for TLC.                                     *)
(***************************************************************************)
EXTENDS BuildPipeline

CONSTANTS A, B

OneEach == [p \in Projects |-> IF p = A THEN 1 ELSE 2]
AllOfA  == {<<A, a>> : a \in Actions} \cup ({B} \X {"new"})
=============================================================================
