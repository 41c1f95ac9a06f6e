---------------------------- MODULE MCStudentSos ----------------------------
(***************************************************************************)
(* An instance of StudentSos for TLC: a list of family numbers.            *)
(***************************************************************************)
EXTENDS StudentSos

AllKinds == <<"empty", "plain", "emergency">>
=============================================================================
