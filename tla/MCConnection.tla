---------------------------- MODULE MCConnection ----------------------------
(* Instances of Connection for model checking.                             *)
EXTENDS Connection
=============================================================================
