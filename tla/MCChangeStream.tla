---------------------------- MODULE MCChangeStream ----------------------------
(* ChangeStream for TLC. *)
EXTENDS ChangeStream
===============================================================================
