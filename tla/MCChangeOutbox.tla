--------------------------- MODULE MCChangeOutbox ---------------------------
(* ChangeOutbox on small instances.                                        *)
EXTENDS ChangeOutbox
=============================================================================
