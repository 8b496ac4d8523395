------------------------- MODULE MCHostedProjection -------------------------
(* Small instances of HostedProjection.                                    *)
EXTENDS HostedProjection, TLC

Symmetry == Permutations(Records) \cup Permutations(Texts) \cup Permutations(Workers)
==============================================================================
