------------------------------ MODULE MCHoldout ------------------------------
(* Holdout on small instances: one retriever, one or two operators.         *)
EXTENDS Holdout, TLC

\* A hash value between the low rates (1, 2) and Explore (5), so that the arm
\* depends on which of them is in force.
MCDraw == [x \in Salts \X Lessons \X Occasions |-> 3]
Symmetry == Permutations(Retrievers) \cup Permutations(Operators)
==============================================================================
