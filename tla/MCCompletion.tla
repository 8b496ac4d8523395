---------------------------- MODULE MCCompletion ----------------------------
EXTENDS Completion, TLC

Symmetry == Permutations(Callers)
==============================================================================
