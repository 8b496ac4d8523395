-------------------------- MODULE MCVectorSnapshots --------------------------
(* Small instances of VectorSnapshots.                                      *)
EXTENDS VectorSnapshots, TLC

\* Nothing tells tokens, labels, keys or checksums apart.
Symmetry == Permutations(Builders) \cup Permutations(Readers) \cup Permutations(Labels)
                \cup Permutations(Keys) \cup Permutations(Values)
==============================================================================
