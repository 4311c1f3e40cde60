--------------------------- MODULE MCBlockStorage ---------------------------
(* Two writers, a reader and two VACUUMs on a relation that grows to two    *)
(* blocks.                                                                  *)
EXTENDS BlockStorage, TLC

CONSTANTS w1, w2, r1

Symmetry == Permutations(Writers)
=============================================================================
