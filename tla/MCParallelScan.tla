--------------------------- MODULE MCParallelScan ---------------------------
(* Instances of ParallelScan with three workers. *)
EXTENDS ParallelScan

CONSTANTS w1, w2, w3
=============================================================================
