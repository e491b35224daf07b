------------------------- MODULE MCTensorParallel -------------------------
(***************************************************************************)
(* TensorParallel with both Engram layers, one to four ranks, tables that  *)
(* no number of ranks divides (or that have fewer rows than ranks), and    *)
(* budgets around one cache entry for each store.                          *)
(***************************************************************************)
EXTENDS TensorParallel

MCTableSizes == {0, 1, 3, 7, 8}
MCTpSizes == 1..4
MCCacheSizes == {0, 543, 544, 2 * 4 * 272 + 100}
MCLayers == {1, 14}
=============================================================================
