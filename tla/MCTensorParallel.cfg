\* Ownership and budget over one to four ranks; see MCTensorParallel.tla.
CONSTANTS
  TableSizes <- MCTableSizes
  TpSizes <- MCTpSizes
  CacheSizes <- MCCacheSizes
  Layers <- MCLayers
SPECIFICATION Spec
INVARIANTS TypeOK OneOwner SumExact RangesAccepted WithinBudget
